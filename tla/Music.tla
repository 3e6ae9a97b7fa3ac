------------------------------- MODULE Music -------------------------------
(***************************************************************************)
(* The player.  PlayingSong puts the number of a song into the track queue *)
(* and waits for a place in it for ever; health_thread, the timer service  *)
(* (for all timer callbacks) and user_downstream_thread call it.           *)
(* music_thread takes the numbers out, looks the file name up in the       *)
(* directory of the card and plays the file, 1024 bytes at a time          *)
(* (MP3_playSong).  Meanwhile user_downstream_thread may change the volume *)
(* and the user may lift the cup (key up), which interrupts the song.      *)
(*                                                                         *)
(* vsset.mvol is shared without a lock, so that each read of it is a step. *)
(* Memory may run out, and the card may fail any read.                     *)
(***************************************************************************)
EXTENDS Naturals, Sequences

CONSTANTS
    Producer,      (* the threads that call PlayingSong                       *)
    Downstream,    (* the one of them that also sets the volume               *)
    Track,         (* the song numbers they ask for, u16                      *)
    NumFiles,      (* music files in the directory; their indices are 0, ...  *)
    Byte,          (* the modulus of a u8                                     *)
    QueueLength,   (* MAX_WAITING_TRACK_NUM                                   *)
    Mvol,          (* the values of vsset.mvol                                *)
    Chunks,        (* exploration bound: the longest file, in reads           *)
    MaxRequests    (* exploration bound: calls of PlayingSong                 *)

ASSUME MusicAssumption ==
    /\ Downstream \in Producer
    /\ Track \subseteq Nat
    /\ NumFiles \in Nat
    /\ Byte \in Nat \ {0}
    /\ QueueLength \in Nat \ {0}
    /\ Mvol # {}
    /\ Chunks \in Nat \ {0}
    /\ MaxRequests \in Nat

(* The song of MusicMonitor.c:79, and the content of a buffer before the   *)
(* first name was put into it: neither is a file of the directory's index. *)
Greeting == NumFiles
Garbage  == NumFiles + 1
File     == 0 .. NumFiles - 1
Song     == 0 .. NumFiles + 1

VARIABLES
    queue,       (* track_queue: the requests waiting, oldest first           *)
    waiting,     (* per producer: the request it has yet to push, or NoReq    *)
    requests,    (* calls of PlayingSong so far; numbers the requests         *)
    key,         (* the level of the key: is it up?                           *)
    mvol,        (* vsset.mvol                                                *)
    pc,          (* control of music_thread                                   *)
    req,         (* track: the request being served, NoReq if none            *)
    name,        (* name: the file whose name is in the buffer                *)
    song,        (* pName of MP3_playSong                                     *)
    left,        (* reads that still fill the buffer                          *)
    chip,        (* the volume the codec is set to                            *)
    lastVol,     (* lastVol                                                   *)
    rval,        (* rval                                                      *)
    raced,       (* history: the volume changed while it was being set        *)
    served,      (* history: the requests music_thread is done with           *)
    asked        (* history: the numbers asked for, as the program maps them  *)

queueVars  == <<queue, waiting, requests, asked>>
volumeVars == <<chip, lastVol, raced>>
songVars   == <<req, name, song, left, rval, served>>
vars == <<queueVars, key, mvol, pc, songVars, volumeVars>>

NoReq == [id |-> 0, track |-> 0]

KeyUp  == 1
Failed == 255

(* (u8)track.trackNum                                                      *)
Index(track) == track % Byte

Init ==
    /\ queue = <<>>
    /\ waiting = [p \in Producer |-> NoReq]
    /\ requests = 0
    /\ key \in BOOLEAN
    /\ mvol \in Mvol
    /\ pc \in {"pop", "start"}
    /\ req = NoReq
    /\ name = Garbage
    /\ song = Greeting
    /\ left = 0
    /\ chip \in Mvol
    /\ lastVol = mvol
    /\ rval = 0
    /\ raced = FALSE
    /\ served = {}
    /\ asked = {}

-----------------------------------------------------------------------------
(* PlayingSong.                                                            *)

Call(p, track) ==
    /\ waiting[p] = NoReq
    /\ requests < MaxRequests
    /\ requests' = requests + 1
    /\ waiting' = [waiting EXCEPT ![p] = [id |-> requests', track |-> track]]
    /\ asked' = asked \cup {Index(track)}
    /\ UNCHANGED <<queue, key, mvol, pc, songVars, volumeVars>>

(* Mutant: the queue takes more than it has places for. *)
PushUnbounded(p) ==
    /\ waiting[p] # NoReq
    /\ queue' = Append(queue, waiting[p])
    /\ waiting' = [waiting EXCEPT ![p] = NoReq]
    /\ UNCHANGED <<requests, asked, key, mvol, pc, songVars, volumeVars>>

(* Mutant: the producer does not wait for a place. *)
PushNoWait(p) ==
    /\ waiting[p] # NoReq
    /\ queue' = IF Len(queue) < QueueLength THEN Append(queue, waiting[p]) ELSE queue
    /\ waiting' = [waiting EXCEPT ![p] = NoReq]
    /\ UNCHANGED <<requests, asked, key, mvol, pc, songVars, volumeVars>>

Push(p) ==
    /\ waiting[p] # NoReq
    /\ Len(queue) < QueueLength
    /\ queue' = Append(queue, waiting[p])
    /\ waiting' = [waiting EXCEPT ![p] = NoReq]
    /\ UNCHANGED <<requests, asked, key, mvol, pc, songVars, volumeVars>>

(* MP3_setVolume, by user_downstream_thread unless it waits in PlayingSong. *)
SetVolume(vol) ==
    /\ waiting[Downstream] = NoReq
    /\ mvol' = vol
    /\ raced' = (raced \/ pc \in {"setall", "latch"})
    /\ UNCHANGED <<queueVars, key, pc, songVars, chip, lastVol>>

(* The cup is lifted, or put down.                                         *)
KeyChanges ==
    /\ key' = ~key
    /\ UNCHANGED <<queueVars, mvol, pc, songVars, volumeVars>>

-----------------------------------------------------------------------------
(* music_thread.                                                           *)

Pop ==
    /\ pc = "pop"
    /\ queue # <<>>
    /\ req' = Head(queue)
    /\ queue' = Tail(queue)
    /\ pc' = "lookup"
    /\ UNCHANGED <<waiting, requests, asked, key, mvol, name, song, left, rval, served, volumeVars>>

(* Mutant: the search counts the files from one. *)
LookupFromOne ==
    /\ pc = "lookup"
    /\ name' \in {name} \cup ({Index(req.track + 1)} \cap File)
    /\ song' = name'
    /\ pc' = "start"
    /\ UNCHANGED <<queueVars, key, mvol, req, left, rval, served,
                   volumeVars>>

(* MP3_getMp3FileName puts the name into the buffer, or fails and leaves   *)
(* what is there: there is no such file, no memory, or an error of the     *)
(* card.  music_thread goes on in either case.                             *)
Lookup ==
    /\ pc = "lookup"
    /\ name' \in {name} \cup ({Index(req.track)} \cap File)
    /\ song' = name'
    /\ pc' = "start"
    /\ UNCHANGED <<queueVars, key, mvol, req, left, rval, served,
                   volumeVars>>

-----------------------------------------------------------------------------
(* MP3_playSong.                                                           *)

(* The song ends and music_thread waits for the next number.               *)
Return(result) ==
    /\ rval' = result
    /\ pc' = "pop"
    /\ req' = NoReq
    /\ served' = served \cup ({req.id} \ {NoReq.id})
    /\ UNCHANGED <<name, song, left>>

NoMemory ==
    /\ pc = "start"
    /\ Return(Failed)
    /\ UNCHANGED <<queueVars, key, mvol, volumeVars>>

(* lastVol = vsset.mvol, after the reset of the codec.                     *)
Start ==
    /\ pc = "start"
    /\ lastVol' = mvol
    /\ rval' = 0
    /\ raced' = FALSE
    /\ pc' = "setall"
    /\ UNCHANGED <<queueVars, key, mvol, req, name, song, left, served, chip>>

(* Mutant: the song starts with the volume of the song before it. *)
SetAllForgotten ==
    /\ pc = "setall"
    /\ pc' = "open"
    /\ UNCHANGED <<queueVars, key, mvol, songVars, volumeVars>>

(* VS_Set_All reads the volume for itself.                                 *)
SetAll ==
    /\ pc = "setall"
    /\ chip' = mvol
    /\ pc' = "open"
    /\ UNCHANGED <<queueVars, key, mvol, songVars, lastVol, raced>>

OpenFails ==
    /\ pc = "open"
    /\ Return(Failed)
    /\ UNCHANGED <<queueVars, key, mvol, volumeVars>>

Open ==
    /\ pc = "open"
    /\ song \in File \cup {Greeting}
    /\ left' \in 0 .. Chunks - 1
    /\ pc' = "read"
    /\ UNCHANGED <<queueVars, key, mvol, req, name, song, rval,
                   served, volumeVars>>

(* The comparison of lastVol with the volume, after a read.                *)
Read ==
    /\ pc = "read"
    /\ pc' = IF lastVol = mvol THEN "send" ELSE "set"
    /\ UNCHANGED <<queueVars, key, mvol, songVars, volumeVars>>

SetVol ==
    /\ pc = "set"
    /\ chip' = mvol
    /\ pc' = "latch"
    /\ UNCHANGED <<queueVars, key, mvol, songVars, lastVol, raced>>

Latch ==
    /\ pc = "latch"
    /\ lastVol' = mvol
    /\ pc' = "send"
    /\ UNCHANGED <<queueVars, key, mvol, songVars, chip, raced>>

(* While the codec takes the bytes, the key is looked at whenever the      *)
(* codec has enough: at its end the loop has seen it up, or has not.       *)
LookAtKey ==
    /\ pc = "send"
    /\ key
    /\ rval' = KeyUp
    /\ UNCHANGED <<queueVars, key, mvol, pc, req, name, song, left, served,
                   volumeVars>>

(* The codec has the chunk: the last one, read short or with an error; one *)
(* with which the loop ends because the key was up; or one of many.        *)
SendLast ==
    /\ pc = "send"
    /\ Return(KeyUp)
    /\ UNCHANGED <<queueVars, key, mvol, volumeVars>>

SendInterrupted ==
    /\ pc = "send"
    /\ left > 0
    /\ rval # 0
    /\ Return(rval)
    /\ UNCHANGED <<queueVars, key, mvol, volumeVars>>

Send ==
    /\ pc = "send"
    /\ left > 0
    /\ rval = 0
    /\ left' = left - 1
    /\ pc' = "read"
    /\ UNCHANGED <<queueVars, key, mvol, req, name, song, rval,
                   served, volumeVars>>

MP3_playSong ==
    \/ NoMemory
    \/ Start
    \/ SetAll
    \/ OpenFails
    \/ Open
    \/ Read
    \/ SetVol
    \/ Latch
    \/ SendLast
    \/ SendInterrupted
    \/ Send

MusicThread == Pop \/ Lookup \/ MP3_playSong

-----------------------------------------------------------------------------
Next ==
    \/ \E p \in Producer : Push(p) \/ \E track \in Track : Call(p, track)
    \/ \E vol \in Mvol : SetVolume(vol)
    \/ KeyChanges
    \/ MusicThread
    \/ LookAtKey

Spec == Init /\ [][Next]_vars

(* music_thread runs and the codec plays what it was given; a producer that *)
(* finds a place takes it.  Callers, volume and key are free.              *)
FairSpec ==
    /\ Spec
    /\ WF_vars(MusicThread)
    /\ \A p \in Producer : WF_vars(Push(p))
-----------------------------------------------------------------------------
Request == [id : 1 .. MaxRequests, track : Track]

(* The type of the state: the track queue never holds more than its places.*)
TypeOK ==
    /\ queue \in Seq(Request)
    /\ Len(queue) <= QueueLength
    /\ waiting \in [Producer -> Request \cup {NoReq}]
    /\ requests \in 0 .. MaxRequests
    /\ key \in BOOLEAN
    /\ mvol \in Mvol
    /\ pc \in {"pop", "lookup", "start", "setall", "open", "read", "set",
               "latch", "send"}
    /\ req \in Request \cup {NoReq}
    /\ name \in File \cup {Garbage}
    /\ song \in Song
    /\ left \in 0 .. Chunks - 1
    /\ chip \in Mvol
    /\ lastVol \in Mvol
    /\ rval \in {0, KeyUp, Failed}
    /\ raced \in BOOLEAN
    /\ served \subseteq 1 .. MaxRequests
    /\ asked \subseteq 0 .. Byte - 1

(* The file being played was asked for, now or before, by its number       *)
(* modulo 256; only the greeting is played unasked.                        *)
PlaysWhatWasAsked ==
    pc \in {"read", "set", "latch", "send"} => song \in asked \cup {Greeting}

(* While a song plays, a codec that is not at the volume of the settings   *)
(* is noticed: the next comparison (mp3.c:353) finds lastVol different,    *)
(* unless in this song the volume changed between the two reads of it that *)
(* belong together, mp3.c:329 and 333 or 355 and 356.                      *)
VolumeNoticed ==
    pc \in {"open", "read", "set", "send"} /\ ~raced /\ chip # mvol => lastVol # mvol

(* Whoever calls PlayingSong, however full the queue and however often key *)
(* and volume change: music_thread gets to the song and is done with it.   *)
Served ==
    \A id \in 1 .. MaxRequests : requests >= id ~> id \in served
=============================================================================

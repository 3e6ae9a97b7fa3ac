---------------------------- MODULE Music_proofs ----------------------------
(***************************************************************************)
(* Proofs about the player, for every number of producers, tracks, files,  *)
(* places and volumes.                                                     *)
(***************************************************************************)
EXTENDS Music, TLAPS

(* A number cut to a byte is a byte.                                       *)
LEMMA IndexRange ==
    ASSUME NEW track \in Track
    PROVE  Index(track) \in 0 .. Byte - 1
  <1>1. track \in Nat /\ Byte \in Nat \ {0}
    BY MusicAssumption
  <1> QED
    BY <1>1 DEF Index

(* The cases of MP3_playSong and of the rest of the thread.                *)
Thread ==
    \/ Pop \/ Lookup \/ NoMemory \/ Start \/ SetAll \/ OpenFails \/ Open
    \/ Read \/ SetVol \/ Latch \/ SendLast \/ SendInterrupted \/ Send

LEMMA ThreadCases == MusicThread => Thread
  BY DEF MusicThread, MP3_playSong, Thread

-----------------------------------------------------------------------------
(* The types.                                                              *)

LEMMA TypeInit == Init => TypeOK
  <1> SUFFICES ASSUME Init PROVE TypeOK
    OBVIOUS
  <1>1. MaxRequests \in Nat /\ QueueLength \in Nat \ {0} /\ NumFiles \in Nat /\ Chunks \in Nat \ {0}
    BY MusicAssumption
  <1>2. queue \in Seq(Request) /\ Len(queue) <= QueueLength
    BY <1>1 DEF Init
  <1>3. requests \in 0 .. MaxRequests /\ left \in 0 .. Chunks - 1
    BY <1>1 DEF Init
  <1>4. name \in File \cup {Garbage} /\ song \in Song
    BY <1>1 DEF Init, Song, Greeting
  <1> QED
    BY <1>2, <1>3, <1>4 DEF Init, TypeOK

LEMMA TypeStep == TypeOK /\ [Next]_vars => TypeOK'
  <1> SUFFICES ASSUME TypeOK, [Next]_vars PROVE TypeOK'
    OBVIOUS
  <1>0. MaxRequests \in Nat /\ QueueLength \in Nat \ {0} /\ NumFiles \in Nat /\ Chunks \in Nat \ {0}
    BY MusicAssumption
  <1>1. ASSUME NEW p \in Producer, Push(p) PROVE TypeOK'
    <2>1. waiting[p] \in Request /\ NoReq \in Request \cup {NoReq}
      BY <1>1 DEF Push, TypeOK
    <2>2. queue' \in Seq(Request) /\ Len(queue') = Len(queue) + 1
      BY <1>1, <2>1 DEF Push, TypeOK
    <2>3. Len(queue') <= QueueLength
      BY <1>0, <1>1, <2>2 DEF Push, TypeOK
    <2>4. waiting' \in [Producer -> Request \cup {NoReq}]
      BY <1>1 DEF Push, TypeOK
    <2> QED
      BY <1>1, <2>2, <2>3, <2>4 DEF Push, TypeOK, songVars, volumeVars
  <1>2. ASSUME NEW p \in Producer, NEW track \in Track, Call(p, track) PROVE TypeOK'
    <2>1. requests' \in 1 .. MaxRequests
      BY <1>0, <1>2 DEF Call, TypeOK
    <2>2. [id |-> requests', track |-> track] \in Request
      BY <2>1 DEF Request
    <2>3. waiting' \in [Producer -> Request \cup {NoReq}]
      BY <1>2, <2>2 DEF Call, TypeOK
    <2>4. asked' \subseteq 0 .. Byte - 1
      BY <1>2, IndexRange DEF Call, TypeOK
    <2>5. requests' \in 0 .. MaxRequests
      BY <1>0, <2>1
    <2> QED
      BY <1>2, <2>3, <2>4, <2>5 DEF Call, TypeOK, songVars, volumeVars
  <1>3. ASSUME NEW vol \in Mvol, SetVolume(vol) PROVE TypeOK'
    BY <1>3 DEF SetVolume, TypeOK, queueVars, songVars
  <1>4. CASE KeyChanges
    BY <1>4 DEF KeyChanges, TypeOK, queueVars, songVars, volumeVars
  <1>5. CASE LookAtKey
    BY <1>5 DEF LookAtKey, TypeOK, queueVars, volumeVars
  <1>6. CASE Pop
    <2>1. Head(queue) \in Request /\ Tail(queue) \in Seq(Request)
      BY <1>6 DEF Pop, TypeOK
    <2>2. Len(Tail(queue)) <= QueueLength
      <3>1. Len(Tail(queue)) = Len(queue) - 1
        BY <1>6 DEF Pop, TypeOK
      <3>2. Len(queue) \in Nat
        BY DEF TypeOK
      <3> QED
        BY <1>0, <3>1, <3>2 DEF TypeOK
    <2> QED
      BY <1>6, <2>1, <2>2 DEF Pop, TypeOK, volumeVars
  <1>7. CASE Lookup
    <2>1. name' \in File \cup {Garbage}
      BY <1>7 DEF Lookup, TypeOK
    <2>2. song' \in Song
      BY <1>0, <1>7, <2>1 DEF Lookup, Song, File, Garbage
    <2> QED
      BY <1>7, <2>1, <2>2 DEF Lookup, TypeOK, queueVars, volumeVars
  <1>8. ASSUME NEW result \in {0, KeyUp, Failed}, Return(result),
               UNCHANGED <<queueVars, key, mvol, volumeVars>>
        PROVE  TypeOK'
    <2>1. req.id \in 1 .. MaxRequests \/ req.id = NoReq.id
      BY DEF TypeOK, Request
    <2>2. served' \subseteq 1 .. MaxRequests
      BY <1>8, <2>1 DEF Return, TypeOK
    <2>3. pc' = "pop" /\ req' \in Request \cup {NoReq} /\ rval' \in {0, KeyUp, Failed}
      BY <1>8 DEF Return
    <2> QED
      BY <1>8, <2>2, <2>3 DEF Return, TypeOK, queueVars, volumeVars
  <1>9. CASE NoMemory \/ OpenFails \/ SendLast \/ SendInterrupted
    <2>1. rval \in {0, KeyUp, Failed}
      BY DEF TypeOK
    <2> QED
      BY <1>8, <1>9, <2>1 DEF NoMemory, OpenFails, SendLast, SendInterrupted
  <1>10. CASE Start
    BY <1>10 DEF Start, TypeOK, queueVars
  <1>11. CASE SetAll \/ SetVol \/ Latch \/ Read
    BY <1>11 DEF SetAll, SetVol, Latch, Read, TypeOK, queueVars, songVars, volumeVars
  <1>12. CASE Open
    BY <1>12 DEF Open, TypeOK, queueVars, volumeVars
  <1>13. CASE Send
    <2>1. left' \in 0 .. Chunks - 1
      BY <1>0, <1>13 DEF Send, TypeOK
    <2> QED
      BY <1>13, <2>1 DEF Send, TypeOK, queueVars, volumeVars
  <1>14. CASE UNCHANGED vars
    BY <1>14 DEF vars, TypeOK, queueVars, songVars, volumeVars
  <1> QED
    BY <1>1, <1>2, <1>3, <1>4, <1>5, <1>6, <1>7, <1>9, <1>10, <1>11, <1>12,
       <1>13, <1>14, ThreadCases DEF Next, Thread

(* The variables keep their types, and the track queue never holds more    *)
(* than QueueLength numbers, whoever pushes (MusicMonitor.c:131).          *)
THEOREM TypeCorrect == Spec => []TypeOK
  <1> QED
    BY TypeInit, TypeStep, PTL DEF Spec

-----------------------------------------------------------------------------
(* What is played.  The strengthening follows a number from the call of    *)
(* PlayingSong through the queue into the buffer.                          *)

Asked(r) == Index(r.track) \in asked

PlayInv ==
    /\ \A p \in Producer : waiting[p] # NoReq => Asked(waiting[p])
    /\ \A i \in 1 .. Len(queue) : Asked(queue[i])
    /\ pc = "lookup" => Asked(req)
    /\ name \in asked \cup {Garbage}
    /\ song \in asked \cup {Greeting, Garbage}
    /\ pc \in {"read", "set", "latch", "send"} => song # Garbage

LEMMA PlayInit == Init => PlayInv
  BY DEF Init, PlayInv

LEMMA PlayStep == TypeOK /\ PlayInv /\ [Next]_vars => PlayInv'
  <1> SUFFICES ASSUME TypeOK, PlayInv, [Next]_vars PROVE PlayInv'
    OBVIOUS
  <1>1. ASSUME NEW p \in Producer, Push(p) PROVE PlayInv'
    <2>1. \A i \in 1 .. Len(queue') : Asked(queue'[i])
      <3>1. Len(queue') = Len(queue) + 1 /\ Len(queue) \in Nat
        BY <1>1 DEF Push, TypeOK
      <3>2. \A i \in 1 .. Len(queue') :
               queue'[i] = IF i <= Len(queue) THEN queue[i] ELSE waiting[p]
        BY <1>1, <3>1 DEF Push, TypeOK
      <3>3. Asked(waiting[p])
        BY <1>1 DEF Push, PlayInv
      <3> QED
        BY <3>1, <3>2, <3>3 DEF PlayInv
    <2>2. \A q \in Producer : waiting'[q] # NoReq => waiting'[q] = waiting[q]
      BY <1>1 DEF Push, TypeOK
    <2> QED
      BY <1>1, <2>1, <2>2 DEF Push, PlayInv, Asked, songVars
  <1>2. ASSUME NEW p \in Producer, NEW track \in Track, Call(p, track) PROVE PlayInv'
    <2>1. asked' = asked \cup {Index(track)}
      BY <1>2 DEF Call
    <2>2. \A q \in Producer : waiting'[q] # waiting[q] => waiting'[q].track = track
      BY <1>2 DEF Call, TypeOK
    <2>3. \A q \in Producer : waiting'[q] # NoReq => Index(waiting'[q].track) \in asked'
      BY <2>1, <2>2 DEF PlayInv, Asked
    <2>4. queue' = queue /\ pc' = pc /\ req' = req /\ name' = name /\ song' = song
      BY <1>2 DEF Call, songVars
    <2> QED
      BY <2>1, <2>3, <2>4 DEF PlayInv, Asked
  <1>3. ASSUME NEW vol \in Mvol, SetVolume(vol) PROVE PlayInv'
    BY <1>3 DEF SetVolume, PlayInv, Asked, queueVars, songVars
  <1>4. CASE KeyChanges
    BY <1>4 DEF KeyChanges, PlayInv, Asked, queueVars, songVars
  <1>5. CASE LookAtKey
    BY <1>5 DEF LookAtKey, PlayInv, Asked, queueVars
  <1>6. CASE Pop
    <2>1. Len(queue) \in Nat /\ Len(queue) >= 1
      BY <1>6 DEF Pop, TypeOK
    <2>2. req' = queue[1]
      BY <1>6 DEF Pop
    <2>3. Len(queue') = Len(queue) - 1 /\ \A i \in 1 .. Len(queue') : queue'[i] = queue[i + 1]
      BY <1>6, <2>1 DEF Pop, TypeOK
    <2>4. \A i \in 1 .. Len(queue') : i + 1 \in 1 .. Len(queue)
      BY <2>1, <2>3
    <2>5. \A i \in 1 .. Len(queue') : Asked(queue'[i])
      BY <2>3, <2>4 DEF PlayInv
    <2>6. Asked(queue[1])
      BY <2>1 DEF PlayInv
    <2>7. asked' = asked /\ waiting' = waiting /\ pc' = "lookup" /\ name' = name /\ song' = song
      BY <1>6 DEF Pop
    <2> QED
      BY <2>2, <2>5, <2>6, <2>7 DEF PlayInv, Asked
  <1>7. CASE Lookup
    <2>1. name' \in asked \cup {Garbage}
      BY <1>7 DEF Lookup, PlayInv, Asked
    <2> QED
      BY <1>7, <2>1 DEF Lookup, PlayInv, Asked, queueVars
  <1>8. CASE NoMemory \/ OpenFails \/ SendLast \/ SendInterrupted
    BY <1>8 DEF NoMemory, OpenFails, SendLast, SendInterrupted, Return, PlayInv, Asked, queueVars
  <1>9. CASE Open
    <2>1. song # Garbage
      <3>1. NumFiles \in Nat
        BY MusicAssumption
      <3> QED
        BY <1>9, <3>1 DEF Open, File, Greeting, Garbage
    <2> QED
      BY <1>9, <2>1 DEF Open, PlayInv, Asked, queueVars
  <1>10. CASE Start \/ SetAll \/ SetVol \/ Latch \/ Read \/ Send
    BY <1>10 DEF Start, SetAll, SetVol, Latch, Read, Send, PlayInv, Asked, queueVars, songVars
  <1>11. CASE UNCHANGED vars
    BY <1>11 DEF vars, PlayInv, Asked, queueVars, songVars
  <1> QED
    BY <1>1, <1>2, <1>3, <1>4, <1>5, <1>6, <1>7, <1>8, <1>9, <1>10, <1>11,
       ThreadCases DEF Next, Thread

(* A file that is being played was asked for, by its number cut to a byte: *)
(* a stale name (MusicMonitor.c:89) is at worst an earlier request's, and  *)
(* an uninitialised one is never opened as a song.                         *)
THEOREM PlaysWhatWasAskedHolds == Spec => []PlaysWhatWasAsked
  <1>1. PlayInv => PlaysWhatWasAsked
    BY DEF PlayInv, PlaysWhatWasAsked
  <1> QED
    BY <1>1, TypeInit, TypeStep, PlayInit, PlayStep, PTL DEF Spec

-----------------------------------------------------------------------------
(* The volume.  The codec has the volume lastVol remembers, and inside the *)
(* two windows the settings have it still.                                 *)

VolumeInv ==
    /\ pc = "setall" /\ ~raced => lastVol = mvol
    /\ pc = "latch" /\ ~raced => chip = mvol
    /\ pc \in {"open", "read", "set", "send"} /\ ~raced => chip = lastVol

LEMMA VolumeInit == Init => VolumeInv
  BY DEF Init, VolumeInv

LEMMA VolumeStep == VolumeInv /\ [Next]_vars => VolumeInv'
  <1> SUFFICES ASSUME VolumeInv, [Next]_vars PROVE VolumeInv'
    OBVIOUS
  <1>1. ASSUME NEW p \in Producer, Push(p) PROVE VolumeInv'
    BY <1>1 DEF Push, VolumeInv, songVars, volumeVars
  <1>2. ASSUME NEW p \in Producer, NEW track \in Track, Call(p, track) PROVE VolumeInv'
    BY <1>2 DEF Call, VolumeInv, songVars, volumeVars
  <1>3. ASSUME NEW vol \in Mvol, SetVolume(vol) PROVE VolumeInv'
    BY <1>3 DEF SetVolume, VolumeInv, songVars
  <1>4. CASE KeyChanges \/ LookAtKey
    BY <1>4 DEF KeyChanges, LookAtKey, VolumeInv, songVars, volumeVars
  <1>5. CASE Pop \/ Lookup \/ Open \/ Send
    BY <1>5 DEF Pop, Lookup, Open, Send, VolumeInv, volumeVars
  <1>6. CASE NoMemory \/ OpenFails \/ SendLast \/ SendInterrupted
    BY <1>6 DEF NoMemory, OpenFails, SendLast, SendInterrupted, Return, VolumeInv,
                volumeVars
  <1>7. CASE Start \/ SetAll \/ Read \/ SetVol \/ Latch
    BY <1>7 DEF Start, SetAll, Read, SetVol, Latch, VolumeInv, songVars, volumeVars
  <1>8. CASE UNCHANGED vars
    BY <1>8 DEF vars, VolumeInv, songVars, volumeVars
  <1> QED
    BY <1>1, <1>2, <1>3, <1>4, <1>5, <1>6, <1>7, <1>8, ThreadCases DEF Next, Thread

(* While a song plays, a change of the volume is noticed by the next       *)
(* comparison (mp3.c:353) unless it fell between two reads that belong     *)
(* together (mp3.c:329 and 333, 355 and 356).                              *)
THEOREM VolumeNoticedHolds == Spec => []VolumeNoticed
  <1>1. VolumeInv => VolumeNoticed
    BY DEF VolumeInv, VolumeNoticed
  <1> QED
    BY <1>1, VolumeInit, VolumeStep, PTL DEF Spec
=============================================================================

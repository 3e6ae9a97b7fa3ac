---------------------------- MODULE ObjectModel ----------------------------
(***************************************************************************)
(* The settings of the cup: the object model in RAM (If_MO.c), its image   *)
(* in flash (OMFactory.c) and the thread that changes both, MOInit at boot *)
(* and then user_downstream_thread, one message from the cloud at a time.  *)
(*                                                                         *)
(* A scalar setting is written at once and raises its flag.  The settings  *)
(* of a group are staged, each raising its bit, and the whole group is     *)
(* copied when IsXxxChanged finds all its bits raised.  Saving erases the  *)
(* partition and writes length, CRC and text of the settings, in this      *)
(* order; power may fail before, within and after each write, and each     *)
(* flash operation may return an error.                                    *)
(*                                                                         *)
(* The text of the settings stands for itself as its length and its CRC: a *)
(* length or CRC that was not written for the text that follows is taken   *)
(* not to match it.  The image is shorter than one flash sector, so that   *)
(* its erasure is one step.  The LED calls of IsParameterChanged are in    *)
(* module Lights.                                                          *)
(***************************************************************************)
EXTENDS Naturals

CONSTANTS
    Scalar,      (* settings with a flag each                               *)
    Groups,      (* the groups, each the set of its settings                *)
    Unprinted,   (* scalars whose flag PrintInitParameter does not clear    *)
    Volume,      (* MUSIC-1/Volume                                          *)
    MaxVolume,   (* the largest volume MP3_setVolume accepts                *)
    Value,       (* the values the cloud may send                           *)
    Default,     (* the values of SaveObjectModelDefaultParameter           *)
    Erased,      (* erased flash reads as 0xFF                              *)
    Torn,        (* a field whose writing stopped part way                  *)
    MaxSets      (* exploration bound: settings received in one behaviour   *)

GroupKey == UNION Groups
Key      == Scalar \cup GroupKey
Image    == [Key -> Value]

ASSUME ObjectModelAssumption ==
    /\ Unprinted \subseteq Scalar
    /\ Volume \in Scalar
    /\ Scalar \cap GroupKey = {}
    /\ Value \subseteq Nat
    /\ 0 \in Value
    /\ MaxVolume \in Nat
    /\ Default \in Image
    /\ Erased \notin Image
    /\ Torn \notin Image
    /\ Erased # Torn
    /\ MaxSets \in Nat

VARIABLES
    param,      (* gDevice, gLight, gMusic, gHealth, ...: what getters return *)
    temp,       (* sLedConf_temp, ...: the staged settings of groups          *)
    marked,     (* the settings whose changed flag or group bit is set        *)
    codec,      (* vsset.mvol, the volume MP3_playSong plays with             *)
    pc,         (* control of the thread                                      *)
    booting,    (* OMFactoryRead has not returned yet                         *)
    draft,      (* save_data of OMFactorySave, Zero when there is none        *)
    flash,      (* MICO_PARTITION_OBJECTMODEL                                 *)
    stale,      (* history: no save or restore brought RAM and flash together
                   since the last change, fault or use of the defaults        *)
    tuned,      (* history: a volume was applied since the last boot          *)
    sets        (* settings received so far                                   *)

ramVars == <<param, temp, marked, codec>>
vars == <<ramVars, pc, booting, draft, flash, stale, tuned, sets>>

Zero     == [k \in Key |-> 0]
NoTemp   == [k \in GroupKey |-> 0]
Field    == {"length", "crc", "data"}
Blank    == [f \in Field |-> Erased]
Whole(i) == [f \in Field |-> i]

(* What OMFactoryRead accepts: the CRC of length bytes of text is the CRC. *)
Readable == flash["length"] \in Image /\ flash = Whole(flash["length"])

Register(volume) == volume * 5 + 100

BootCodec == 250

Init ==
    /\ param = Zero
    /\ temp = NoTemp
    /\ marked = {}
    /\ codec = BootCodec
    /\ pc = "read"
    /\ booting = TRUE
    /\ draft = Zero
    /\ flash = Blank
    /\ stale = TRUE
    /\ tuned = FALSE
    /\ sets = 0

-----------------------------------------------------------------------------
(* OMFactorySave.  The text is made from the getters.                      *)

After == IF booting THEN "print" ELSE "idle"

(* There may be no memory for the text: then nothing is saved.             *)
BeginSave ==
    \/ pc' = "erase" /\ draft' = param'
    \/ pc' = After /\ UNCHANGED draft

EndSave == pc' = After /\ draft' = Zero

Erase ==
    /\ pc = "erase"
    /\ flash' = Blank
    /\ pc' = "length"
    /\ UNCHANGED <<ramVars, booting, draft, stale, tuned, sets>>

EraseFails ==
    /\ pc = "erase"
    /\ flash' \in {flash, Blank}
    /\ EndSave
    /\ UNCHANGED <<ramVars, booting, stale, tuned, sets>>

WriteStart(field) ==
    /\ pc = field
    /\ flash[field] = Erased
    /\ flash' = [flash EXCEPT ![field] = Torn]
    /\ UNCHANGED <<ramVars, pc, booting, draft, stale, tuned, sets>>

WriteHeader(field, following) ==
    /\ pc = field
    /\ flash[field] = Torn
    /\ flash' = [flash EXCEPT ![field] = draft]
    /\ pc' = following
    /\ UNCHANGED <<ramVars, booting, draft, stale, tuned, sets>>

WriteText ==
    /\ pc = "data"
    /\ flash["data"] = Torn
    /\ flash' = [flash EXCEPT !["data"] = draft]
    /\ stale' = booting
    /\ EndSave
    /\ UNCHANGED <<ramVars, booting, tuned, sets>>

WriteFails ==
    /\ pc \in Field
    /\ EndSave
    /\ UNCHANGED <<ramVars, booting, flash, stale, tuned, sets>>

Save ==
    \/ Erase
    \/ EraseFails
    \/ \E field \in Field : WriteStart(field)
    \/ WriteHeader("length", "crc")
    \/ WriteHeader("crc", "data")
    \/ WriteText
    \/ WriteFails

-----------------------------------------------------------------------------
(* OMFactoryRead: the setters called for every setting of an image.        *)

SetAll(image) ==
    /\ param' = [k \in Key |-> IF k \in Scalar THEN image[k] ELSE param[k]]
    /\ temp' = [k \in GroupKey |-> image[k]]
    /\ marked' = {k \in Scalar : image[k] # param[k]} \cup GroupKey

(* A read error: the function returns before PrintInitParameter.           *)
ReadFails ==
    /\ pc = "read"
    /\ pc' = "idle"
    /\ booting' = FALSE
    /\ stale' = TRUE
    /\ UNCHANGED <<ramVars, draft, flash, tuned, sets>>

(* No image; or an image that is whole, but no memory to parse it.         *)
SaveObjectModelDefaultParameter ==
    /\ pc = "read"
    /\ flash["length"] = Erased \/ Readable
    /\ SetAll(Default)
    /\ BeginSave
    /\ stale' = TRUE
    /\ UNCHANGED <<codec, booting, flash, tuned, sets>>

(* The CRC does not match (or malloc failed): settings stay as they are.   *)
ReadBroken ==
    /\ pc = "read"
    /\ flash["length"] # Erased
    /\ pc' = "print"
    /\ stale' = TRUE
    /\ UNCHANGED <<ramVars, booting, draft, flash, tuned, sets>>

ParseOM ==
    /\ pc = "read"
    /\ Readable
    /\ SetAll(flash["data"])
    /\ pc' = "print"
    /\ stale' = FALSE
    /\ UNCHANGED <<codec, booting, draft, flash, tuned, sets>>

-----------------------------------------------------------------------------
(* The IsXxxChanged functions: which groups are complete, and their copy.  *)

Complete  == UNION {g \in Groups : g \subseteq marked}
Committed == [k \in Key |-> IF k \in Complete THEN temp[k] ELSE param[k]]

(* Mutant: the flags are cleared without the copy of the groups. *)
PrintInitParameterOnlyClears ==
    /\ pc = "print"
    /\ marked' = marked \ (Complete \cup (Scalar \ Unprinted))
    /\ pc' = "idle"
    /\ booting' = FALSE
    /\ UNCHANGED <<param, temp, codec, draft, flash, stale, tuned, sets>>

PrintInitParameter ==
    /\ pc = "print"
    /\ param' = Committed
    /\ marked' = marked \ (Complete \cup (Scalar \ Unprinted))
    /\ pc' = "idle"
    /\ booting' = FALSE
    /\ UNCHANGED <<temp, codec, draft, flash, stale, tuned, sets>>

-----------------------------------------------------------------------------
(* user_downstream_thread: one message.                                    *)

MessageArrives ==
    /\ pc = "idle"
    /\ pc' = "parse"
    /\ UNCHANGED <<ramVars, booting, draft, flash, stale, tuned, sets>>

(* Mutant: the register value is stored instead of the volume. *)
SetScalarScaled(k, v) ==
    /\ pc = "parse"
    /\ sets < MaxSets
    /\ sets' = sets + 1
    /\ k \in Scalar
    /\ param' = [param EXCEPT ![k] = Register(v)]
    /\ marked' = IF v = param[k] THEN marked ELSE marked \cup {k}
    /\ UNCHANGED <<temp, codec, pc, booting, draft, flash, stale, tuned>>

SetScalar(k, v) ==
    /\ pc = "parse"
    /\ sets < MaxSets
    /\ sets' = sets + 1
    /\ k \in Scalar
    /\ param' = [param EXCEPT ![k] = v]
    /\ marked' = IF v = param[k] THEN marked ELSE marked \cup {k}
    /\ UNCHANGED <<temp, codec, pc, booting, draft, flash, stale, tuned>>

SetGrouped(k, v) ==
    /\ pc = "parse"
    /\ sets < MaxSets
    /\ sets' = sets + 1
    /\ k \in GroupKey
    /\ temp' = [temp EXCEPT ![k] = v]
    /\ marked' = marked \cup {k}
    /\ UNCHANGED <<param, codec, pc, booting, draft, flash, stale, tuned>>

MessageParsed ==
    /\ pc = "parse"
    /\ pc' = "apply"
    /\ UNCHANGED <<ramVars, booting, draft, flash, stale, tuned, sets>>

(* Mutant: the largest volume is refused. *)
MP3_setVolumeBelow(volume) ==
    codec' = IF volume >= MaxVolume THEN codec ELSE Register(volume)

MP3_setVolume(volume) ==
    codec' = IF volume > MaxVolume THEN codec ELSE Register(volume)

(* Mutant: nothing looks at the bits of the groups. *)
IsParameterChangedNoGroups ==
    /\ pc = "apply"
    /\ param' = param
    /\ marked' = marked \ Scalar
    /\ IF Volume \in marked
         THEN MP3_setVolume(param[Volume]) /\ tuned' = TRUE
         ELSE UNCHANGED <<codec, tuned>>
    /\ IF marked' # marked
         THEN BeginSave /\ stale' = TRUE
         ELSE pc' = "idle" /\ UNCHANGED <<draft, stale>>
    /\ UNCHANGED <<temp, booting, flash, sets>>

(* Mutant: the text to save is made before the groups are copied. *)
IsParameterChangedSavesFirst ==
    /\ pc = "apply"
    /\ param' = Committed
    /\ marked' = marked \ (Complete \cup Scalar)
    /\ IF Volume \in marked
         THEN MP3_setVolume(param[Volume]) /\ tuned' = TRUE
         ELSE UNCHANGED <<codec, tuned>>
    /\ IF marked' # marked
         THEN pc' = "erase" /\ draft' = param /\ stale' = TRUE
         ELSE pc' = "idle" /\ UNCHANGED <<draft, stale>>
    /\ UNCHANGED <<temp, booting, flash, sets>>

IsParameterChanged ==
    /\ pc = "apply"
    /\ param' = Committed
    /\ marked' = marked \ (Complete \cup Scalar)
    /\ IF Volume \in marked
         THEN MP3_setVolume(param[Volume]) /\ tuned' = TRUE
         ELSE UNCHANGED <<codec, tuned>>
    /\ IF marked' # marked
         THEN BeginSave /\ stale' = TRUE
         ELSE pc' = "idle" /\ UNCHANGED <<draft, stale>>
    /\ UNCHANGED <<temp, booting, flash, sets>>

-----------------------------------------------------------------------------
(* A power failure or restart, at any time: the flash alone survives.      *)
Restart ==
    /\ param' = Zero
    /\ temp' = NoTemp
    /\ marked' = {}
    /\ codec' = BootCodec
    /\ pc' = "read"
    /\ booting' = TRUE
    /\ draft' = Zero
    /\ stale' = TRUE
    /\ tuned' = FALSE
    /\ UNCHANGED <<flash, sets>>

Next ==
    \/ ReadFails
    \/ SaveObjectModelDefaultParameter
    \/ ReadBroken
    \/ ParseOM
    \/ PrintInitParameter
    \/ MessageArrives
    \/ \E k \in Key, v \in Value : SetScalar(k, v) \/ SetGrouped(k, v)
    \/ MessageParsed
    \/ IsParameterChanged
    \/ Save
    \/ Restart

Spec == Init /\ [][Next]_vars
-----------------------------------------------------------------------------
Content == Image \cup {Erased, Torn}

(* The type of the state: the player's volume stays within its range.      *)
TypeOK ==
    /\ param \in Image
    /\ temp \in [GroupKey -> Value]
    /\ marked \subseteq Key
    /\ codec \in {Register(v) : v \in 0 .. MaxVolume} \cup {BootCodec}
    /\ pc \in {"read", "print", "idle", "parse", "apply",
               "erase", "length", "crc", "data"}
    /\ booting \in BOOLEAN
    /\ draft \in Image
    /\ flash \in [Field -> Content]
    /\ stale \in BOOLEAN
    /\ tuned \in BOOLEAN
    /\ sets \in 0 .. MaxSets

(* Whenever the thread waits for a message and nothing went wrong since,   *)
(* a restart would bring back exactly the settings in force: no accepted   *)
(* change, scalar or group, is in RAM alone.                               *)
Persisted == pc = "idle" /\ ~stale => flash = Whole(param)

(* Between two messages no flag and no complete group is left unhandled,   *)
(* but for the flags that PrintInitParameter leaves standing: a change is  *)
(* never held back until some later message.                               *)
NothingPending ==
    pc = "idle" => Complete = {} /\ marked \cap Scalar \subseteq Unprinted

(* Once a volume came from the cloud, the player is set to the stored      *)
(* volume whenever that volume is in the player's range.                   *)
VolumeApplied ==
    pc = "idle" /\ tuned /\ param[Volume] <= MaxVolume
        => codec = Register(param[Volume])

(* Whatever a power failure or a flash error interrupts, a restart never   *)
(* accepts a mixture of two saves: the image the flash offers changes only *)
(* to none or to the settings in force.                                    *)
NoMixedImage == [][ Readable' => flash' \in {flash, Whole(param)} ]_vars
=============================================================================

------------------------- MODULE ObjectModel_proofs -------------------------
(***************************************************************************)
(* Proofs that the settings and their flash image keep the promises of     *)
(* ObjectModel, for any set of settings, groups and values.                *)
(***************************************************************************)
EXTENDS ObjectModel, TLAPS

Saving == {"erase", "length", "crc", "data"}

(* Where the thread is, before and after OMFactoryRead has returned.       *)
Control ==
    /\ pc \in {"read", "print"} => booting
    /\ pc \in {"idle", "parse", "apply"} => ~booting
    /\ booting => ~tuned
    /\ pc = "read" => marked = {} /\ param = Zero

(* While a save is under way the text is that of the settings in force,    *)
(* and the fields of the flash are written one after the other.            *)
SaveInOrder ==
    /\ pc \in Saving => draft = param /\ stale
    /\ pc = "length" => /\ flash["length"] \in {Erased, Torn}
                        /\ flash["crc"] = Erased
                        /\ flash["data"] = Erased
    /\ pc = "crc" => /\ flash["length"] = draft
                     /\ flash["crc"] \in {Erased, Torn}
                     /\ flash["data"] = Erased
    /\ pc = "data" => /\ flash["length"] = draft
                      /\ flash["crc"] = draft
                      /\ flash["data"] \in {Erased, Torn}

(* An image restored at boot is waiting to be copied to the groups.        *)
Restoring ==
    pc = "print" /\ ~stale =>
        /\ flash["data"] \in Image
        /\ flash = Whole(flash["data"])
        /\ GroupKey \subseteq marked
        /\ \A k \in Scalar : param[k] = flash["data"][k]
        /\ \A k \in GroupKey : temp[k] = flash["data"][k]

(* In the middle of a message RAM and flash differ in flagged scalars only. *)
Changing ==
    pc \in {"idle", "parse", "apply"} /\ ~stale =>
        /\ flash["data"] \in Image
        /\ flash = Whole(flash["data"])
        /\ \A k \in Key : (k \in Scalar \cap marked /\ pc # "idle")
                            \/ flash["data"][k] = param[k]

(* Once a message is applied no flag is left, but for the overlooked ones. *)
Handled ==
    pc = "idle" \/ (pc \in Saving /\ ~booting) =>
        Complete = {} /\ marked \cap Scalar \subseteq Unprinted

(* The volume in force is applied, or flagged and about to be.             *)
Tuning ==
    tuned /\ param[Volume] <= MaxVolume =>
        \/ Volume \in marked /\ pc \in {"parse", "apply"}
        \/ codec = Register(param[Volume])

IInv ==
    /\ TypeOK
    /\ Control
    /\ SaveInOrder
    /\ Restoring
    /\ Changing
    /\ Handled
    /\ Tuning
-----------------------------------------------------------------------------
USE ObjectModelAssumption

LEMMA ZeroIsImage == Zero \in Image /\ NoTemp \in [GroupKey -> Value]
BY DEF Zero, NoTemp, Image

LEMMA CommittedIsImage ==
    ASSUME TypeOK
    PROVE  /\ Committed \in Image
           /\ Complete \subseteq GroupKey
           /\ \A k \in Scalar : Committed[k] = param[k]
<1>1. Complete \subseteq GroupKey
  BY DEF Complete, GroupKey
<1>2. GroupKey \subseteq Key /\ Scalar \subseteq Key
  BY DEF Key
<1>3. \A k \in Key : (IF k \in Complete THEN temp[k] ELSE param[k]) \in Value
  BY <1>1, <1>2 DEF TypeOK, Image
<1>4. Committed \in Image
  BY <1>3 DEF Committed, Image
<1>5. \A k \in Scalar : Committed[k] = param[k]
  BY <1>1, <1>2 DEF Committed
<1> QED
  BY <1>1, <1>4, <1>5

LEMMA SetAllIsTyped ==
    ASSUME TypeOK, NEW image \in Image, SetAll(image)
    PROVE  /\ param' \in Image
           /\ temp' \in [GroupKey -> Value]
           /\ marked' \subseteq Key
<1>1. GroupKey \subseteq Key /\ Scalar \subseteq Key
  BY DEF Key
<1>2. \A k \in Key : (IF k \in Scalar THEN image[k] ELSE param[k]) \in Value
  BY <1>1 DEF TypeOK, Image
<1>3. param' \in Image
  BY <1>2 DEF SetAll, Image
<1>4. \A k \in GroupKey : image[k] \in Value
  BY <1>1 DEF Image
<1>5. temp' \in [GroupKey -> Value]
  BY <1>4 DEF SetAll
<1>6. marked' \subseteq Key
  BY <1>1 DEF SetAll
<1> QED
  BY <1>3, <1>5, <1>6

-----------------------------------------------------------------------------
LEMMA TypeStep == TypeOK /\ [Next]_vars => TypeOK'
<1> SUFFICES ASSUME TypeOK, [Next]_vars PROVE TypeOK'
  OBVIOUS
<1> USE DEF TypeOK
<1>1. CASE ReadFails
  BY <1>1 DEF ReadFails, ramVars
<1>2. CASE SaveObjectModelDefaultParameter
  <2>1. /\ param' \in Image
        /\ temp' \in [GroupKey -> Value]
        /\ marked' \subseteq Key
    BY <1>2, SetAllIsTyped DEF SaveObjectModelDefaultParameter
  <2>2. /\ draft' \in Image
        /\ pc' \in {"erase", "print", "idle"}
    BY <1>2, <2>1 DEF SaveObjectModelDefaultParameter, BeginSave, After
  <2> QED
    BY <1>2, <2>1, <2>2 DEF SaveObjectModelDefaultParameter
<1>3. CASE ReadBroken
  BY <1>3 DEF ReadBroken, ramVars
<1>4. CASE ParseOM
  <2>1. flash["data"] \in Image
    BY <1>4 DEF ParseOM, Readable, Whole, Field
  <2>2. /\ param' \in Image
        /\ temp' \in [GroupKey -> Value]
        /\ marked' \subseteq Key
    BY <1>4, <2>1, SetAllIsTyped DEF ParseOM
  <2> QED
    BY <1>4, <2>2 DEF ParseOM
<1>5. CASE PrintInitParameter
  BY <1>5, CommittedIsImage DEF PrintInitParameter
<1>6. CASE MessageArrives
  BY <1>6 DEF MessageArrives, ramVars
<1>7. ASSUME NEW k \in Key, NEW v \in Value, SetScalar(k, v)
      PROVE  TypeOK'
  <2>1. param' \in Image
    BY <1>7 DEF SetScalar, Image
  <2>2. sets' \in 0 .. MaxSets
    BY <1>7 DEF SetScalar
  <2> QED
    BY <1>7, <2>1, <2>2 DEF SetScalar
<1>8. ASSUME NEW k \in Key, NEW v \in Value, SetGrouped(k, v)
      PROVE  TypeOK'
  <2>1. sets' \in 0 .. MaxSets
    BY <1>8 DEF SetGrouped
  <2> QED
    BY <1>8, <2>1 DEF SetGrouped
<1>9. CASE MessageParsed
  BY <1>9 DEF MessageParsed, ramVars
<1>10. CASE IsParameterChanged
  <2>1. param' \in Image /\ marked' \subseteq Key
    BY <1>10, CommittedIsImage DEF IsParameterChanged
  <2>2. param[Volume] \in Nat
    BY DEF Image, Key
  <2>3. /\ codec' \in {Register(v) : v \in 0 .. MaxVolume} \cup {BootCodec}
        /\ tuned' \in BOOLEAN
    <3>1. CASE Volume \in marked
      <4>1. codec' = IF param[Volume] > MaxVolume
                       THEN codec ELSE Register(param[Volume])
        BY <1>10, <3>1 DEF IsParameterChanged, MP3_setVolume
      <4>2. ~(param[Volume] > MaxVolume) => param[Volume] \in 0 .. MaxVolume
        BY <2>2
      <4>3. tuned' = TRUE
        BY <1>10, <3>1 DEF IsParameterChanged
      <4> QED
        BY <4>1, <4>2, <4>3
    <3>2. CASE Volume \notin marked
      BY <1>10, <3>2 DEF IsParameterChanged
    <3> QED
      BY <3>1, <3>2
  <2>4. /\ draft' \in Image
        /\ stale' \in BOOLEAN
        /\ pc' \in {"erase", "print", "idle"}
    <3>1. CASE marked' # marked
      BY <1>10, <2>1, <3>1 DEF IsParameterChanged, BeginSave, After
    <3>2. CASE marked' = marked
      BY <1>10, <3>2 DEF IsParameterChanged
    <3> QED
      BY <3>1, <3>2
  <2> QED
    BY <1>10, <2>1, <2>3, <2>4 DEF IsParameterChanged
<1>11. CASE Save
  <2>1. pc' \in {"print", "idle", "erase", "length", "crc", "data"}
    BY <1>11 DEF Save, Erase, EraseFails, WriteStart, WriteHeader, WriteText,
                 WriteFails, EndSave, After, Field
  <2>2. draft' \in Image
    BY <1>11, ZeroIsImage
       DEF Save, Erase, EraseFails, WriteStart, WriteHeader, WriteText,
           WriteFails, EndSave
  <2>3. flash' \in [Field -> Content]
    BY <1>11 DEF Save, Erase, EraseFails, WriteStart, WriteHeader, WriteText,
                 WriteFails, Blank, Content, Field
  <2>4. /\ UNCHANGED <<param, temp, marked, codec, booting, tuned, sets>>
        /\ stale' \in BOOLEAN
    BY <1>11 DEF Save, Erase, EraseFails, WriteStart, WriteHeader, WriteText,
                 WriteFails, ramVars
  <2> QED
    BY <2>1, <2>2, <2>3, <2>4
<1>12. CASE Restart
  BY <1>12, ZeroIsImage DEF Restart
<1>13. CASE UNCHANGED vars
  BY <1>13 DEF vars, ramVars
<1> QED
  BY <1>1, <1>2, <1>3, <1>4, <1>5, <1>6, <1>7, <1>8, <1>9, <1>10, <1>11,
     <1>12, <1>13 DEF Next

LEMMA InitIInv == Init => IInv
<1> SUFFICES ASSUME Init PROVE IInv
  OBVIOUS
<1>1. TypeOK
  <2>1. flash \in [Field -> Content]
    BY DEF Init, Blank, Content
  <2>2. /\ sets \in 0 .. MaxSets
        /\ codec \in {Register(v) : v \in 0 .. MaxVolume} \cup {BootCodec}
    BY DEF Init
  <2>3. /\ param \in Image
        /\ draft \in Image
        /\ temp \in [GroupKey -> Value]
        /\ marked \subseteq Key
    BY ZeroIsImage DEF Init
  <2> QED
    BY <2>1, <2>2, <2>3 DEF Init, TypeOK
<1>2. Control
  BY DEF Init, Control
<1>5. SaveInOrder
  BY DEF Init, SaveInOrder, Saving
<1>3. Restoring /\ Changing /\ Handled
  BY DEF Init, Restoring, Changing, Handled, Saving
<1>4. Tuning
  BY DEF Init, Tuning
<1> QED
  BY <1>1, <1>2, <1>3, <1>4, <1>5 DEF IInv

-----------------------------------------------------------------------------
LEMMA ControlStep == IInv /\ [Next]_vars => Control'
<1> SUFFICES ASSUME IInv, [Next]_vars PROVE Control'
  OBVIOUS
<1> USE DEF IInv
<1>1. CASE ReadFails
  BY <1>1 DEF ReadFails, ramVars, Control, TypeOK
<1>2. CASE SaveObjectModelDefaultParameter
  BY <1>2 DEF SaveObjectModelDefaultParameter, BeginSave, After, Control, TypeOK
<1>3. CASE ReadBroken
  BY <1>3 DEF ReadBroken, ramVars, Control, TypeOK
<1>4. CASE ParseOM
  BY <1>4 DEF ParseOM, Control, TypeOK
<1>5. CASE PrintInitParameter
  BY <1>5 DEF PrintInitParameter, Control, TypeOK
<1>6. CASE MessageArrives
  BY <1>6 DEF MessageArrives, ramVars, Control, TypeOK
<1>7. ASSUME NEW k \in Key, NEW v \in Value, SetScalar(k, v)
      PROVE  Control'
  BY <1>7 DEF SetScalar, Control, TypeOK
<1>8. ASSUME NEW k \in Key, NEW v \in Value, SetGrouped(k, v)
      PROVE  Control'
  BY <1>8 DEF SetGrouped, Control, TypeOK
<1>9. CASE MessageParsed
  BY <1>9 DEF MessageParsed, ramVars, Control, TypeOK
<1>10. CASE IsParameterChanged
  BY <1>10 DEF IsParameterChanged, BeginSave, After, Control, TypeOK
<1>11. CASE Save
  BY <1>11 DEF Save, Erase, EraseFails, WriteStart, WriteHeader, WriteText,
           WriteFails, EndSave, After, ramVars, Control, TypeOK
<1>12. CASE Restart
  BY <1>12 DEF Restart, Control, TypeOK
<1>13. CASE UNCHANGED vars
  BY <1>13 DEF vars, ramVars, Control, TypeOK
<1> QED
  BY <1>1, <1>2, <1>3, <1>4, <1>5, <1>6, <1>7, <1>8, <1>9, <1>10, <1>11,
     <1>12, <1>13 DEF Next

-----------------------------------------------------------------------------
LEMMA SaveInOrderStep == IInv /\ [Next]_vars => SaveInOrder'
<1> SUFFICES ASSUME IInv, [Next]_vars PROVE SaveInOrder'
  OBVIOUS
<1> USE DEF IInv
<1>1. CASE ReadFails
  BY <1>1 DEF ReadFails, ramVars, SaveInOrder, Saving, Control, TypeOK, Blank, Field
<1>2. CASE SaveObjectModelDefaultParameter
  BY <1>2 DEF SaveObjectModelDefaultParameter, BeginSave, After, SaveInOrder, Saving, Control, TypeOK, Blank, Field
<1>3. CASE ReadBroken
  BY <1>3 DEF ReadBroken, ramVars, SaveInOrder, Saving, Control, TypeOK, Blank, Field
<1>4. CASE ParseOM
  BY <1>4 DEF ParseOM, SaveInOrder, Saving, Control, TypeOK, Blank, Field
<1>5. CASE PrintInitParameter
  BY <1>5 DEF PrintInitParameter, SaveInOrder, Saving, Control, TypeOK, Blank, Field
<1>6. CASE MessageArrives
  BY <1>6 DEF MessageArrives, ramVars, SaveInOrder, Saving, Control, TypeOK, Blank, Field
<1>7. ASSUME NEW k \in Key, NEW v \in Value, SetScalar(k, v)
      PROVE  SaveInOrder'
  BY <1>7 DEF SetScalar, SaveInOrder, Saving, Control, TypeOK, Blank, Field
<1>8. ASSUME NEW k \in Key, NEW v \in Value, SetGrouped(k, v)
      PROVE  SaveInOrder'
  BY <1>8 DEF SetGrouped, SaveInOrder, Saving, Control, TypeOK, Blank, Field
<1>9. CASE MessageParsed
  BY <1>9 DEF MessageParsed, ramVars, SaveInOrder, Saving, Control, TypeOK, Blank, Field
<1>10. CASE IsParameterChanged
  BY <1>10 DEF IsParameterChanged, BeginSave, After, SaveInOrder, Saving, Control, TypeOK, Blank, Field
<1>11. CASE Save
  BY <1>11 DEF Save, Erase, EraseFails, WriteStart, WriteHeader, WriteText,
           WriteFails, EndSave, After, ramVars, SaveInOrder, Saving, Control, TypeOK, Blank, Field
<1>12. CASE Restart
  BY <1>12 DEF Restart, SaveInOrder, Saving, Control, TypeOK, Blank, Field
<1>13. CASE UNCHANGED vars
  BY <1>13 DEF vars, ramVars, SaveInOrder, Saving, Control, TypeOK, Blank, Field
<1> QED
  BY <1>1, <1>2, <1>3, <1>4, <1>5, <1>6, <1>7, <1>8, <1>9, <1>10, <1>11,
     <1>12, <1>13 DEF Next

-----------------------------------------------------------------------------
LEMMA RestoringStep == IInv /\ [Next]_vars => Restoring'
<1> SUFFICES ASSUME IInv, [Next]_vars PROVE Restoring'
  OBVIOUS
<1> USE DEF IInv
<1>1. CASE ReadFails
  BY <1>1 DEF ReadFails, ramVars, Restoring
<1>2. CASE SaveObjectModelDefaultParameter
  BY <1>2 DEF SaveObjectModelDefaultParameter, BeginSave, After, Restoring
<1>3. CASE ReadBroken
  BY <1>3 DEF ReadBroken, ramVars, Restoring
<1>4. CASE ParseOM
  <2>1. /\ flash["data"] \in Image
        /\ flash = Whole(flash["data"])
    BY <1>4 DEF ParseOM, Readable, Whole, Field
  <2>2. /\ \A k \in Scalar : param'[k] = flash["data"][k]
        /\ \A k \in GroupKey : temp'[k] = flash["data"][k]
        /\ GroupKey \subseteq marked'
    BY <1>4 DEF ParseOM, SetAll, Key
  <2>3. flash' = flash
    BY <1>4 DEF ParseOM
  <2> QED
    BY <2>1, <2>2, <2>3 DEF Restoring, Whole
<1>5. CASE PrintInitParameter
  BY <1>5 DEF PrintInitParameter, Restoring
<1>6. CASE MessageArrives
  BY <1>6 DEF MessageArrives, ramVars, Restoring
<1>7. ASSUME NEW k \in Key, NEW v \in Value, SetScalar(k, v)
      PROVE  Restoring'
  BY <1>7 DEF SetScalar, Restoring
<1>8. ASSUME NEW k \in Key, NEW v \in Value, SetGrouped(k, v)
      PROVE  Restoring'
  BY <1>8 DEF SetGrouped, Restoring
<1>9. CASE MessageParsed
  BY <1>9 DEF MessageParsed, ramVars, Restoring
<1>10. CASE IsParameterChanged
  BY <1>10 DEF IsParameterChanged, BeginSave, After, Restoring
<1>11. CASE Save
  <2>1. pc \in Saving /\ stale
    BY <1>11 DEF Save, Erase, EraseFails, WriteStart, WriteHeader, WriteText,
                 WriteFails, SaveInOrder, Saving, Field
  <2>2. pc' = "print" => stale'
    <3>1. CASE WriteText
      BY <3>1 DEF WriteText, EndSave, After
    <3>2. CASE ~WriteText
      BY <1>11, <2>1, <3>2 DEF Save, Erase, EraseFails, WriteStart,
                               WriteHeader, WriteFails
    <3> QED
      BY <3>1, <3>2
  <2> QED
    BY <2>2 DEF Restoring
<1>12. CASE Restart
  BY <1>12 DEF Restart, Restoring
<1>13. CASE UNCHANGED vars
  BY <1>13 DEF vars, ramVars, Restoring
<1> QED
  BY <1>1, <1>2, <1>3, <1>4, <1>5, <1>6, <1>7, <1>8, <1>9, <1>10, <1>11,
     <1>12, <1>13 DEF Next

-----------------------------------------------------------------------------
LEMMA ChangingStep == IInv /\ [Next]_vars => Changing'
<1> SUFFICES ASSUME IInv, [Next]_vars PROVE Changing'
  OBVIOUS
<1> USE DEF IInv
<1>1. CASE ReadFails
  BY <1>1 DEF ReadFails, ramVars, Changing
<1>2. CASE SaveObjectModelDefaultParameter
  BY <1>2 DEF SaveObjectModelDefaultParameter, BeginSave, After, Changing
<1>3. CASE ReadBroken
  BY <1>3 DEF ReadBroken, ramVars, Changing
<1>4. CASE ParseOM
  BY <1>4 DEF ParseOM, Changing
<1>5. CASE PrintInitParameter
  <2>1. SUFFICES ASSUME ~stale'
                 PROVE  /\ flash["data"] \in Image
                        /\ flash = Whole(flash["data"])
                        /\ \A k \in Key : flash["data"][k] = param'[k]
    BY <1>5 DEF PrintInitParameter, Changing, Whole
  <2>2. /\ flash["data"] \in Image
        /\ flash = Whole(flash["data"])
        /\ GroupKey \subseteq marked
        /\ \A k \in Scalar : param[k] = flash["data"][k]
        /\ \A k \in GroupKey : temp[k] = flash["data"][k]
    BY <1>5, <2>1 DEF PrintInitParameter, Restoring
  <2>3. Complete = GroupKey
    BY <2>2 DEF Complete, GroupKey
  <2>4. \A k \in Key : param'[k] = IF k \in GroupKey THEN temp[k] ELSE param[k]
    BY <1>5, <2>3 DEF PrintInitParameter, Committed
  <2> QED
    BY <2>2, <2>4 DEF Key
<1>6. CASE MessageArrives
  BY <1>6 DEF MessageArrives, ramVars, Changing
<1>7. ASSUME NEW k \in Key, NEW v \in Value, SetScalar(k, v)
      PROVE  Changing'
  BY <1>7 DEF SetScalar, Changing
<1>8. ASSUME NEW k \in Key, NEW v \in Value, SetGrouped(k, v)
      PROVE  Changing'
  BY <1>8 DEF SetGrouped, Changing
<1>9. CASE MessageParsed
  BY <1>9 DEF MessageParsed, ramVars, Changing
<1>10. CASE IsParameterChanged
  <2>1. CASE marked' # marked
    BY <1>10, <2>1 DEF IsParameterChanged, Changing
  <2>2. CASE marked' = marked
    <3>1. Complete \subseteq marked
      BY DEF Complete
    <3>2. Complete = {} /\ Scalar \cap marked = {}
      BY <1>10, <2>2, <3>1 DEF IsParameterChanged
    <3>3. \A k \in Key : param'[k] = param[k]
      BY <1>10, <3>2 DEF IsParameterChanged, Committed
    <3>4. pc = "apply" /\ stale' = stale /\ flash' = flash
      BY <1>10, <2>2 DEF IsParameterChanged
    <3> QED
      BY <3>2, <3>3, <3>4 DEF Changing, Whole
  <2> QED
    BY <2>1, <2>2
<1>11. CASE Save
  <2>1. pc \in Saving /\ stale /\ draft = param
    BY <1>11 DEF Save, Erase, EraseFails, WriteStart, WriteHeader, WriteText,
                 WriteFails, SaveInOrder, Saving, Field
  <2>2. CASE WriteText
    <3>1. /\ flash["length"] = param
          /\ flash["crc"] = param
          /\ flash \in [Field -> Content]
          /\ param \in Image
      BY <2>1, <2>2 DEF WriteText, SaveInOrder, TypeOK
    <3>2. flash' = [f \in Field |-> param]
      BY <2>1, <2>2, <3>1 DEF WriteText, Field
    <3>3. flash'["data"] = param /\ flash' = Whole(param)
      BY <3>2 DEF Whole, Field
    <3>4. param' = param
      BY <2>2 DEF WriteText, ramVars
    <3> QED
      BY <3>1, <3>3, <3>4 DEF Changing, Whole
  <2>3. CASE ~WriteText
    <3>1. stale'
      BY <1>11, <2>1, <2>3 DEF Save, Erase, EraseFails, WriteStart,
                               WriteHeader, WriteFails
    <3> QED
      BY <3>1 DEF Changing
  <2> QED
    BY <2>2, <2>3
<1>12. CASE Restart
  BY <1>12 DEF Restart, Changing
<1>13. CASE UNCHANGED vars
  BY <1>13 DEF vars, ramVars, Changing
<1> QED
  BY <1>1, <1>2, <1>3, <1>4, <1>5, <1>6, <1>7, <1>8, <1>9, <1>10, <1>11,
     <1>12, <1>13 DEF Next

-----------------------------------------------------------------------------
LEMMA NothingMarked ==
    ASSUME marked' \subseteq marked \ Complete
    PROVE  Complete' = {}
<1> SUFFICES ASSUME NEW g \in Groups, g \subseteq marked', NEW k \in g
             PROVE  FALSE
  BY DEF Complete
<1>1. k \in Complete
  BY DEF Complete
<1> QED
  BY <1>1

LEMMA SameMarked ==
    ASSUME marked' = marked
    PROVE  Complete' = Complete
BY DEF Complete

LEMMA HandledStep == IInv /\ [Next]_vars => Handled'
<1> SUFFICES ASSUME IInv, [Next]_vars PROVE Handled'
  OBVIOUS
<1> USE DEF IInv
<1>1. CASE ReadFails
  <2>1. marked = {} /\ marked' = {}
    BY <1>1 DEF ReadFails, ramVars, Control
  <2>2. Complete' = {}
    BY <2>1, NothingMarked
  <2> QED
    BY <2>1, <2>2 DEF Handled
<1>2. CASE SaveObjectModelDefaultParameter
  <2>1. booting /\ booting' = booting
    BY <1>2 DEF SaveObjectModelDefaultParameter, Control
  <2>2. pc' \in {"erase", "print"}
    BY <1>2, <2>1 DEF SaveObjectModelDefaultParameter, BeginSave, After
  <2> QED
    BY <2>1, <2>2 DEF Handled
<1>3. CASE ReadBroken
  BY <1>3 DEF ReadBroken, ramVars, Handled, Saving
<1>4. CASE ParseOM
  BY <1>4 DEF ParseOM, Handled, Saving
<1>5. CASE PrintInitParameter
  <2>1. /\ marked' \subseteq marked \ Complete
        /\ marked' \cap Scalar \subseteq Unprinted
    BY <1>5 DEF PrintInitParameter
  <2>2. Complete' = {}
    BY <2>1, NothingMarked
  <2> QED
    BY <2>1, <2>2 DEF Handled
<1>6. CASE MessageArrives
  BY <1>6 DEF MessageArrives, ramVars, Handled, Saving
<1>7. ASSUME NEW k \in Key, NEW v \in Value, SetScalar(k, v)
      PROVE  Handled'
  BY <1>7 DEF SetScalar, Handled, Saving
<1>8. ASSUME NEW k \in Key, NEW v \in Value, SetGrouped(k, v)
      PROVE  Handled'
  BY <1>8 DEF SetGrouped, Handled, Saving
<1>9. CASE MessageParsed
  BY <1>9 DEF MessageParsed, ramVars, Handled, Saving
<1>10. CASE IsParameterChanged
  <2>1. /\ marked' \subseteq marked \ Complete
        /\ marked' \cap Scalar \subseteq Unprinted
    BY <1>10 DEF IsParameterChanged
  <2>2. Complete' = {}
    BY <2>1, NothingMarked
  <2> QED
    BY <2>1, <2>2 DEF Handled
<1>11. CASE Save
  <2>1. /\ pc \in Saving
        /\ marked' = marked
        /\ booting' = booting
    BY <1>11 DEF Save, Erase, EraseFails, WriteStart, WriteHeader, WriteText,
                 WriteFails, ramVars, Saving, Field
  <2>2. pc' \in Saving \cup {After}
    BY <1>11 DEF Save, Erase, EraseFails, WriteStart, WriteHeader, WriteText,
                 WriteFails, EndSave, Saving, Field
  <2>3. Complete' = Complete
    BY <2>1, SameMarked
  <2>4. CASE booting
    BY <2>1, <2>2, <2>4 DEF Handled, After, Saving
  <2>5. CASE ~booting
    <3>1. Complete = {} /\ marked \cap Scalar \subseteq Unprinted
      BY <2>1, <2>5 DEF Handled
    <3> QED
      BY <2>1, <2>3, <3>1 DEF Handled
  <2> QED
    BY <2>4, <2>5
<1>12. CASE Restart
  BY <1>12 DEF Restart, Handled, Saving
<1>13. CASE UNCHANGED vars
  <2>1. UNCHANGED <<marked, pc, booting>>
    BY <1>13 DEF vars, ramVars
  <2>2. Complete' = Complete
    BY <2>1, SameMarked
  <2> QED
    BY <2>1, <2>2 DEF Handled
<1> QED
  BY <1>1, <1>2, <1>3, <1>4, <1>5, <1>6, <1>7, <1>8, <1>9, <1>10, <1>11,
     <1>12, <1>13 DEF Next

-----------------------------------------------------------------------------
LEMMA TuningStep == IInv /\ [Next]_vars => Tuning'
<1> SUFFICES ASSUME IInv, [Next]_vars PROVE Tuning'
  OBVIOUS
<1> USE DEF IInv
<1>1. CASE ReadFails
  BY <1>1 DEF ReadFails, ramVars, Tuning
<1>2. CASE SaveObjectModelDefaultParameter
  <2>1. ~tuned /\ tuned' = tuned
    BY <1>2 DEF SaveObjectModelDefaultParameter, Control
  <2> QED
    BY <2>1 DEF Tuning
<1>3. CASE ReadBroken
  BY <1>3 DEF ReadBroken, ramVars, Tuning
<1>4. CASE ParseOM
  <2>1. ~tuned /\ tuned' = tuned
    BY <1>4 DEF ParseOM, Control
  <2> QED
    BY <2>1 DEF Tuning
<1>5. CASE PrintInitParameter
  <2>1. ~tuned /\ tuned' = tuned
    BY <1>5 DEF PrintInitParameter, Control
  <2> QED
    BY <2>1 DEF Tuning
<1>6. CASE MessageArrives
  BY <1>6 DEF MessageArrives, ramVars, Tuning
<1>7. ASSUME NEW k \in Key, NEW v \in Value, SetScalar(k, v)
      PROVE  Tuning'
  BY <1>7 DEF SetScalar, Tuning
<1>8. ASSUME NEW k \in Key, NEW v \in Value, SetGrouped(k, v)
      PROVE  Tuning'
  BY <1>8 DEF SetGrouped, Tuning
<1>9. CASE MessageParsed
  BY <1>9 DEF MessageParsed, ramVars, Tuning
<1>10. CASE IsParameterChanged
  <2>1. param'[Volume] = param[Volume]
    BY <1>10, CommittedIsImage DEF IsParameterChanged
  <2>2. param[Volume] \in Nat
    BY DEF TypeOK, Image, Key
  <2>3. CASE Volume \in marked
    <3>1. codec' = IF param[Volume] > MaxVolume
                     THEN codec ELSE Register(param[Volume])
      BY <1>10, <2>3 DEF IsParameterChanged, MP3_setVolume
    <3>2. param[Volume] <= MaxVolume => ~(param[Volume] > MaxVolume)
      BY <2>2
    <3>3. param[Volume] <= MaxVolume => codec' = Register(param[Volume])
      BY <3>1, <3>2
    <3> QED
      BY <2>1, <3>3 DEF Tuning, Register
  <2>4. CASE Volume \notin marked
    <3>1. codec' = codec /\ tuned' = tuned
      BY <1>10, <2>4 DEF IsParameterChanged
    <3> QED
      BY <2>1, <2>4, <3>1 DEF Tuning, Register
  <2> QED
    BY <2>3, <2>4
<1>11. CASE Save
  <2>1. pc \notin {"parse", "apply"}
    BY <1>11 DEF Save, Erase, EraseFails, WriteStart, WriteHeader, WriteText,
                 WriteFails, Field
  <2>2. UNCHANGED <<param, codec, tuned>>
    BY <1>11 DEF Save, Erase, EraseFails, WriteStart, WriteHeader, WriteText,
                 WriteFails, ramVars
  <2> QED
    BY <2>1, <2>2 DEF Tuning, Register
<1>12. CASE Restart
  BY <1>12 DEF Restart, Tuning
<1>13. CASE UNCHANGED vars
  BY <1>13 DEF vars, ramVars, Tuning
<1> QED
  BY <1>1, <1>2, <1>3, <1>4, <1>5, <1>6, <1>7, <1>8, <1>9, <1>10, <1>11,
     <1>12, <1>13 DEF Next

-----------------------------------------------------------------------------
LEMMA IInvStep == IInv /\ [Next]_vars => IInv'
BY TypeStep, ControlStep, SaveInOrderStep, RestoringStep, ChangingStep,
   HandledStep, TuningStep DEF IInv

LEMMA IInvHolds == Spec => []IInv
<1>1. Init => IInv
  BY InitIInv
<1>2. IInv /\ [Next]_vars => IInv'
  BY IInvStep
<1> QED
  BY <1>1, <1>2, PTL DEF Spec

(* The state of the settings and of their image in flash has its type:     *)
(* setters, defaults and restored images only ever store values the cloud  *)
(* may send, and the player's register keeps a value of its range.         *)
THEOREM TypeCorrect == Spec => []TypeOK
<1>1. IInv => TypeOK
  BY DEF IInv
<1> QED
  BY <1>1, IInvHolds, PTL

(* Power-cycle transparency: between messages, unless something went wrong *)
(* or the defaults were used, the flash holds exactly the settings in      *)
(* force (OMFactorySave after IsParameterChanged; OMFactoryRead).          *)
THEOREM PersistedHolds == Spec => []Persisted
<1>1. IInv => Persisted
  <2> SUFFICES ASSUME IInv, pc = "idle", ~stale
               PROVE  flash = Whole(param)
    BY DEF Persisted
  <2>1. /\ flash["data"] \in Image
        /\ flash = Whole(flash["data"])
        /\ \A k \in Key : flash["data"][k] = param[k]
    BY DEF IInv, Changing
  <2>2. param \in Image
    BY DEF IInv, TypeOK
  <2>3. flash["data"] = param
    BY <2>1, <2>2 DEF Image
  <2> QED
    BY <2>1, <2>3
<1> QED
  BY <1>1, IInvHolds, PTL

(* No flag and no complete group waits for a later message, but for the    *)
(* flags PrintInitParameter overlooks (IsParameterChanged).                *)
THEOREM NothingPendingHolds == Spec => []NothingPending
<1>1. IInv => NothingPending
  BY DEF IInv, Handled, NothingPending
<1> QED
  BY <1>1, IInvHolds, PTL

(* Once a volume came from the cloud, the player has the stored volume     *)
(* whenever it accepts it (IsParameterChanged, MP3_setVolume).             *)
THEOREM VolumeAppliedHolds == Spec => []VolumeApplied
<1>1. IInv => VolumeApplied
  BY DEF IInv, Tuning, VolumeApplied
<1> QED
  BY <1>1, IInvHolds, PTL

(* A restart never accepts a mixture of two saves, wherever power or flash *)
(* fail in OMFactorySave.                                                  *)
THEOREM NoMixedImageHolds == Spec => NoMixedImage
<1> DEFINE Whose == Readable' => flash' \in {flash, Whole(param)}
<1>1. IInv /\ [Next]_vars => [Whose]_vars
  <2> SUFFICES ASSUME IInv, Next, Readable', flash' # flash
               PROVE  flash' = Whole(param)
    OBVIOUS
  <2> USE DEF IInv
  <2>1. Save
    BY DEF Next, ReadFails, SaveObjectModelDefaultParameter, ReadBroken,
           ParseOM, PrintInitParameter, MessageArrives, SetScalar, SetGrouped,
           MessageParsed, IsParameterChanged, Restart
  <2>2. /\ flash'["length"] \in Image
        /\ flash'["crc"] = flash'["length"]
        /\ flash'["data"] = flash'["length"]
        /\ flash' = Whole(flash'["length"])
    BY DEF Readable, Whole, Field
  <2>3. flash \in [Field -> Content]
    BY DEF TypeOK
  <2>4. CASE WriteText
    <3>1. flash' = [flash EXCEPT !["data"] = draft] /\ pc = "data"
      BY <2>4 DEF WriteText
    <3>2. flash'["length"] = param
      BY <2>3, <3>1 DEF SaveInOrder, Saving, Field
    <3> QED
      BY <2>2, <3>2
  <2>5. CASE Erase \/ EraseFails
    <3>1. flash' = Blank
      BY <2>5 DEF Erase, EraseFails
    <3> QED
      BY <2>2, <3>1 DEF Blank, Field
  <2>6. ASSUME NEW field \in Field, WriteStart(field)
        PROVE  FALSE
    BY <2>2, <2>3, <2>6 DEF WriteStart, Field
  <2>7. CASE WriteHeader("length", "crc") \/ WriteHeader("crc", "data")
    <3>1. flash["data"] = Erased /\ flash'["data"] = flash["data"]
      BY <2>3, <2>7 DEF WriteHeader, SaveInOrder, Field
    <3> QED
      BY <2>2, <3>1
  <2> QED
    BY <2>1, <2>4, <2>5, <2>6, <2>7 DEF Save, WriteFails
<1> QED
  BY <1>1, IInvHolds, PTL DEF Spec, NoMixedImage
=============================================================================

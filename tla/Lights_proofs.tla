--------------------------- MODULE Lights_proofs ---------------------------
(***************************************************************************)
(* For every brightness of the breath, every limit of LED_openRGB and      *)
(* every set of colours: duty cycles stay within the limit, the breath is  *)
(* one channel fading into the next, and a light whose notify mode was     *)
(* disabled breathes at most once more.                                    *)
(***************************************************************************)
EXTENDS Lights, TLAPS

(* What a thread still has to program is a colour that passed the check.   *)
Checked ==
    /\ lpc \in {"show", "paint"} /\ ltodo # {} => Accepted(largs)
    /\ dtodo # {} => Accepted(dargs)

(* While the notify light is enabled nothing is late, and neither is a      *)
(* breathing colour that lights_thread decided to show before.             *)
Pending ==
    /\ notify => late = 0
    /\ lpc \in {"breathe", "show"} => late = 0

(* The inductive invariant.                                                *)
IInv == TypeOK /\ Breath /\ Checked /\ Pending /\ OneLateBreath

-----------------------------------------------------------------------------
(* LED_openRGB programs a channel that is left to do.                      *)
LEMMA FirstInTodo ==
    ASSUME NEW todo \in SUBSET Channel, todo # {}
    PROVE  First(todo) \in todo
<1>1. \E c \in todo : \A d \in todo : c <= d
  <2>1. CASE 0 \in todo  BY <2>1 DEF Channel
  <2>2. CASE 0 \notin todo /\ 1 \in todo  BY <2>2 DEF Channel
  <2>3. CASE 0 \notin todo /\ 1 \notin todo
    <3>1. \A c \in todo : c = 2  BY <2>3 DEF Channel
    <3> QED  BY <3>1
  <2> QED  BY <2>1, <2>2, <2>3
<1> QED  BY <1>1 DEF First

(* The channel after c, in the cycle of three.                             *)
LEMMA After ==
    ASSUME NEW c \in Channel
    PROVE  /\ c = 0 => (c + 1) % 3 = 1
           /\ c = 1 => (c + 1) % 3 = 2
           /\ c = 2 => (c + 1) % 3 = 0
  BY DEF Channel

(* The brightness of the breath is a byte that LED_openRGB accepts.        *)
LEMMA Brightness ==
    /\ MaxLight \in 1 .. 255
    /\ Limit \in 0 .. 255
    /\ MaxLight <= Limit
<1>1. Limit \in 0 .. 255  BY LightsAssumption DEF Byte
<1>2. MaxLight \in 1 .. Limit  BY LightsAssumption
<1> QED  BY <1>1, <1>2

(* Two bytes that share the brightness are both accepted.                  *)
LEMMA Share ==
    ASSUME NEW a \in 0 .. 255, NEW b \in 0 .. 255, a + b = MaxLight
    PROVE  a <= Limit /\ b <= Limit
  BY Brightness

(* A byte that is not zero counts down without a wrap.                     *)
LEMMA CountsDown ==
    ASSUME NEW b \in Byte, b # 0
    PROVE  (b - 1) % 256 = b - 1
  BY DEF Byte

LEMMA WithinByte ==
    ASSUME NEW b \in 0 .. 255
    PROVE  b % 256 = b
  OBVIOUS

(* One step of the breath: the two counters after it differ, the channel   *)
(* that fades is lit, and the third is dark.                               *)
LEMMA BreathStep ==
    ASSUME TypeOK, Breath
    PROVE  /\ NextCountdown \in Channel
           /\ NextCountup = (NextCountdown + 1) % 3
           /\ led[NextCountdown] \in 1 .. MaxLight
           /\ \A c \in Channel \ {NextCountdown, NextCountup} : led[c] = 0
<1>1. /\ countdown \in Channel /\ countup \in Channel
      /\ led[countdown] \in Nat /\ led[countup] \in Nat
      /\ MaxLight \in Nat \ {0}
  <2>1. countdown \in Channel /\ countup \in Channel /\ led \in [Channel -> Byte]
    BY DEF TypeOK
  <2> QED  BY <2>1, Brightness DEF Byte
<1>. led[countdown] + led[countup] = MaxLight
  BY DEF Breath
<1>2. CASE Turn
  <2>1. NextCountdown = countup
    BY <1>2 DEF NextCountdown, Breath
  <2>2. NextCountup = (countup + 1) % 3
    BY <1>2, <2>1 DEF NextCountup
  <2>3. led[countdown] = 0 /\ led[countup] = MaxLight
    BY <1>1, <1>2 DEF Turn
  <2>4. \A c \in Channel \ {countup, NextCountup} : c = countdown
    BY <1>1, <2>2, After DEF Breath, Channel
  <2> QED  BY <1>1, <2>1, <2>2, <2>3, <2>4
<1>3. CASE ~Turn
  <2>1. NextCountdown = countdown /\ NextCountup = countup
    BY <1>3 DEF NextCountdown, NextCountup
  <2>2. led[countdown] # 0
    BY <1>3 DEF Turn
  <2>3. led[countdown] \in 1 .. MaxLight
    BY <1>1, <2>2
  <2> QED  BY <1>1, <2>1, <2>3 DEF Breath
<1> QED  BY <1>2, <1>3

-----------------------------------------------------------------------------
LEMMA InitIInv == Init => IInv
<1> SUFFICES ASSUME Init PROVE IInv  OBVIOUS
<1> USE DEF Init
<1>1. TypeOK  BY Brightness DEF TypeOK, Dark, Channel, Byte
<1>2. Breath  BY Brightness DEF Breath, Channel
<1>3. Checked /\ Pending /\ OneLateBreath
  BY DEF Checked, Pending, OneLateBreath
<1> QED  BY <1>1, <1>2, <1>3 DEF IInv

LEMMA NextIInv == IInv /\ [Next]_vars => IInv'
<1> SUFFICES ASSUME IInv, [Next]_vars PROVE IInv'  OBVIOUS
<1>1. TypeOK /\ Breath /\ Checked /\ Pending /\ OneLateBreath
  BY DEF IInv
<1>2. \A c \in Channel : led[c] <= Limit
  <2>1. led[countdown] \in 0 .. 255 /\ led[countup] \in 0 .. 255
    BY <1>1 DEF TypeOK, Byte
  <2>2. led[countdown] + led[countup] = MaxLight
    BY <1>1 DEF Breath
  <2>3. led[countdown] <= Limit /\ led[countup] <= Limit
    BY <2>1, <2>2, Share
  <2>4. \A c \in Channel \ {countdown, countup} : led[c] <= Limit
    BY <1>1, Brightness DEF Breath
  <2> QED  BY <2>3, <2>4
<1>a. CASE LightsCheck
  BY <1>1, <1>a DEF LightsCheck, IInv, TypeOK, Breath, Checked, Pending,
       OneLateBreath, config, breath, down
<1>b. CASE LightsBreathe
  BY <1>1, <1>2, <1>b DEF LightsBreathe, IInv, TypeOK, Breath, Checked,
       Pending, OneLateBreath, config, breath, down, ToWrite, Accepted
<1>c. CASE LightsSwitch
  BY <1>1, <1>c, Brightness DEF LightsSwitch, IInv, TypeOK, Breath, Checked, Pending,
       OneLateBreath, config, breath, down, Dark, Accepted, Channel, Byte
<1>d. CASE LightsRead
  <2>1. PICK c \in ltodo :
          /\ largs' = [largs EXCEPT ![c] = conf[c]]
          /\ ltodo' = IF ltodo = {c} THEN ToWrite(largs') ELSE ltodo \ {c}
          /\ lpc' = IF ltodo = {c} THEN "paint" ELSE "read"
    BY <1>d DEF LightsRead
  <2>2. c \in Channel /\ conf[c] \in Byte
    BY <1>1, LightsAssumption DEF TypeOK
  <2>3. largs' \in [Channel -> Byte] /\ ltodo' \subseteq Channel
    BY <1>1, <2>1, <2>2 DEF TypeOK, ToWrite
  <2>4. TypeOK'
    BY <1>1, <1>d, <2>1, <2>3 DEF LightsRead, TypeOK, config, breath, down
  <2>5. Checked'
    BY <1>1, <1>d, <2>1 DEF LightsRead, Checked, ToWrite, down
  <2>6. Breath' /\ Pending' /\ OneLateBreath'
    BY <1>1, <1>d, <2>1 DEF LightsRead, Breath, Pending, OneLateBreath,
         config, breath
  <2> QED  BY <2>4, <2>5, <2>6 DEF IInv
<1>e. CASE LightsWrite
  <2>1. First(ltodo) \in ltodo
    BY <1>1, <1>e, FirstInTodo DEF LightsWrite, TypeOK
  <2>2. largs[First(ltodo)] \in 0 .. Limit
    <3>1. First(ltodo) \in Channel /\ largs[First(ltodo)] \in Byte
      BY <1>1, <2>1 DEF TypeOK
    <3>2. Accepted(largs)
      BY <1>1, <1>e DEF LightsWrite, Checked
    <3> QED  BY <3>1, <3>2 DEF Accepted, Byte
  <2> QED
    BY <1>1, <1>e, <2>1, <2>2 DEF LightsWrite, IInv, TypeOK, Breath, Checked,
         Pending, OneLateBreath, config, breath, down
<1>f. CASE LightsPainted
  BY <1>1, <1>f DEF LightsPainted, IInv, TypeOK, Breath, Checked, Pending,
       OneLateBreath, config, breath, down, Dark, Byte
<1>g. CASE LightsShown
  <2> DEFINE less == (led[NextCountdown] - 1) % 256
  <2>1. /\ countdown' = NextCountdown
        /\ countup' = NextCountup
        /\ led' = [led EXCEPT ![NextCountdown] = less,
                              ![NextCountup] = (MaxLight - less) % 256]
    BY <1>g DEF LightsShown
  <2>2. /\ NextCountdown \in Channel /\ NextCountup \in Channel
        /\ NextCountdown # NextCountup
        /\ led[NextCountdown] \in 1 .. MaxLight
        /\ less = led[NextCountdown] - 1
    <3>1. /\ NextCountdown \in Channel
          /\ NextCountup = (NextCountdown + 1) % 3
          /\ led[NextCountdown] \in 1 .. MaxLight
      BY <1>1, BreathStep
    <3>2. NextCountup \in Channel /\ NextCountdown # NextCountup
      BY <3>1, After DEF Channel
    <3>3. led[NextCountdown] \in Byte /\ led[NextCountdown] # 0
      BY <3>1, Brightness DEF Byte
    <3> QED  BY <3>1, <3>2, <3>3, CountsDown
  <2> HIDE DEF less
  <2>3. /\ less \in Byte
        /\ MaxLight - less \in 1 .. MaxLight
        /\ (MaxLight - less) % 256 = MaxLight - less
    <3>1. MaxLight \in 1 .. 255 /\ less \in 0 .. MaxLight - 1
      BY <2>2, Brightness
    <3>2. less \in Byte /\ MaxLight - less \in 1 .. MaxLight
      BY <3>1 DEF Byte
    <3>3. MaxLight - less \in 0 .. 255
      BY <3>1, <3>2
    <3> QED  BY <3>2, <3>3, WithinByte
  <2>4. led' \in [Channel -> Byte]
    <3>1. (MaxLight - less) % 256 \in Byte
      BY <2>3, Brightness DEF Byte
    <3>2. led \in [Channel -> Byte]
      BY <1>1 DEF TypeOK
    <3> QED  BY <2>1, <2>3, <3>1, <3>2
  <2>5. led'[countdown'] = less /\ led'[countup'] = MaxLight - less
    BY <1>1, <2>1, <2>2, <2>3 DEF TypeOK
  <2>6. Breath'
    <3>1. countup' = (countdown' + 1) % 3
      BY <1>1, <2>1, BreathStep
    <3>2. led'[countdown'] + led'[countup'] = MaxLight
      BY <2>3, <2>5, Brightness DEF Byte
    <3>3. \A c \in Channel \ {countdown', countup'} : led'[c] = 0
      BY <1>1, <2>1, BreathStep DEF TypeOK
    <3> QED  BY <3>1, <3>2, <3>3 DEF Breath
  <2>7. TypeOK'
    <3>1. late' \in 0 .. 2
      BY <1>1, <1>g DEF LightsShown, TypeOK
    <3>2. largs' \in [Channel -> Byte]
      BY <1>g DEF LightsShown, Dark, Byte
    <3>3. lpc' = "check" /\ countdown' \in Channel /\ countup' \in Channel
      BY <1>g, <2>1, <2>2 DEF LightsShown
    <3>4. UNCHANGED <<notify, ledSwitch, conf, pwm, ltodo, dargs, dtodo>>
      BY <1>g DEF LightsShown, config, down
    <3> QED  BY <1>1, <2>4, <3>1, <3>2, <3>3, <3>4 DEF TypeOK
  <2>8. Checked' /\ Pending' /\ OneLateBreath'
    BY <1>1, <1>g DEF LightsShown, Checked, Pending, OneLateBreath, config,
         down
  <2> QED  BY <2>6, <2>7, <2>8 DEF IInv
<1>h. ASSUME NEW flag \in BOOLEAN, SetEnableNotifyLight(flag) PROVE IInv'
  <2>1. /\ dtodo = {} /\ notify' = flag /\ late' = IF flag THEN 0 ELSE late
        /\ \/ dargs' = dargs /\ dtodo' = dtodo
           \/ dargs' = Dark /\ dtodo' = Channel
        /\ UNCHANGED <<ledSwitch, conf, pwm, led, countdown, countup, lpc, largs, ltodo>>
    BY <1>h DEF SetEnableNotifyLight, breath, lights
  <2>2. Dark \in [Channel -> Byte] /\ Accepted(Dark)
    BY Brightness DEF Dark, Accepted, Byte
  <2>3. dargs' \in [Channel -> Byte] /\ dtodo' \subseteq Channel
    BY <1>1, <2>1, <2>2 DEF TypeOK
  <2>4. late' \in 0 .. 2
    BY <1>1, <2>1 DEF TypeOK
  <2>5. TypeOK'
    BY <1>1, <1>h, <2>1, <2>3, <2>4 DEF TypeOK
  <2>6. Breath'
    BY <1>1, <2>1 DEF Breath
  <2>7. Checked'
    BY <1>1, <2>1, <2>2 DEF Checked, Accepted
  <2>8. Pending' /\ OneLateBreath'
    BY <1>1, <2>1 DEF Pending, OneLateBreath
  <2> QED  BY <2>5, <2>6, <2>7, <2>8 DEF IInv
<1>i. ASSUME NEW flag \in BOOLEAN, SetLedSwitch(flag) PROVE IInv'
  BY <1>1, <1>i DEF SetLedSwitch, IInv, TypeOK, Breath, Checked, Pending,
       OneLateBreath, breath, lights, down
<1>j. ASSUME NEW colour \in Colour, LedConfChanged(colour) PROVE IInv'
  BY <1>1, <1>j, LightsAssumption DEF LedConfChanged, IInv, TypeOK, Breath, Checked, Pending,
       OneLateBreath, breath, lights, down, ToWrite
<1>k. CASE DownWrite
  <2>1. First(dtodo) \in dtodo
    BY <1>1, <1>k, FirstInTodo DEF DownWrite, TypeOK
  <2>2. dargs[First(dtodo)] \in 0 .. Limit
    <3>1. First(dtodo) \in Channel /\ dargs[First(dtodo)] \in Byte
      BY <1>1, <2>1 DEF TypeOK
    <3>2. Accepted(dargs)
      BY <1>1, <1>k DEF DownWrite, Checked
    <3> QED  BY <3>1, <3>2 DEF Accepted, Byte
  <2>3. TypeOK'
    BY <1>1, <1>k, <2>1, <2>2 DEF DownWrite, TypeOK, config, breath, lights,
         Dark, Byte
  <2>4. Breath'
    BY <1>1, <1>k DEF DownWrite, Breath, breath
  <2>5. Checked' /\ Pending' /\ OneLateBreath'
    BY <1>1, <1>k DEF DownWrite, Checked, Pending, OneLateBreath, config,
         lights
  <2> QED  BY <2>3, <2>4, <2>5 DEF IInv
<1>l. CASE UNCHANGED vars
  BY <1>1, <1>l DEF vars, IInv, TypeOK, Breath, Checked, Pending,
       OneLateBreath, config, breath, lights, down, Turn
<1> QED
  BY <1>a, <1>b, <1>c, <1>d, <1>e, <1>f, <1>g, <1>h, <1>i, <1>j, <1>k, <1>l
     DEF Next, LightsThread, Message

LEMMA Invariance == Spec => []IInv
  BY InitIInv, NextIInv, PTL DEF Spec

-----------------------------------------------------------------------------
(* The types of all variables, and with them the bound on the duty cycles:  *)
(* whatever the cloud configures, LED_openRGB programs no value beyond its *)
(* limit.                                                                  *)
THEOREM TypeCorrect == Spec => []TypeOK
<1>1. IInv => TypeOK  BY DEF IInv
<1> QED  BY <1>1, Invariance, PTL

(* The breath of lights_thread never leaves the cycle of one channel fading *)
(* into the next, for any brightness MAX_LIGHT.                            *)
THEOREM BreathHolds == Spec => []Breath
<1>1. IInv => Breath  BY DEF IInv
<1> QED  BY <1>1, Invariance, PTL

(* Disabling the notify light lets at most one more breathing colour out,   *)
(* wherever lights_thread is when the message comes.                       *)
THEOREM OneLateBreathHolds == Spec => []OneLateBreath
<1>1. IInv => OneLateBreath  BY DEF IInv
<1> QED  BY <1>1, Invariance, PTL
=============================================================================

------------------------------- MODULE Lights -------------------------------
(***************************************************************************)
(* The RGB light.  lights_thread (LightsMonitor.c) lets it breathe while   *)
(* the notify light is enabled, and otherwise repaints every two seconds   *)
(* the configured colour or darkness; user_downstream_thread writes to it  *)
(* as well, when a message disables the notify light or changes the        *)
(* colour.  Nothing orders the two: LED_openRGB programs the three PWM     *)
(* channels one after the other, and the getters its arguments come from   *)
(* are called without the mutex, in an order C leaves open.                *)
(***************************************************************************)
EXTENDS Integers, FiniteSets

CONSTANTS
    MaxLight,    (* MAX_LIGHT, the brightness of a breathing channel         *)
    Limit,       (* the largest value LED_openRGB accepts                    *)
    Colour       (* the colours the cloud may configure                      *)

Channel == 0 .. 2
Byte    == 0 .. 255

ASSUME LightsAssumption ==
    /\ Limit \in Byte
    /\ MaxLight \in 1 .. Limit
    /\ Colour \subseteq [Channel -> Byte]

VARIABLES
    notify, ledSwitch, conf,      (* gLight, as its getters return it        *)
    pwm,                          (* duty cycle of each PWM channel          *)
    led, countdown, countup,      (* lights_thread: led, countdown_led,
                                     countup_led                             *)
    lpc, largs, ltodo,            (* lights_thread: control, arguments of
                                     LED_openRGB (Dark between calls),
                                     channels still to do                    *)
    dargs, dtodo,                 (* user_downstream_thread: the same; it is
                                     between calls if dtodo is empty         *)
    late                          (* history: breathing colours shown since
                                     the notify light was disabled           *)

config  == <<notify, ledSwitch, conf>>
breath  == <<led, countdown, countup>>
lights  == <<lpc, largs, ltodo>>
down    == <<dargs, dtodo>>
vars    == <<config, pwm, breath, lights, down, late>>

Dark == [c \in Channel |-> 0]

Init ==
    /\ notify \in BOOLEAN
    /\ ledSwitch \in BOOLEAN
    /\ conf \in Colour
    /\ pwm = Dark
    /\ led = [c \in Channel |-> IF c = 0 THEN MaxLight ELSE 0]
    /\ countdown = 0
    /\ countup = 1
    /\ lpc = "check" /\ largs = Dark /\ ltodo = {}
    /\ dargs = Dark /\ dtodo = {}
    /\ late = 0

(* Mutant: the parameters are not checked. *)
AcceptedAlways(args) == TRUE

(* LED_openRGB: what is left to program, in the order red, green, blue.    *)
Accepted(args) == \A c \in Channel : args[c] <= Limit
ToWrite(args)  == IF Accepted(args) THEN Channel ELSE {}
First(todo)    == CHOOSE c \in todo : \A d \in todo : c <= d

-----------------------------------------------------------------------------
(* lights_thread.                                                          *)

LightsCheck ==
    /\ lpc = "check"
    /\ lpc' = IF notify THEN "breathe" ELSE "switch"
    /\ UNCHANGED <<config, pwm, breath, largs, ltodo, down, late>>

LightsBreathe ==
    /\ lpc = "breathe"
    /\ largs' = led
    /\ ltodo' = ToWrite(led)
    /\ lpc' = "show"
    /\ UNCHANGED <<config, pwm, breath, down, late>>

(* Mutant: the colour is shown without a look at the switch. *)
LightsSwitchIgnored ==
    /\ lpc = "switch"
    /\ lpc' = "read" /\ ltodo' = Channel /\ UNCHANGED largs
    /\ UNCHANGED <<config, pwm, breath, down, late>>

LightsSwitch ==
    /\ lpc = "switch"
    /\ IF ledSwitch
         THEN lpc' = "read" /\ ltodo' = Channel /\ UNCHANGED largs
         ELSE lpc' = "paint" /\ ltodo' = Channel /\ largs' = Dark
    /\ UNCHANGED <<config, pwm, breath, down, late>>

LightsRead ==
    /\ lpc = "read"
    /\ \E c \in ltodo :
         /\ largs' = [largs EXCEPT ![c] = conf[c]]
         /\ ltodo' = IF ltodo = {c} THEN ToWrite(largs') ELSE ltodo \ {c}
         /\ lpc' = IF ltodo = {c} THEN "paint" ELSE "read"
    /\ UNCHANGED <<config, pwm, breath, down, late>>

LightsWrite ==
    /\ lpc \in {"show", "paint"}
    /\ ltodo # {}
    /\ pwm' = [pwm EXCEPT ![First(ltodo)] = largs[First(ltodo)]]
    /\ ltodo' = ltodo \ {First(ltodo)}
    /\ UNCHANGED <<config, breath, lpc, largs, down, late>>

LightsPainted ==
    /\ lpc = "paint"
    /\ ltodo = {}
    /\ lpc' = "check"
    /\ largs' = Dark
    /\ UNCHANGED <<config, pwm, breath, ltodo, down, late>>

(* Mutant: the channel that fades is not changed at its end. *)
TurnNever == FALSE

Turn == led[countdown] = 0 \/ led[countup] >= MaxLight

NextCountdown == IF Turn THEN (countdown + 1) % 3 ELSE countdown
NextCountup   == IF Turn THEN (NextCountdown + 1) % 3 ELSE countup

(* Mutant: the thread stays in the breathing branch. *)
LightsShownStays ==
    /\ lpc = "show"
    /\ ltodo = {}
    /\ countdown' = NextCountdown
    /\ countup' = NextCountup
    /\ LET less == (led[NextCountdown] - 1) % 256
       IN led' = [led EXCEPT ![NextCountdown] = less,
                             ![NextCountup] = (MaxLight - less) % 256]
    /\ late' = IF notify THEN 0 ELSE IF late < 2 THEN late + 1 ELSE 2
    /\ lpc' = "breathe"
    /\ largs' = Dark
    /\ UNCHANGED <<config, pwm, ltodo, down>>

(* One step of the breath; the thread sleeps and starts over.              *)
LightsShown ==
    /\ lpc = "show"
    /\ ltodo = {}
    /\ countdown' = NextCountdown
    /\ countup' = NextCountup
    /\ LET less == (led[NextCountdown] - 1) % 256
       IN led' = [led EXCEPT ![NextCountdown] = less,
                             ![NextCountup] = (MaxLight - less) % 256]
    /\ late' = IF notify THEN 0 ELSE IF late < 2 THEN late + 1 ELSE 2
    /\ lpc' = "check"
    /\ largs' = Dark
    /\ UNCHANGED <<config, pwm, ltodo, down>>

LightsThread ==
    \/ LightsCheck
    \/ LightsBreathe
    \/ LightsSwitch
    \/ LightsRead
    \/ LightsWrite
    \/ LightsPainted
    \/ LightsShown

-----------------------------------------------------------------------------
(* user_downstream_thread: the settings of a message that concern the      *)
(* light, as ParseOMfromCloud and IsParameterChanged meet them.            *)

SetEnableNotifyLight(flag) ==
    /\ dtodo = {}
    /\ notify' = flag
    /\ IF flag
         THEN UNCHANGED <<dargs, dtodo>>
         ELSE dargs' = Dark /\ dtodo' = Channel
    /\ late' = IF flag THEN 0 ELSE late
    /\ UNCHANGED <<ledSwitch, conf, pwm, breath, lights>>

SetLedSwitch(flag) ==
    /\ dtodo = {}
    /\ ledSwitch' = flag
    /\ UNCHANGED <<notify, conf, pwm, breath, lights, down, late>>

(* IsLedConfChanged is true: the group is in force, and shown at once.     *)
LedConfChanged(colour) ==
    /\ dtodo = {}
    /\ conf' = colour
    /\ IF ledSwitch
         THEN dargs' = colour /\ dtodo' = ToWrite(colour)
         ELSE UNCHANGED <<dargs, dtodo>>
    /\ UNCHANGED <<notify, ledSwitch, pwm, breath, lights, late>>

DownWrite ==
    /\ dtodo # {}
    /\ pwm' = [pwm EXCEPT ![First(dtodo)] = dargs[First(dtodo)]]
    /\ dtodo' = dtodo \ {First(dtodo)}
    /\ dargs' = IF dtodo' = {} THEN Dark ELSE dargs
    /\ UNCHANGED <<config, breath, lights, late>>

Message ==
    \/ \E flag \in BOOLEAN : SetEnableNotifyLight(flag) \/ SetLedSwitch(flag)
    \/ \E colour \in Colour : LedConfChanged(colour)

Next == LightsThread \/ DownWrite \/ Message

Spec == Init /\ [][Next]_vars

(* Both threads run whenever they are not asleep, and no sleep is for ever; *)
(* nothing is assumed of the messages.                                     *)
FairSpec == Spec /\ WF_vars(LightsThread) /\ WF_vars(DownWrite)
-----------------------------------------------------------------------------
(* Every duty cycle programmed is one that LED_openRGB accepts, every byte  *)
(* of the breath is one, and the threads are at places the code has.       *)
TypeOK ==
    /\ notify \in BOOLEAN
    /\ ledSwitch \in BOOLEAN
    /\ conf \in Colour
    /\ pwm \in [Channel -> 0 .. Limit]
    /\ led \in [Channel -> Byte]
    /\ countdown \in Channel
    /\ countup \in Channel
    /\ lpc \in {"check", "breathe", "show", "switch", "read", "paint"}
    /\ largs \in [Channel -> Byte]
    /\ ltodo \subseteq Channel
    /\ dargs \in [Channel -> Byte]
    /\ dtodo \subseteq Channel
    /\ late \in 0 .. 2

(* The breath is one channel fading into the next at constant brightness:  *)
(* the two share MaxLight, the third is dark, and so the byte that counts  *)
(* down never wraps and LED_openRGB never refuses a breathing colour.      *)
Breath ==
    /\ countup = (countdown + 1) % 3
    /\ led[countdown] + led[countup] = MaxLight
    /\ \A c \in Channel \ {countdown, countup} : led[c] = 0

(* Once the notify light is disabled, at most one breathing colour still   *)
(* reaches the light: the one lights_thread was about to show.             *)
OneLateBreath == late <= 1

(* However the two threads interleave, when the configuration stays and no *)
(* message writes to the light any more, the light settles: at the         *)
(* configured colour if it is one LED_openRGB accepts, and dark when it is *)
(* switched off.                                                           *)
Settles ==
    /\ \A colour \in Colour :
         Accepted(colour) =>
            (<>[](~notify /\ ledSwitch /\ conf = colour /\ dtodo = {})
                => <>[](pwm = colour))
    /\ <>[](~notify /\ ~ledSwitch) => <>[](pwm = Dark)
=============================================================================

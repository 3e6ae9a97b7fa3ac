------------------------- MODULE CupMonitor_proofs -------------------------
(***************************************************************************)
(* Proofs about the cup monitor, for every number of pick-up entries,      *)
(* put-down tags and timers.                                               *)
(***************************************************************************)
EXTENDS CupMonitor, TLAPS

LEMMA Constants ==
    /\ Depth \in Nat \ {0}
    /\ Tags \in Nat \ {0}
    /\ NoTimer \notin Timer
    /\ 0 \in Pickup
    /\ 0 \in Tag
  BY CupAssumption DEF Pickup, Tag

(* The tag after idx, or the first one.                                    *)
LEMMA AdvanceType ==
    ASSUME idx \in Tag, Advance
    PROVE  idx' \in Tag /\ hpc' \in {"tag", "getup"}
  <1>1. CASE idx + 1 < Tags
    BY <1>1, Constants DEF Advance, Tag
  <1>2. CASE ~(idx + 1 < Tags)
    BY <1>2, Constants DEF Advance
  <1> QED
    BY <1>1, <1>2

-----------------------------------------------------------------------------
(* The types.                                                              *)

LEMMA TypeInit == Init => TypeOK
  BY Constants DEF Init, TypeOK

LEMMA TypeStep == TypeOK /\ [Next]_vars => TypeOK'
  <1> SUFFICES ASSUME TypeOK, [Next]_vars PROVE TypeOK'
    OBVIOUS
  <1>1. CASE KEY_irq_handler
    BY <1>1 DEF KEY_irq_handler, TypeOK, config, timerVars, service
  <1>2. CASE Configure
    <2>1. pick' \in [Pickup -> BOOLEAN] /\ tags' \in [Tag -> {"off", "now", "later"}]
      BY <1>2 DEF Configure, TypeOK
    <2> QED
      BY <1>2, <2>1 DEF Configure, TypeOK, keyVars, timerVars, service
  <1>3. CASE Pick \/ IsPickupSetting \/ PickPlayed \/ Signalled \/ TimedOut \/ PutDown
             \/ IsPutDownSetting \/ DelayedTag \/ IsTimerRunning
    <2>1. CASE Pick \/ PutDown
      BY <2>1 DEF Pick, PutDown, TypeOK, keyVars, config, timerVars, service
    <2>2. CASE IsPickupSetting \/ IsPutDownSetting
      BY <2>2 DEF IsPickupSetting, IsPutDownSetting, TypeOK, keyVars, config, timerVars,
                  service
    <2>3. CASE PickPlayed \/ Signalled \/ TimedOut
      BY <2>3 DEF PickPlayed, Signalled, TimedOut, TypeOK, keyVars, config, timerVars,
                  service
    <2>4. CASE DelayedTag \/ IsTimerRunning
      BY <2>4 DEF DelayedTag, IsTimerRunning, TypeOK, keyVars, config, timerVars, service
    <2> QED
      BY <1>3, <2>1, <2>2, <2>3, <2>4
  <1>4. CASE FindPickupTrack
    <2>1. count \in Pickup
      BY DEF TypeOK
    <2>2. (count + 1) % Depth \in Pickup
      BY <2>1, Constants DEF Pickup
    <2> QED
      BY <1>4, <2>2 DEF FindPickupTrack, TypeOK, keyVars, config, timerVars, service
  <1>5. CASE NextTag
    <2>1. idx' \in Tag /\ hpc' \in {"tag", "getup"}
      BY <1>5, AdvanceType DEF NextTag, TypeOK
    <2> QED
      BY <1>5, <2>1 DEF NextTag, TypeOK, keyVars, config, timerVars, service
  <1>6. CASE StopTimer
    <2>1. state' \in [Timer -> {"free", "dormant", "running"}]
      BY <1>6 DEF StopTimer, TypeOK
    <2> QED
      BY <1>6, <2>1 DEF StopTimer, TypeOK, keyVars, config, service
  <1>7. ASSUME NEW tag \in Tag, Deinit(tag)
        PROVE  /\ state' \in [Timer -> {"free", "dormant", "running"}]
               /\ timer' \in [Tag -> Timer \cup {NoTimer}]
    BY <1>7 DEF Deinit, TypeOK
  <1>8. CASE DeinitTimer
    <2>1. idx \in Tag
      BY DEF TypeOK
    <2> QED
      BY <1>7, <1>8, <2>1 DEF DeinitTimer, TypeOK, keyVars, config, service
  <1>9. CASE InitTimer
    <2>1. /\ state' \in [Timer -> {"free", "dormant", "running"}]
          /\ owner' \in [Timer -> Tag]
          /\ timer' \in [Tag -> Timer \cup {NoTimer}]
      BY <1>9 DEF InitTimer, TypeOK
    <2>2. overlap' \subseteq Tag
      BY <1>9 DEF InitTimer, TypeOK
    <2> QED
      BY <1>9, <2>1, <2>2 DEF InitTimer, TypeOK, keyVars, config, service
  <1>10. CASE StartTimer
    <2>1. idx' \in Tag /\ hpc' \in {"tag", "getup"}
      BY <1>10, AdvanceType DEF StartTimer, TypeOK
    <2>2. state' \in [Timer -> {"free", "dormant", "running"}] /\ armed' \subseteq Tag
      BY <1>10 DEF StartTimer, TypeOK
    <2> QED
      BY <1>10, <2>1, <2>2 DEF StartTimer, TypeOK, keyVars, config, service
  <1>11. ASSUME NEW t \in Timer, Expire(t) PROVE TypeOK'
    <2>1. owner[t] \in Tag /\ state' \in [Timer -> {"free", "dormant", "running"}]
      BY <1>11 DEF Expire, TypeOK
    <2> QED
      BY <1>11, <2>1 DEF Expire, TypeOK, keyVars, config
  <1>12. CASE PutdownTimeout
    <2>1. due \in Tag
      BY DEF TypeOK
    <2> QED
      BY <1>7, <1>12, <2>1 DEF PutdownTimeout, TypeOK, keyVars, config
  <1>13. CASE TimeoutPlayed \/ ScheduleTimeout \/ SchedulePlayed
    BY <1>13 DEF TimeoutPlayed, ScheduleTimeout, SchedulePlayed, TypeOK, keyVars, config, timerVars
  <1>14. CASE UNCHANGED vars
    BY <1>14 DEF vars, TypeOK, keyVars, config, timerVars, service
  <1> QED
    BY <1>1, <1>2, <1>3, <1>4, <1>5, <1>6, <1>8, <1>9, <1>10, <1>11, <1>12, <1>13,
       <1>14 DEF Next, HealthThread, TimerService

(* The variables keep their types: the search of FindPickupTrack stays     *)
(* within its entries, the put-down loop within its tags.                  *)
THEOREM TypeCorrect == Spec => []TypeOK
  BY TypeInit, TypeStep, PTL DEF Spec

-----------------------------------------------------------------------------
(* The key.  Since the first branch looked at it, an edge has left its     *)
(* signal.                                                                 *)

KeyInv ==
    hpc \in {"disturb", "find", "play", "wait", "put"} /\ ~putdown => cup = key

LEMMA KeyStep == TypeOK /\ KeyInv /\ [Next]_vars => KeyInv'
  <1> SUFFICES ASSUME TypeOK, KeyInv, [Next]_vars PROVE KeyInv'
    OBVIOUS
  <1>1. CASE KEY_irq_handler
    BY <1>1 DEF KEY_irq_handler, KeyInv
  <1>2. CASE Configure \/ TimerService
    BY <1>2 DEF Configure, TimerService, Expire, PutdownTimeout, TimeoutPlayed,
                ScheduleTimeout, SchedulePlayed, KeyInv, keyVars
  <1>3. CASE Pick \/ IsPickupSetting \/ FindPickupTrack \/ PickPlayed \/ TimedOut
    BY <1>3 DEF Pick, IsPickupSetting, FindPickupTrack, PickPlayed, TimedOut, KeyInv,
                keyVars
  <1>4. CASE Signalled \/ PutDown \/ IsPutDownSetting
    BY <1>4 DEF Signalled, PutDown, IsPutDownSetting, KeyInv, keyVars
  <1>5. CASE NextTag \/ StartTimer
    <2>1. hpc' \in {"tag", "getup"}
      BY <1>5, AdvanceType DEF NextTag, StartTimer, TypeOK
    <2> QED
      BY <2>1 DEF KeyInv
  <1>6. CASE DelayedTag \/ IsTimerRunning \/ StopTimer \/ DeinitTimer \/ InitTimer
    BY <1>6 DEF DelayedTag, IsTimerRunning, StopTimer, DeinitTimer, InitTimer, KeyInv
  <1>7. CASE UNCHANGED vars
    BY <1>7 DEF vars, KeyInv, keyVars
  <1> QED
    BY <1>1, <1>2, <1>3, <1>4, <1>5, <1>6, <1>7 DEF Next, HealthThread

(* A put-down is only recorded for an edge between the end of the wait and *)
(* the look at the key (HealthMonitor.c:97-100).                           *)
THEOREM PutDownOnlyInWindowHolds == Spec => []PutDownOnlyInWindow
  <1>1. Init => KeyInv
    BY DEF Init, KeyInv
  <1>2. KeyInv => PutDownOnlyInWindow
    BY DEF KeyInv, PutDownOnlyInWindow
  <1> QED
    BY <1>1, <1>2, TypeInit, TypeStep, KeyStep, PTL DEF Spec

-----------------------------------------------------------------------------
(* The reminders.                                                          *)

(* A handle denotes a timer that exists and has its tag for argument.      *)
HandleInv ==
    \A g \in Tag : timer[g] \in Timer =>
        state[timer[g]] # "free" /\ owner[timer[g]] = g

(* A timer that runs is the one in hand; its tag is not between the stop   *)
(* of the last one and the start of the next.                              *)
RunningInv ==
    /\ \A t \in Timer : state[t] = "running" => timer[owner[t]] = t
    /\ hpc \in {"deinit", "init", "start"} => ~Has(idx, "running")

(* The timer in hand is dormant only during its callback, and between stop *)
(* and deinitialisation or initialisation and start.                       *)
DormantInv ==
    \A g \in Tag : Has(g, "dormant") =>
        \/ tpc = "callback" /\ due = g
        \/ hpc \in {"deinit", "start"} /\ idx = g

(* A callback that meets a timer of its tag that is not its own: the tag   *)
(* was armed while the callback was under way.                             *)
OverlapInv ==
    /\ hpc = "start" /\ tpc = "callback" /\ due = idx => idx \in overlap
    /\ tpc = "callback" /\ due \in armed => due \in overlap

TimerInv ==
    /\ HandleInv
    /\ RunningInv
    /\ DormantInv
    /\ OverlapInv
    /\ TimersInHand
    /\ RemindersRun

LEMMA TimerInit == Init => TimerInv
  BY Constants DEF Init, TimerInv, HandleInv, RunningInv, DormantInv, OverlapInv,
                   TimersInHand, RemindersRun, Has

(* Steps that leave the timers alone.                                      *)
LEMMA TimerFrame ==
    ASSUME TypeOK, TimerInv, UNCHANGED <<timerVars, service>>,
           hpc' \in {"deinit", "init", "start"} => hpc' = hpc \/ ~Has(idx, "running"),
           hpc \in {"deinit", "start"} => hpc' = hpc,
           hpc' = "start" => hpc = "start",
           idx' = idx \/ (hpc' \in {"tag", "getup"} /\ hpc \notin {"deinit", "start"})
    PROVE  TimerInv'
  <1>1. /\ timer' = timer /\ owner' = owner /\ state' = state /\ armed' = armed
        /\ overlap' = overlap /\ tpc' = tpc /\ due' = due
    BY DEF timerVars, service
  <1>2. HandleInv' /\ TimersInHand' /\ RemindersRun'
    BY <1>1 DEF TimerInv, HandleInv, TimersInHand, RemindersRun, Has
  <1>3. RunningInv'
    BY <1>1 DEF TimerInv, RunningInv, Has
  <1>4. DormantInv'
    BY <1>1 DEF TimerInv, DormantInv, Has
  <1>5. OverlapInv'
    BY <1>1 DEF TimerInv, OverlapInv
  <1> QED
    BY <1>2, <1>3, <1>4, <1>5 DEF TimerInv

(* The timer in hand goes.                                                 *)
LEMMA DeinitStep ==
    ASSUME TypeOK, TimerInv, NEW tag \in Tag, Deinit(tag)
    PROVE  /\ timer'[tag] \notin Timer
           /\ \A g \in Tag \ {tag} : timer'[g] = timer[g]
           /\ \A g \in Tag \ {tag} : timer[g] \in Timer => state'[timer[g]] = state[timer[g]]
           /\ \A t \in Timer : state'[t] # "free" => state'[t] = state[t] /\ t # timer[tag]
  <1>1. timer' = [timer EXCEPT ![tag] = NoTimer] /\ timer \in [Tag -> Timer \cup {NoTimer}]
    BY DEF Deinit, TypeOK
  <1>2. \A g \in Tag \ {tag} : timer[g] \in Timer => timer[g] # timer[tag]
    BY DEF TimerInv, HandleInv
  <1>3. state \in [Timer -> {"free", "dormant", "running"}]
    BY DEF TypeOK
  <1>4. CASE timer[tag] \in Timer
    <2>1. state' = [state EXCEPT ![timer[tag]] = "free"]
      BY <1>4 DEF Deinit
    <2> QED
      BY <1>1, <1>2, <1>3, <1>4, <2>1, Constants
  <1>5. CASE timer[tag] \notin Timer
    <2>1. state' = state
      BY <1>5 DEF Deinit
    <2> QED
      BY <1>1, <1>5, <2>1, Constants
  <1> QED
    BY <1>4, <1>5

LEMMA TimerDeinit == TypeOK /\ TimerInv /\ DeinitTimer => TimerInv'
  <1> SUFFICES ASSUME TypeOK, TimerInv, DeinitTimer PROVE TimerInv'
    OBVIOUS
  <1>1. /\ hpc = "deinit" /\ hpc' = "init" /\ idx' = idx /\ idx \in Tag
        /\ owner' = owner /\ armed' = armed /\ overlap' = overlap
        /\ tpc' = tpc /\ due' = due
    BY DEF DeinitTimer, service, TypeOK
  <1>2. Deinit(idx)
    BY DEF DeinitTimer
  <1>3. /\ timer'[idx] \notin Timer
        /\ \A g \in Tag \ {idx} : timer'[g] = timer[g]
        /\ \A g \in Tag \ {idx} : timer[g] \in Timer => state'[timer[g]] = state[timer[g]]
        /\ \A t \in Timer : state'[t] # "free" => state'[t] = state[t] /\ t # timer[idx]
    BY <1>1, <1>2, DeinitStep
  <1>4. owner \in [Timer -> Tag] /\ armed \subseteq Tag
    BY DEF TypeOK
  <1>5. HandleInv'
    BY <1>1, <1>3 DEF TimerInv, HandleInv
  <1>6. RunningInv'
    BY <1>1, <1>3, <1>4 DEF TimerInv, RunningInv, Has
  <1>7. DormantInv'
    BY <1>1, <1>3 DEF TimerInv, DormantInv, Has
  <1>8. OverlapInv'
    BY <1>1 DEF TimerInv, OverlapInv
  <1>9. TimersInHand'
    BY <1>1, <1>3, <1>4 DEF TimerInv, TimersInHand
  <1>10. RemindersRun'
    <2>1. idx \notin armed \ overlap
      BY <1>1 DEF TimerInv, RunningInv, RemindersRun
    <2> QED
      BY <1>1, <1>3, <1>4, <2>1 DEF TimerInv, RemindersRun, Has
  <1> QED
    BY <1>5, <1>6, <1>7, <1>8, <1>9, <1>10 DEF TimerInv

LEMMA TimerCallback == TypeOK /\ TimerInv /\ PutdownTimeout => TimerInv'
  <1> SUFFICES ASSUME TypeOK, TimerInv, PutdownTimeout PROVE TimerInv'
    OBVIOUS
  <1>1. /\ hpc' = hpc /\ idx' = idx /\ due \in Tag /\ due' = due
        /\ owner' = owner /\ armed' = armed /\ overlap' = overlap
        /\ tpc = "callback" /\ tpc' # "callback" /\ idx \in Tag
    BY DEF PutdownTimeout, TypeOK
  <1>2. Deinit(due)
    BY DEF PutdownTimeout
  <1>3. /\ timer'[due] \notin Timer
        /\ \A g \in Tag \ {due} : timer'[g] = timer[g]
        /\ \A g \in Tag \ {due} : timer[g] \in Timer => state'[timer[g]] = state[timer[g]]
        /\ \A t \in Timer : state'[t] # "free" => state'[t] = state[t] /\ t # timer[due]
    BY <1>1, <1>2, DeinitStep
  <1>4. owner \in [Timer -> Tag] /\ armed \subseteq Tag
    BY DEF TypeOK
  <1>5. HandleInv'
    BY <1>1, <1>3 DEF TimerInv, HandleInv
  <1>6. RunningInv'
    <2>1. \A t \in Timer : state'[t] = "running" => timer'[owner'[t]] = t
      BY <1>1, <1>3, <1>4 DEF TimerInv, RunningInv
    <2>2. Has(idx, "running")' => Has(idx, "running")
      BY <1>1, <1>3 DEF Has
    <2> QED
      BY <1>1, <2>1, <2>2 DEF TimerInv, RunningInv
  <1>7. DormantInv'
    BY <1>1, <1>3 DEF TimerInv, DormantInv, Has
  <1>8. OverlapInv'
    BY <1>1 DEF OverlapInv
  <1>9. TimersInHand'
    BY <1>1, <1>3, <1>4 DEF TimerInv, TimersInHand
  <1>10. RemindersRun'
    <2>1. due \notin armed \ overlap
      BY <1>1 DEF TimerInv, OverlapInv
    <2> QED
      BY <1>1, <1>3, <1>4, <2>1 DEF TimerInv, RemindersRun, Has
  <1> QED
    BY <1>5, <1>6, <1>7, <1>8, <1>9, <1>10 DEF TimerInv

LEMMA TimerStop == TypeOK /\ TimerInv /\ StopTimer => TimerInv'
  <1> SUFFICES ASSUME TypeOK, TimerInv, StopTimer PROVE TimerInv'
    OBVIOUS
  <1>1. /\ hpc = "stop" /\ hpc' = "deinit" /\ idx' = idx /\ idx \in Tag
        /\ timer' = timer /\ owner' = owner /\ armed' = armed \ {idx}
        /\ overlap' = overlap /\ tpc' = tpc /\ due' = due
    BY DEF StopTimer, service, TypeOK
  <1>2. /\ timer \in [Tag -> Timer \cup {NoTimer}] /\ owner \in [Timer -> Tag]
        /\ state \in [Timer -> {"free", "dormant", "running"}] /\ armed \subseteq Tag
    BY DEF TypeOK
  <1>3. \A t \in Timer : t # timer[idx] => state'[t] = state[t]
    BY <1>2 DEF StopTimer, Has
  <1>4. timer[idx] \in Timer => state'[timer[idx]] \in {"free", "dormant"}
                                /\ (state'[timer[idx]] = "free" => state[timer[idx]] = "free")
    BY <1>2 DEF StopTimer, Has
  <1>5. \A g \in Tag \ {idx} : timer[g] \in Timer => timer[g] # timer[idx]
    BY <1>1 DEF TimerInv, HandleInv
  <1>6. HandleInv'
    BY <1>1, <1>3, <1>4 DEF TimerInv, HandleInv
  <1>7. RunningInv'
    BY <1>1, <1>3, <1>4 DEF TimerInv, RunningInv, Has
  <1>8. DormantInv'
    BY <1>1, <1>3, <1>5 DEF TimerInv, DormantInv, Has
  <1>9. OverlapInv'
    BY <1>1 DEF TimerInv, OverlapInv
  <1>10. TimersInHand'
    <2>1. \A t \in Timer : state'[t] # "free" => state[t] # "free" \/ t = timer[idx]
      BY <1>3
    <2>2. timer[idx] \in Timer => owner[timer[idx]] = idx
      BY <1>1 DEF TimerInv, HandleInv
    <2> QED
      BY <1>1, <2>1, <2>2 DEF TimerInv, TimersInHand
  <1>11. RemindersRun'
    BY <1>1, <1>2, <1>3, <1>5 DEF TimerInv, RemindersRun, Has
  <1> QED
    BY <1>6, <1>7, <1>8, <1>9, <1>10, <1>11 DEF TimerInv

LEMMA TimerArm == TypeOK /\ TimerInv /\ InitTimer => TimerInv'
  <1> SUFFICES ASSUME TypeOK, TimerInv, InitTimer PROVE TimerInv'
    OBVIOUS
  <1>1. /\ hpc = "init" /\ hpc' = "start" /\ idx' = idx /\ idx \in Tag
        /\ armed' = armed /\ tpc' = tpc /\ due' = due
        /\ overlap' = IF tpc = "callback" /\ due = idx THEN overlap \cup {idx} ELSE overlap
    BY DEF InitTimer, service, TypeOK
  <1>2. /\ timer \in [Tag -> Timer \cup {NoTimer}] /\ owner \in [Timer -> Tag]
        /\ state \in [Timer -> {"free", "dormant", "running"}] /\ armed \subseteq Tag
    BY DEF TypeOK
  <1>3. ~Has(idx, "running")
    BY <1>1 DEF TimerInv, RunningInv
  <1>4. overlap \subseteq overlap'
    BY <1>1
  <1>5. timer[idx] \in Timer => idx \in overlap'
    <2>1. timer[idx] \in Timer => state[timer[idx]] \in {"dormant", "running"}
      BY <1>1, <1>2 DEF TimerInv, HandleInv
    <2>2. timer[idx] \in Timer => tpc = "callback" /\ due = idx
      BY <1>1, <1>3, <2>1 DEF TimerInv, DormantInv, Has
    <2> QED
      BY <1>1, <2>2
  <1>6. OverlapInv'
    BY <1>1 DEF TimerInv, OverlapInv
  <1>7. idx \notin armed \ overlap
    BY <1>3 DEF TimerInv, RemindersRun
  <1>8. \A t \in Timer : state[t] = "running" => timer[owner[t]] = t /\ owner[t] # idx
    BY <1>1, <1>3 DEF TimerInv, RunningInv, Has
  <1>9. ASSUME NEW t \in Timer, state[t] = "free",
               state' = [state EXCEPT ![t] = "dormant"],
               owner' = [owner EXCEPT ![t] = idx],
               timer' = [timer EXCEPT ![idx] = t]
        PROVE  TimerInv'
    <2>1. \A g \in Tag \ {idx} : timer'[g] = timer[g] /\ (timer[g] \in Timer => timer[g] # t)
      BY <1>2, <1>9 DEF TimerInv, HandleInv
    <2>2. timer'[idx] = t /\ state'[t] = "dormant" /\ owner'[t] = idx
      BY <1>1, <1>2, <1>9
    <2>3. \A u \in Timer : u # t => state'[u] = state[u] /\ owner'[u] = owner[u]
      BY <1>2, <1>9
    <2>4. HandleInv'
      BY <2>1, <2>2, <2>3 DEF TimerInv, HandleInv
    <2>5. RunningInv'
      <3>1. \A u \in Timer : state'[u] = "running" => timer'[owner'[u]] = u
        BY <1>2, <1>8, <2>1, <2>2, <2>3
      <3>2. ~Has(idx, "running")'
        BY <1>1, <2>2 DEF Has
      <3> QED
        BY <3>1, <3>2 DEF RunningInv
    <2>6. DormantInv'
      BY <1>1, <2>1, <2>3 DEF TimerInv, DormantInv, Has
    <2>7. TimersInHand'
      BY <1>2, <1>4, <1>5, <2>1, <2>2, <2>3 DEF TimerInv, TimersInHand
    <2>8. RemindersRun'
      BY <1>1, <1>2, <1>4, <1>7, <2>1, <2>3 DEF TimerInv, RemindersRun, Has
    <2> QED
      BY <1>6, <2>4, <2>5, <2>6, <2>7, <2>8 DEF TimerInv
  <1>10. ASSUME timer' = [timer EXCEPT ![idx] = NoTimer], UNCHANGED <<state, owner>>
         PROVE  TimerInv'
    <2>1. \A g \in Tag \ {idx} : timer'[g] = timer[g]
      BY <1>2, <1>10
    <2>2. timer'[idx] \notin Timer
      BY <1>1, <1>2, <1>10, Constants
    <2>3. state' = state /\ owner' = owner
      BY <1>10
    <2>4. HandleInv'
      BY <2>1, <2>2, <2>3 DEF TimerInv, HandleInv
    <2>5. RunningInv'
      BY <1>1, <1>2, <1>8, <2>1, <2>2, <2>3 DEF RunningInv, Has
    <2>6. DormantInv'
      BY <1>1, <2>1, <2>2, <2>3 DEF TimerInv, DormantInv, Has
    <2>7. TimersInHand'
      BY <1>2, <1>4, <1>5, <2>1, <2>3 DEF TimerInv, TimersInHand
    <2>8. RemindersRun'
      BY <1>1, <1>2, <1>4, <1>7, <2>1, <2>3 DEF TimerInv, RemindersRun, Has
    <2> QED
      BY <1>6, <2>4, <2>5, <2>6, <2>7, <2>8 DEF TimerInv
  <1> QED
    BY <1>9, <1>10 DEF InitTimer

LEMMA TimerStart == TypeOK /\ TimerInv /\ StartTimer => TimerInv'
  <1> SUFFICES ASSUME TypeOK, TimerInv, StartTimer PROVE TimerInv'
    OBVIOUS
  <1>1. /\ hpc = "start" /\ idx \in Tag /\ timer' = timer /\ owner' = owner
        /\ overlap' = overlap /\ tpc' = tpc /\ due' = due
    BY DEF StartTimer, service, TypeOK
  <1>2. hpc' \in {"tag", "getup"}
    BY <1>1, AdvanceType DEF StartTimer
  <1>3. /\ timer \in [Tag -> Timer \cup {NoTimer}] /\ owner \in [Timer -> Tag]
        /\ state \in [Timer -> {"free", "dormant", "running"}] /\ armed \subseteq Tag
    BY DEF TypeOK
  <1>4. CASE Has(idx, "dormant")
    <2>1. /\ timer[idx] \in Timer /\ owner[timer[idx]] = idx
          /\ armed' = armed \cup {idx} /\ state' = [state EXCEPT ![timer[idx]] = "running"]
      BY <1>1, <1>4 DEF StartTimer, Has, TimerInv, HandleInv
    <2>2. state'[timer[idx]] = "running" /\ \A t \in Timer : t # timer[idx] => state'[t] = state[t]
      BY <1>3, <2>1
    <2>3. \A g \in Tag \ {idx} : timer[g] \in Timer => timer[g] # timer[idx]
      BY <2>1 DEF TimerInv, HandleInv
    <2>4. HandleInv'
      BY <1>1, <2>1, <2>2 DEF TimerInv, HandleInv
    <2>5. RunningInv'
      BY <1>1, <1>2, <2>1, <2>2 DEF TimerInv, RunningInv
    <2>6. DormantInv'
      BY <1>1, <2>2, <2>3 DEF TimerInv, DormantInv, Has
    <2>7. OverlapInv'
      BY <1>1, <1>2, <2>1 DEF TimerInv, OverlapInv
    <2>8. TimersInHand'
      BY <1>1, <2>1, <2>2 DEF TimerInv, TimersInHand
    <2>9. RemindersRun'
      BY <1>1, <1>3, <2>1, <2>2, <2>3 DEF TimerInv, RemindersRun, Has
    <2> QED
      BY <2>4, <2>5, <2>6, <2>7, <2>8, <2>9 DEF TimerInv
  <1>5. CASE ~Has(idx, "dormant")
    <2>1. armed' = armed /\ state' = state
      BY <1>5 DEF StartTimer
    <2>2. HandleInv' /\ TimersInHand' /\ RemindersRun'
      BY <1>1, <2>1 DEF TimerInv, HandleInv, TimersInHand, RemindersRun, Has
    <2>3. RunningInv' /\ DormantInv' /\ OverlapInv'
      BY <1>1, <1>2, <1>5, <2>1 DEF TimerInv, RunningInv, DormantInv, OverlapInv, Has
    <2> QED
      BY <2>2, <2>3 DEF TimerInv
  <1> QED
    BY <1>4, <1>5

LEMMA TimerExpires ==
    ASSUME TypeOK, TimerInv, NEW t \in Timer, Expire(t)
    PROVE  TimerInv'
  <1>1. /\ hpc' = hpc /\ idx' = idx /\ timer' = timer /\ owner' = owner /\ overlap' = overlap
        /\ tpc' = "callback" /\ due' = owner[t] /\ armed' = armed \ {owner[t]}
        /\ state[t] = "running" /\ tpc = "idle" /\ idx \in Tag
    BY DEF Expire, TypeOK
  <1>2. /\ timer \in [Tag -> Timer \cup {NoTimer}] /\ owner \in [Timer -> Tag]
        /\ state \in [Timer -> {"free", "dormant", "running"}] /\ armed \subseteq Tag
    BY DEF TypeOK
  <1>3. state'[t] = "dormant" /\ \A u \in Timer : u # t => state'[u] = state[u]
    BY <1>2 DEF Expire
  <1>4. timer[owner[t]] = t
    BY <1>1 DEF TimerInv, RunningInv
  <1>5. \A g \in Tag : timer[g] = t => g = owner[t]
    BY DEF TimerInv, HandleInv
  <1>6. HandleInv'
    BY <1>1, <1>3 DEF TimerInv, HandleInv
  <1>7. RunningInv'
    <2>1. \A u \in Timer : state'[u] = "running" => timer'[owner'[u]] = u
      BY <1>1, <1>3 DEF TimerInv, RunningInv
    <2>2. Has(idx, "running")' => Has(idx, "running")
      BY <1>1, <1>3 DEF Has
    <2> QED
      BY <1>1, <2>1, <2>2 DEF TimerInv, RunningInv
  <1>8. DormantInv'
    BY <1>1, <1>3, <1>5 DEF TimerInv, DormantInv, Has
  <1>9. OverlapInv'
    <2>1. hpc = "start" => owner[t] # idx
      BY <1>1, <1>4 DEF TimerInv, RunningInv, Has
    <2> QED
      BY <1>1, <2>1 DEF OverlapInv
  <1>10. TimersInHand'
    BY <1>1, <1>3, <1>4 DEF TimerInv, TimersInHand
  <1>11. RemindersRun'
    BY <1>1, <1>2, <1>3, <1>5 DEF TimerInv, RemindersRun, Has
  <1> QED
    BY <1>6, <1>7, <1>8, <1>9, <1>10, <1>11 DEF TimerInv

LEMMA TimerStep == TypeOK /\ TimerInv /\ [Next]_vars => TimerInv'
  <1> SUFFICES ASSUME TypeOK, TimerInv, [Next]_vars PROVE TimerInv'
    OBVIOUS
  <1>1. CASE KEY_irq_handler \/ Configure
    <2>1. UNCHANGED <<timerVars, service>> /\ hpc' = hpc /\ idx' = idx
      BY <1>1 DEF KEY_irq_handler, Configure
    <2> QED
      BY <2>1, TimerFrame
  <1>2. CASE Pick \/ IsPickupSetting \/ FindPickupTrack \/ PickPlayed \/ Signalled
             \/ TimedOut \/ PutDown \/ IsPutDownSetting \/ DelayedTag
    <2>1. /\ UNCHANGED <<timerVars, service>> /\ idx' = idx
          /\ hpc \notin {"deinit", "start"} /\ hpc' \notin {"deinit", "init", "start"}
      BY <1>2 DEF Pick, IsPickupSetting, FindPickupTrack, PickPlayed, Signalled, TimedOut,
                  PutDown, IsPutDownSetting, DelayedTag
    <2> QED
      BY <2>1, TimerFrame
  <1>3. CASE NextTag
    <2>1. UNCHANGED <<timerVars, service>> /\ hpc = "tag" /\ hpc' \in {"tag", "getup"}
      BY <1>3, AdvanceType DEF NextTag, TypeOK
    <2> QED
      BY <2>1, TimerFrame
  <1>4. CASE IsTimerRunning
    <2>1. UNCHANGED <<timerVars, service>> /\ idx' = idx /\ hpc = "running"
      BY <1>4 DEF IsTimerRunning
    <2>2. hpc' \in {"stop", "init"}
      BY <1>4 DEF IsTimerRunning
    <2>3. hpc' = "init" => ~Has(idx, "running")
      BY <1>4 DEF IsTimerRunning
    <2>4. hpc' \in {"deinit", "init", "start"} => hpc' = hpc \/ ~Has(idx, "running")
      BY <2>2, <2>3
    <2>5. (hpc \in {"deinit", "start"} => hpc' = hpc) /\ (hpc' = "start" => hpc = "start")
      BY <2>1, <2>2
    <2> QED
      BY <2>1, <2>4, <2>5, TimerFrame
  <1>5. CASE TimeoutPlayed \/ ScheduleTimeout \/ SchedulePlayed
    <2>1. /\ hpc' = hpc /\ idx' = idx /\ timer' = timer /\ owner' = owner /\ state' = state
          /\ armed' = armed /\ overlap' = overlap /\ due' = due
          /\ tpc # "callback" /\ tpc' # "callback"
      BY <1>5 DEF TimeoutPlayed, ScheduleTimeout, SchedulePlayed, timerVars
    <2>2. HandleInv' /\ TimersInHand'
      BY <2>1 DEF TimerInv, HandleInv, TimersInHand
    <2>4. RunningInv' /\ RemindersRun'
      BY <2>1 DEF TimerInv, RunningInv, RemindersRun, Has
    <2>3. DormantInv' /\ OverlapInv'
      BY <2>1 DEF TimerInv, DormantInv, OverlapInv, Has
    <2> QED
      BY <2>2, <2>3, <2>4 DEF TimerInv
  <1>6. CASE UNCHANGED vars
    <2>1. UNCHANGED <<timerVars, service>> /\ hpc' = hpc /\ idx' = idx
      BY <1>6 DEF vars
    <2> QED
      BY <2>1, TimerFrame
  <1> QED
    BY <1>1, <1>2, <1>3, <1>4, <1>5, <1>6, TimerStop, TimerDeinit, TimerArm, TimerStart,
       TimerExpires, TimerCallback DEF Next, HealthThread, TimerService

(* However often the cup is put down and whatever the callbacks do, at     *)
(* most one reminder of a tag is under way (HealthMonitor.c:262-272).      *)
THEOREM AtMostOneReminderHolds == Spec => []AtMostOneReminder
  <1>1. TimerInv => AtMostOneReminder
    BY DEF TimerInv, RunningInv, AtMostOneReminder
  <1> QED
    BY <1>1, TypeInit, TypeStep, TimerInit, TimerStep, PTL DEF Spec

(* A timer leaks only if its tag was armed during a callback of the tag    *)
(* (HealthMonitor.c:268 and 281).                                          *)
THEOREM TimersInHandHolds == Spec => []TimersInHand
  <1>1. TimerInv => TimersInHand
    BY DEF TimerInv
  <1> QED
    BY <1>1, TypeInit, TypeStep, TimerInit, TimerStep, PTL DEF Spec

(* A started reminder runs until it comes or a put-down resets it, unless  *)
(* its tag was armed during a callback of the tag.                         *)
THEOREM RemindersRunHolds == Spec => []RemindersRun
  <1>1. TimerInv => RemindersRun
    BY DEF TimerInv
  <1> QED
    BY <1>1, TypeInit, TypeStep, TimerInit, TimerStep, PTL DEF Spec

-----------------------------------------------------------------------------
(* Do-not-disturb.                                                         *)

(* An interval and the one from its end to its beginning share no minute   *)
(* and leave none out: the arithmetic across midnight is right, whichever  *)
(* of the two is the one that wraps (HealthMonitor.c:171-203).             *)
THEOREM IntervalsComplement ==
    ASSUME NEW s \in Minute, NEW e \in Minute, s # e, NEW c \in Minute
    PROVE  NoDisturbing(TRUE, s, e, c) <=> ~NoDisturbing(TRUE, e, s, c)
  BY DEF NoDisturbing, Minute

(* The first and the last minute of an interval are quiet if and only if   *)
(* it goes past midnight, and an interval whose ends are equal, which may  *)
(* be meant as the whole day, is never quiet (HealthMonitor.c:171-203).    *)
THEOREM IntervalEnds ==
    ASSUME NEW s \in Minute, NEW e \in Minute
    PROVE  /\ NoDisturbing(TRUE, s, e, s) <=> s > e
           /\ NoDisturbing(TRUE, s, e, e) <=> s > e
           /\ \A c \in Minute : ~NoDisturbing(TRUE, s, s, c)
  BY DEF NoDisturbing, Minute
=============================================================================

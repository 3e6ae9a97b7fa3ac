----------------------------- MODULE CupMonitor -----------------------------
(***************************************************************************)
(* Lifting the cup and putting it down.  KEY_irq_handler signals every     *)
(* edge of the key through one semaphore.  health_thread waits in turn for *)
(* a semaphore nobody signals and for that one, and does its work when a   *)
(* wait TIMES OUT: in the first branch a change of the key counts as a     *)
(* drink, in the second as a put-down, which arms the reminders.           *)
(*                                                                         *)
(* A reminder is a one-shot timer in putdown_timer[tag].  Its callback     *)
(* runs in the timer service, which health_thread does not wait for, and   *)
(* user_downstream_thread reconfigures tags at any time.  Timers are       *)
(* objects of the RTOS's heap: initialising one may fail, and one that is  *)
(* overwritten in putdown_timer stays there for ever.  The service also    *)
(* runs, every minute, the callbacks of the schedule, whose songs it waits *)
(* for.                                                                    *)
(***************************************************************************)
EXTENDS Naturals, FiniteSets

CONSTANTS
    Depth,      (* MAX_DEPTH_PICKUP                                          *)
    Tags,       (* MAX_DEPTH_PUTDOWN                                         *)
    Minutes,    (* minutes in a day                                          *)
    Timer,      (* the timers the heap has memory for                        *)
    NoTimer     (* a null handle                                             *)

Pickup == 0 .. Depth - 1
Tag    == 0 .. Tags - 1
Minute == 0 .. Minutes - 1

ASSUME CupAssumption ==
    /\ Depth \in Nat \ {0}
    /\ Tags \in Nat \ {0}
    /\ Minutes \in Nat \ {0}
    /\ IsFiniteSet(Timer)
    /\ NoTimer \notin Timer

VARIABLES
    key,          (* the level of the key, TRUE is KEY_UP                    *)
    putdown,      (* semaphore_putdown                                       *)
    cup,          (* cup_status                                              *)
    stamp,        (* what the last change was recorded as                    *)
    hpc, idx,     (* health_thread: control, idx of startPutDownTimerGroup   *)
    pick,         (* GetPickUpEnable of each entry                           *)
    count,        (* count of FindPickupTrack                                *)
    tags,         (* per put-down tag: "off", or enabled with no delay
                     ("now") or some ("later")                               *)
    timer,        (* putdown_timer[tag].timer: the handle, or NoTimer        *)
    owner, state, (* the timers of the RTOS: the tag their callback gets, and
                     "free", "dormant" or "running"                          *)
    tpc, due,     (* timer service: control, the tag its callback got        *)
    armed,        (* history: tags whose reminder was started, and neither
                     came nor was reset since                                *)
    overlap       (* history: tags that were armed during a callback         *)

keyVars    == <<key, putdown>>
timerVars  == <<timer, owner, state, armed, overlap>>
service    == <<tpc, due>>
config     == <<pick, tags>>
vars == <<keyVars, cup, stamp, hpc, idx, config, count, timerVars, service>>

Init ==
    /\ key \in BOOLEAN
    /\ putdown \in BOOLEAN
    /\ cup = key
    /\ stamp = "none"
    /\ hpc = "getup" /\ idx = 0
    /\ pick \in [Pickup -> BOOLEAN]
    /\ count = 0
    /\ tags \in [Tag -> {"off", "now", "later"}]
    /\ timer = [t \in Tag |-> NoTimer]
    /\ owner = [t \in Timer |-> 0]
    /\ state = [t \in Timer |-> "free"]
    /\ tpc = "idle" /\ due = 0
    /\ armed = {}
    /\ overlap = {}

-----------------------------------------------------------------------------
(* The key changes; the handler signals the semaphore, whatever the level. *)
KEY_irq_handler ==
    /\ key' = ~key
    /\ putdown' = TRUE
    /\ UNCHANGED <<cup, stamp, hpc, idx, config, count, timerVars, service>>

(* A message enables, disables or changes an entry.                        *)
Configure ==
    /\ \/ \E i \in Pickup : pick' = [pick EXCEPT ![i] = ~pick[i]] /\ UNCHANGED tags
       \/ \E t \in Tag, c \in {"off", "now", "later"} :
            tags' = [tags EXCEPT ![t] = c] /\ UNCHANGED pick
    /\ UNCHANGED <<keyVars, cup, stamp, hpc, idx, count, timerVars, service>>

-----------------------------------------------------------------------------
(* health_thread, first branch: the wait for semaphore_getup timed out.    *)

Pick ==
    /\ hpc = "getup"
    /\ cup' = key
    /\ IF cup # key
         THEN stamp' = "drink" /\ hpc' = "disturb"
         ELSE UNCHANGED stamp /\ hpc' = "wait"
    /\ UNCHANGED <<keyVars, idx, config, count, timerVars, service>>

(* The switch, the interval (which may go past midnight) and the clock.    *)
NoDisturbing(on, starting, ending, current) ==
    /\ on
    /\ IF starting > ending
       THEN ~(ending < current /\ current < starting)
       ELSE starting < current /\ current < ending

(* What it may return: a message may have set anything between two reads.  *)
Disturbing ==
    {NoDisturbing(on, s, e, c) : on \in BOOLEAN, s \in Minute, e \in Minute, c \in Minute}

IsPickupSetting ==
    /\ hpc = "disturb"
    /\ \E quiet \in Disturbing :
          hpc' = IF ~quiet /\ (\E i \in Pickup : pick[i]) THEN "find" ELSE "wait"
    /\ UNCHANGED <<keyVars, cup, stamp, idx, config, count, timerVars, service>>

(* Mutant: the search goes past the last entry. *)
FindPickupTrackOn ==
    /\ hpc = "find"
    /\ count' = count + 1
    /\ hpc' = IF pick[count] THEN "play" ELSE "find"
    /\ UNCHANGED <<keyVars, cup, stamp, idx, config, timerVars, service>>

(* Mutant: the search does not pass over a disabled entry. *)
FindPickupTrackStays ==
    /\ hpc = "find"
    /\ count' = IF pick[count] THEN (count + 1) % Depth ELSE count
    /\ hpc' = IF pick[count] THEN "play" ELSE "find"
    /\ UNCHANGED <<keyVars, cup, stamp, idx, config, timerVars, service>>

(* FindPickupTrack takes the next enabled entry in turn, and PlayingSong   *)
(* has the song played.                                                    *)
FindPickupTrack ==
    /\ hpc = "find"
    /\ count' = (count + 1) % Depth
    /\ hpc' = IF pick[count] THEN "play" ELSE "find"
    /\ UNCHANGED <<keyVars, cup, stamp, idx, config, timerVars, service>>

PickPlayed ==
    /\ hpc = "play"
    /\ hpc' = "wait"
    /\ UNCHANGED <<keyVars, cup, stamp, idx, config, count, timerVars, service>>

(* Mutant: the branch is entered with the signal. *)
SignalledEnters ==
    /\ hpc = "wait"
    /\ putdown
    /\ putdown' = FALSE
    /\ hpc' = "put"
    /\ UNCHANGED <<key, cup, stamp, idx, config, count, timerVars, service>>

(* Second branch: the wait for semaphore_putdown.  With a signal there is  *)
(* nothing to do, without one it times out.                                *)
Signalled ==
    /\ hpc = "wait"
    /\ putdown
    /\ putdown' = FALSE
    /\ hpc' = "getup"
    /\ UNCHANGED <<key, cup, stamp, idx, config, count, timerVars, service>>

TimedOut ==
    /\ hpc = "wait"
    /\ ~putdown
    /\ hpc' = "put"
    /\ UNCHANGED <<keyVars, cup, stamp, idx, config, count, timerVars, service>>

PutDown ==
    /\ hpc = "put"
    /\ cup' = key
    /\ IF cup # key
         THEN stamp' = "putdown" /\ hpc' = "setting"
         ELSE UNCHANGED stamp /\ hpc' = "getup"
    /\ UNCHANGED <<keyVars, idx, config, count, timerVars, service>>

IsPutDownSetting ==
    /\ hpc = "setting"
    /\ \E quiet \in Disturbing :
          hpc' = IF ~quiet /\ (\E t \in Tag : tags[t] # "off") THEN "tag" ELSE "getup"
    /\ UNCHANGED <<keyVars, cup, stamp, idx, config, count, timerVars, service>>

-----------------------------------------------------------------------------
(* startPutDownTimerGroup, tag idx.                                        *)

Advance ==
    IF idx + 1 < Tags THEN idx' = idx + 1 /\ hpc' = "tag"
                      ELSE idx' = 0 /\ hpc' = "getup"

(* A disabled tag is passed over; so is, when its song found a place, one  *)
(* without delay.                                                          *)
NextTag ==
    /\ hpc = "tag"
    /\ tags[idx] # "later"
    /\ Advance
    /\ UNCHANGED <<keyVars, cup, stamp, config, count, timerVars, service>>

DelayedTag ==
    /\ hpc = "tag"
    /\ tags[idx] = "later"
    /\ hpc' = "running"
    /\ UNCHANGED <<keyVars, cup, stamp, idx, config, count, timerVars, service>>

(* The timer whose handle the tag has is running, or not.                  *)
Has(tag, what) == timer[tag] \in Timer /\ state[timer[tag]] = what

(* Mutant: a put-down does not look at the reminders of the last one. *)
IsTimerRunningNot ==
    /\ hpc = "running"
    /\ hpc' = "init"
    /\ UNCHANGED <<keyVars, cup, stamp, idx, config, count, timerVars, service>>

IsTimerRunning ==
    /\ hpc = "running"
    /\ hpc' = IF Has(idx, "running") THEN "stop" ELSE "init"
    /\ UNCHANGED <<keyVars, cup, stamp, idx, config, count, timerVars, service>>

StopTimer ==
    /\ hpc = "stop"
    /\ state' = IF Has(idx, "running") THEN [state EXCEPT ![timer[idx]] = "dormant"]
                                       ELSE state
    /\ armed' = armed \ {idx}
    /\ hpc' = "deinit"
    /\ UNCHANGED <<keyVars, cup, stamp, idx, config, count, timer, owner, overlap,
                   service>>

(* mico_deinit_timer on the handle of a tag: the timer it denotes goes.    *)
Deinit(tag) ==
    /\ state' = IF timer[tag] \in Timer THEN [state EXCEPT ![timer[tag]] = "free"]
                                        ELSE state
    /\ timer' = [timer EXCEPT ![tag] = NoTimer]

(* Mutant: a timer is stopped, and not given back. *)
DeinitTimerNot ==
    /\ hpc = "deinit"
    /\ hpc' = "init"
    /\ UNCHANGED <<keyVars, cup, stamp, idx, config, count, timerVars, service>>

DeinitTimer ==
    /\ hpc = "deinit"
    /\ Deinit(idx)
    /\ hpc' = "init"
    /\ UNCHANGED <<keyVars, cup, stamp, idx, config, count, owner, armed, overlap,
                   service>>

(* mico_init_timer overwrites the handle; without memory it is null.       *)
InitTimer ==
    /\ hpc = "init"
    /\ \/ \E t \in Timer :
            /\ state[t] = "free"
            /\ state' = [state EXCEPT ![t] = "dormant"]
            /\ owner' = [owner EXCEPT ![t] = idx]
            /\ timer' = [timer EXCEPT ![idx] = t]
       \/ /\ timer' = [timer EXCEPT ![idx] = NoTimer]
          /\ UNCHANGED <<state, owner>>
    /\ overlap' = IF tpc = "callback" /\ due = idx THEN overlap \cup {idx} ELSE overlap
    /\ hpc' = "start"
    /\ UNCHANGED <<keyVars, cup, stamp, idx, config, count, armed, service>>

StartTimer ==
    /\ hpc = "start"
    /\ IF Has(idx, "dormant")
         THEN state' = [state EXCEPT ![timer[idx]] = "running"] /\ armed' = armed \cup {idx}
         ELSE UNCHANGED <<state, armed>>
    /\ Advance
    /\ UNCHANGED <<keyVars, cup, stamp, config, count, timer, owner, overlap, service>>

HealthThread ==
    \/ Pick \/ IsPickupSetting \/ FindPickupTrack \/ PickPlayed
    \/ Signalled \/ TimedOut \/ PutDown \/ IsPutDownSetting
    \/ NextTag \/ DelayedTag
    \/ IsTimerRunning \/ StopTimer \/ DeinitTimer \/ InitTimer \/ StartTimer

-----------------------------------------------------------------------------
(* The timer service: a timer expires and its callback runs.               *)

Expire(t) ==
    /\ tpc = "idle"
    /\ state[t] = "running"
    /\ state' = [state EXCEPT ![t] = "dormant"]
    /\ due' = owner[t]
    /\ tpc' = "callback"
    /\ armed' = armed \ {owner[t]}
    /\ UNCHANGED <<keyVars, cup, stamp, hpc, idx, config, count, timer, owner, overlap>>

PutdownTimeout ==
    /\ tpc = "callback"
    /\ Deinit(due)
    /\ tpc' = IF tags[due] = "off" THEN "idle" ELSE "play"
    /\ UNCHANGED <<keyVars, cup, stamp, hpc, idx, config, count, owner, armed, overlap,
                   due>>

(* Mutant: the timer is given back after the song instead of before it. *)
TimeoutPlayedDeinits ==
    /\ tpc = "play"
    /\ Deinit(due)
    /\ tpc' = "idle"
    /\ UNCHANGED <<keyVars, cup, stamp, hpc, idx, config, count, owner, armed, overlap,
                   due>>

(* PlayingSong found a place for the song.                                 *)
TimeoutPlayed ==
    /\ tpc = "play"
    /\ tpc' = "idle"
    /\ UNCHANGED <<keyVars, cup, stamp, hpc, idx, config, count, timerVars, due>>

(* A schedule's timer, every minute: from the time it is set to until      *)
(* midnight the callback plays its song as often as it is set to, whether  *)
(* the schedule is enabled or not.  The settings may be any.               *)
ScheduleTimeout ==
    /\ tpc = "idle"
    /\ \E remind \in Minute, current \in Minute, times \in {0, 1} :
          tpc' = IF current < remind \/ times = 0 THEN "idle" ELSE "schedule"
    /\ UNCHANGED <<keyVars, cup, stamp, hpc, idx, config, count, timerVars, due>>

(* A song found a place; it was the last, or not.                          *)
SchedulePlayed ==
    /\ tpc = "schedule"
    /\ tpc' \in {"schedule", "idle"}
    /\ UNCHANGED <<keyVars, cup, stamp, hpc, idx, config, count, timerVars, due>>

TimerService ==
    \/ \E t \in Timer : Expire(t)
    \/ PutdownTimeout \/ TimeoutPlayed
    \/ ScheduleTimeout \/ SchedulePlayed

Next == KEY_irq_handler \/ Configure \/ HealthThread \/ TimerService

Spec == Init /\ [][Next]_vars

(* health_thread runs: waits time out, and songs find their place (Music). *)
FairSpec == Spec /\ WF_vars(HealthThread) /\ WF_vars(TimerService)
-----------------------------------------------------------------------------
(* The type of the state: the search of FindPickupTrack stays within its   *)
(* entries, the put-down loop within its tags.                             *)
TypeOK ==
    /\ key \in BOOLEAN
    /\ putdown \in BOOLEAN
    /\ cup \in BOOLEAN
    /\ stamp \in {"none", "drink", "putdown"}
    /\ hpc \in {"getup", "disturb", "find", "play", "wait", "put", "setting", "tag",
                "running", "stop", "deinit", "init", "start"}
    /\ idx \in Tag
    /\ pick \in [Pickup -> BOOLEAN]
    /\ count \in Pickup
    /\ tags \in [Tag -> {"off", "now", "later"}]
    /\ timer \in [Tag -> Timer \cup {NoTimer}]
    /\ owner \in [Timer -> Tag]
    /\ state \in [Timer -> {"free", "dormant", "running"}]
    /\ tpc \in {"idle", "callback", "play", "schedule"}
    /\ due \in Tag
    /\ armed \subseteq Tag
    /\ overlap \subseteq Tag

(* After the wait for the put-down semaphore timed out, health_thread can  *)
(* find the key changed only if an edge came since: whatever happened      *)
(* earlier was counted as a drink or will be (HealthMonitor.c:97-100).     *)
PutDownOnlyInWindow == hpc = "put" /\ ~putdown => cup = key

(* However often the cup is put down, at most one reminder of a tag is     *)
(* under way ("reset last timers", HealthMonitor.c:262).                   *)
AtMostOneReminder ==
    \A t, u \in Timer :
        state[t] = "running" /\ state[u] = "running" /\ owner[t] = owner[u] => t = u

(* No timer is leaked, unless its tag was armed during a callback: each    *)
(* that exists is the one in putdown_timer.                                *)
TimersInHand ==
    \A t \in Timer : state[t] # "free" => timer[owner[t]] = t \/ owner[t] \in overlap

(* A reminder that was started runs until it comes or a put-down resets    *)
(* it, unless its tag was armed during a callback.                         *)
RemindersRun == \A tag \in armed \ overlap : Has(tag, "running")

(* When the key rests, health_thread gets to know its level, whatever it   *)
(* is waiting for, if only one pick-up entry stays enabled for the search  *)
(* of FindPickupTrack to end.                                              *)
FollowsKey ==
    \A level \in BOOLEAN, i \in Pickup :
        <>[](key = level /\ pick[i]) => <>[](cup = level)
=============================================================================

----------------------------- MODULE FogService -----------------------------
(***************************************************************************)
(* Who owns the cup.  fogcloud_main_thread starts the cloud service and,   *)
(* unless the cup is bound to an owner, the config server; then it         *)
(* activates the cup with the MAC address as the user token until the      *)
(* cloud accepts.  A phone connects to the config server, which gives each *)
(* connection a thread, and activates the cup again with its own token     *)
(* (/dev-activate), authorizes another user (/dev-authorize) or resets the *)
(* cup (/dev-cloud_reset).  All of them put their token in the one         *)
(* easyCloudContext, ask the cloud, and save what easyCloudContext holds   *)
(* afterwards.                                                             *)
(*                                                                         *)
(* A connection stands for its phone and for the token the phone sends.    *)
(* The settings are those in RAM, which change only together with a save   *)
(* (module ParaStore has the save).  Left out: device_need_delete, which   *)
(* nothing in the repository sets, the requests for state and firmware     *)
(* (module FirmwareUpdate has the latter), and the queue and mutex of the  *)
(* received messages (module FogMsgQueue).                                 *)
(***************************************************************************)
EXTENDS Naturals, FiniteSets

CONSTANTS
    Conn,          (* connections of phones, and the phones' tokens           *)
    Main,          (* fogcloud_main_thread                                    *)
    Mac,           (* the MAC address, its token                              *)
    NoOne,         (* no token, no connection                                 *)
    MaxAdrift,     (* exploration bound: requests given up that the cloud may *)
                   (* yet take                                                *)
    MaxRestarts    (* exploration bound: power failures                       *)

ASSUME FogServiceAssumption ==
    /\ Main \notin Conn
    /\ Mac \notin Conn /\ NoOne \notin Conn /\ Mac # NoOne
    /\ MaxAdrift \in Nat /\ MaxRestarts \in Nat

Token  == Conn \cup {Mac, NoOne}
Thread == Conn \cup {Main}          (* a client's thread is named after the   *)
                                    (* connection it was created for          *)

VARIABLES
    owner,         (* the cloud: the token of what it took last               *)
    adrift,        (* requests given up that the cloud may yet take           *)
    token,         (* easyCloudContext.service_config_info                    *)
    config,        (* fogcloudConfig, in RAM and in flash                     *)
    pc,            (* per thread: its control                                 *)
    sent,          (* per thread: the token in its request under way          *)
    fd,            (* per client's thread: the connection it serves           *)
    conn,          (* per connection: "new", "open", "read" or "closed"       *)
    listener,      (* the config server's control                             *)
    slot,          (* j: the descriptor accepted last                         *)
    running,       (* fog_config_server_running                               *)
    restarts,
    met,           (* history: activations that met another request           *)
    stale,         (* history: those whose token was replaced after they sent *)
                   (* it                                                      *)
    missed,        (* history: connections whose thread could not be created  *)
                   (* or had not read slot when the next one came             *)
    blame          (* history: what has parted the settings from the cloud    *)
                   (* since an activation last ran alone                      *)

server == <<conn, listener, slot, running, missed>>
cloud  == <<owner, adrift>>
ask    == <<sent, stale>>
vars == <<cloud, token, config, pc, ask, fd, restarts, met, blame, server>>

Unbound == [activated |-> FALSE, bound |-> FALSE, token |-> NoOne]

Init ==
    /\ owner = NoOne /\ adrift = {}
    /\ token = NoOne
    /\ config = Unbound
    /\ pc = [t \in Thread |-> IF t = Main THEN "start" ELSE "none"]
    /\ sent = [t \in Thread |-> NoOne]
    /\ fd = [c \in Conn |-> NoOne]
    /\ conn = [c \in Conn |-> "new"]
    /\ listener = "off"
    /\ slot = NoOne
    /\ running = TRUE
    /\ restarts = 0
    /\ met = {} /\ stale = {} /\ missed = {} /\ blame = {}

Goto(t, l) == pc' = [pc EXCEPT ![t] = l]

Activating == {t \in Thread : pc[t] \in {"request", "sent", "accepted"}}
Others     == {t \in Thread : pc[t] \in {"authorize", "reset", "erase"}}
Binding    == {t \in Thread : pc[t] \in {"stop", "bind"}}

(* Requests that the cup gives up, up to the bound, may be taken later.    *)
GiveAway(K) ==
    adrift' = IF Cardinality(adrift \cup K) <= MaxAdrift THEN adrift \cup K ELSE adrift

(* The token of the context is replaced: requests under way have the old.  *)
Replace(k) ==
    /\ token' = k
    /\ stale' = stale \cup {t \in Thread : pc[t] = "sent"}

-----------------------------------------------------------------------------
(* fogCloudDevActivate, for the main thread and for clients: put the token *)
(* in the shared context ...                                               *)

SetToken(t, k) ==
    /\ Replace(k)
    /\ Goto(t, "request")
    /\ met' = IF Activating \cup Others = {} THEN met ELSE met \cup Activating \cup {t}
    /\ blame' = IF Others = {} THEN blame ELSE blame \cup {"apart"}

(* ... send the token that is there by now ...                             *)
Send(t) ==
    /\ pc[t] = "request"
    /\ sent' = [sent EXCEPT ![t] = token]
    /\ Goto(t, "sent")
    /\ UNCHANGED <<cloud, token, config, stale, fd, restarts, met, blame, server>>

(* ... have the cloud take it, which may be in another order ...           *)
Accepted(t) ==
    /\ pc[t] = "sent"
    /\ owner' = sent[t]
    /\ sent' = [sent EXCEPT ![t] = NoOne]
    /\ stale' = stale \ {t}
    /\ blame' = IF t \in stale THEN blame \cup {"late"} ELSE blame \ {"late"}
    /\ Goto(t, "accepted")
    /\ UNCHANGED <<adrift, token, config, fd, restarts, met, server>>

(* Mutant: a request that failed is taken for accepted. *)
RequestFailsSaves(t) ==
    /\ pc[t] = "sent"
    /\ Goto(t, "accepted")
    /\ sent' = [sent EXCEPT ![t] = NoOne]
    /\ stale' = stale \ {t}
    /\ UNCHANGED <<cloud, token, config, fd, restarts, met, blame, server>>

(* Mutant: the main thread binds the cup like a client. *)
SaveBinds(t) ==
    /\ pc[t] = "accepted"
    /\ config' = [config EXCEPT !.activated = TRUE, !.token = token]
    /\ Goto(t, "stop")
    /\ met' = met \ {t}
    /\ blame' = IF t \in met THEN blame ELSE {}
    /\ UNCHANGED <<cloud, token, ask, fd, restarts, server>>

(* ... unless the request fails, which the cloud may yet take, or the      *)
(* answer is lost ...                                                      *)
RequestFails(t) ==
    /\ pc[t] \in {"sent", "accepted"}
    /\ Goto(t, IF t = Main THEN "test" ELSE "fail")
    /\ GiveAway(IF pc[t] = "sent" THEN {sent[t]} ELSE {})
    /\ sent' = [sent EXCEPT ![t] = NoOne]
    /\ stale' = stale \ {t}
    /\ met' = met \ {t}
    /\ blame' = IF t \in met \/ pc[t] = "accepted" THEN blame \cup {"apart"} ELSE blame
    /\ UNCHANGED <<owner, token, config, fd, restarts, server>>

(* ... and save the token that is in the context then.  The save may fail. *)
Save(t) ==
    /\ pc[t] = "accepted"
    /\ config' = [config EXCEPT !.activated = TRUE, !.token = token]
    /\ \E l \in {"test", "stop", "fail"} :
          /\ l = "test" <=> t = Main
          /\ Goto(t, l)
    /\ met' = met \ {t}
    /\ blame' = IF t \in met THEN blame ELSE {}
    /\ UNCHANGED <<cloud, token, ask, fd, restarts, server>>

(* The cloud takes a request that the cup has given up.                    *)
TakenLate(k) ==
    /\ k \in adrift
    /\ adrift' = adrift \ {k}
    /\ owner' = k
    /\ met' = met \cup {t \in Thread : pc[t] = "accepted"}
    /\ blame' = blame \cup {"late"}
    /\ UNCHANGED <<token, config, pc, ask, fd, restarts, server>>

-----------------------------------------------------------------------------
(* fogcloud_main_thread: the service, and the config server for a cup      *)
(* without an owner.  If either cannot be started the thread ends.         *)

MainStarts ==
    /\ pc[Main] = "start"
    /\ Goto(Main, "test")
    /\ listener' = IF config.bound THEN "off" ELSE "test"
    /\ UNCHANGED <<cloud, token, config, ask, fd, conn, slot, running, restarts, met,
                   missed, blame>>

MainFails ==
    /\ pc[Main] = "start"
    /\ Goto(Main, "exit")
    /\ UNCHANGED <<cloud, token, config, ask, fd, restarts, met, blame, server>>

MainTests ==
    /\ pc[Main] = "test"
    /\ Goto(Main, IF config.activated THEN "loop" ELSE "set")
    /\ UNCHANGED <<cloud, token, config, ask, fd, restarts, met, blame, server>>

MainSets ==
    /\ pc[Main] = "set"
    /\ SetToken(Main, Mac)
    /\ UNCHANGED <<cloud, config, sent, fd, restarts, server>>

-----------------------------------------------------------------------------
(* The listener: it looks at running only between two connections, and     *)
(* hands the new thread the address of its own variable.                   *)

Listen ==
    /\ listener = "test"
    /\ listener' = IF running THEN "select" ELSE "off"
    /\ UNCHANGED <<cloud, token, config, pc, ask, fd, conn, slot, running, restarts,
                   met, missed, blame>>

Accept(c) ==
    /\ listener = "select"
    /\ conn[c] = "new"
    /\ conn' = [conn EXCEPT ![c] = "open"]
    /\ slot' = c
    /\ listener' = "create"
    /\ missed' = missed \cup {d \in Conn : pc[d] = "created"}
    /\ UNCHANGED <<cloud, token, config, pc, ask, fd, running, restarts, met, blame>>

Create ==
    /\ listener = "create"
    /\ pc' = [pc EXCEPT ![slot] = "created"]
    /\ listener' = "test"
    /\ UNCHANGED <<cloud, token, config, ask, fd, conn, slot, running, restarts, met,
                   missed, blame>>

CreateFails ==
    /\ listener = "create"
    /\ listener' = "test"
    /\ missed' = missed \cup {slot}
    /\ UNCHANGED <<cloud, token, config, pc, ask, fd, conn, slot, running, restarts, met,
                   blame>>

-----------------------------------------------------------------------------
(* A client's thread.                                                      *)

ReadFd(t) ==
    /\ pc[t] = "created"
    /\ fd' = [fd EXCEPT ![t] = slot]
    /\ Goto(t, "wait")
    /\ UNCHANGED <<cloud, token, config, ask, restarts, met, blame, server>>

(* The next three take the request off the connection.                     *)
Takes(t) ==
    /\ t \in Conn
    /\ pc[t] = "wait"
    /\ conn[fd[t]] = "open"
    /\ conn' = [conn EXCEPT ![fd[t]] = "read"]
    /\ UNCHANGED <<cloud, config, sent, fd, listener, slot, running, restarts, missed>>

(* /dev-activate                                                           *)
Activate(t) ==
    /\ Takes(t)
    /\ SetToken(t, fd[t])

(* /dev-authorize: only if activated; it changes the context's token only. *)
Authorize(t) ==
    /\ Takes(t)
    /\ IF config.activated
       THEN /\ Replace(fd[t])
            /\ Goto(t, "authorize")
            /\ met' = met \cup Activating
            /\ blame' = IF Activating \cup Others = {} THEN blame ELSE blame \cup {"apart"}
       ELSE /\ Goto(t, "fail")
            /\ UNCHANGED <<token, stale, met, blame>>

(* The cloud has answered, and there is memory for a reply or not.         *)
Authorized(t) ==
    /\ pc[t] = "authorize"
    /\ \E l \in {"close", "fail"} : Goto(t, l)
    /\ UNCHANGED <<cloud, token, config, ask, fd, restarts, met, blame, server>>

(* /dev-cloud_reset: ask the cloud to forget the cup ...                   *)
AskReset(t) ==
    /\ Takes(t)
    /\ Goto(t, "reset")
    /\ met' = met \cup Activating
    /\ blame' = IF Activating \cup Others \cup Binding = {} THEN blame
                ELSE blame \cup {"apart"}
    /\ UNCHANGED <<token, stale>>

ResetAccepted(t) ==
    /\ pc[t] = "reset"
    /\ owner' = NoOne
    /\ Goto(t, "erase")
    /\ UNCHANGED <<adrift, token, config, ask, fd, restarts, met, blame, server>>

ResetFails(t) ==
    /\ pc[t] \in {"reset", "erase"}
    /\ Goto(t, "fail")
    /\ GiveAway(IF pc[t] = "reset" THEN {NoOne} ELSE {})
    /\ blame' = IF pc[t] = "erase" THEN blame \cup {"apart"} ELSE blame
    /\ UNCHANGED <<owner, token, config, ask, fd, restarts, met, server>>

(* ... and forget that it was activated and bound, but not the token.  The *)
(* reboot comes after the reply; if that cannot be made, never.            *)
SaveReset(t) ==
    /\ pc[t] = "erase"
    /\ config' = [config EXCEPT !.activated = FALSE, !.bound = FALSE]
    /\ \/ /\ Goto(t, "reboot")
          /\ conn' = [conn EXCEPT ![fd[t]] = "closed"]
       \/ /\ Goto(t, "fail")
          /\ conn' = conn
    /\ UNCHANGED <<cloud, token, ask, fd, listener, slot, running, restarts, met, missed,
                   blame>>

(* After an activation: the config server is to stop, the cup is bound,    *)
(* and there is memory for a reply or not.                                 *)
Stop(t) ==
    /\ pc[t] = "stop"
    /\ running' = FALSE
    /\ Goto(t, "bind")
    /\ UNCHANGED <<cloud, token, config, ask, fd, conn, listener, slot, restarts, met,
                   missed, blame>>

Bind(t) ==
    /\ pc[t] = "bind"
    /\ config' = [config EXCEPT !.bound = TRUE]
    /\ \E l \in {"close", "fail"} : Goto(t, l)
    /\ UNCHANGED <<cloud, token, ask, fd, restarts, met, blame, server>>

Closes(t) ==
    /\ conn' = [conn EXCEPT ![fd[t]] = "closed"]
    /\ Goto(t, "done")
    /\ UNCHANGED <<cloud, token, config, ask, fd, listener, slot, running, restarts, met,
                   missed, blame>>

Close(t) == pc[t] = "close" /\ Closes(t)

(* The reply to a request that failed: it is tried until there is memory.  *)
ReplyFailed(t) == pc[t] = "fail" /\ Closes(t)

(* Mutant: a client that asks for nothing keeps its connection. *)
GiveUpOpen(t) ==
    /\ t \in Conn
    /\ pc[t] = "wait"
    /\ Goto(t, "done")
    /\ UNCHANGED <<cloud, token, config, ask, fd, restarts, met, blame, server>>

(* Ten seconds without a byte, a connection closed, a bad request: a       *)
(* handler may have to answer it or not.  After part of a header nobody    *)
(* looks at the clock: this step need never come.                          *)
GiveUp(t) ==
    /\ t \in Conn
    /\ pc[t] = "wait"
    /\ \E l \in {"close", "fail"} : Goto(t, l)
    /\ UNCHANGED <<cloud, token, config, ask, fd, restarts, met, blame, server>>

-----------------------------------------------------------------------------
(* The power fails, or the power daemon reboots after a reset.             *)

Restart ==
    /\ token' = NoOne
    /\ pc' = [t \in Thread |-> IF t = Main THEN "start" ELSE "none"]
    /\ sent' = [t \in Thread |-> NoOne]
    /\ fd' = [c \in Conn |-> NoOne]
    /\ conn' = [c \in Conn |-> IF conn[c] = "new" THEN "new" ELSE "closed"]
    /\ listener' = "off"
    /\ slot' = NoOne
    /\ running' = TRUE
    /\ \E T \in SUBSET {t \in Thread : pc[t] \in {"sent", "reset"}} :
          GiveAway({sent[t] : t \in T})
    /\ met' = {} /\ stale' = {}
    /\ blame' = IF Activating \cup Others = {} THEN blame ELSE blame \cup {"apart"}
    /\ UNCHANGED <<owner, config, missed>>

Reboot ==
    /\ \E t \in Conn : pc[t] = "reboot"
    /\ Restart
    /\ UNCHANGED restarts

PowerFail ==
    /\ restarts < MaxRestarts
    /\ restarts' = restarts + 1
    /\ Restart

Asks(t) == Activate(t) \/ Authorize(t) \/ AskReset(t)

ThreadStep(t) ==
    \/ Send(t) \/ Accepted(t) \/ RequestFails(t) \/ Save(t)
    \/ ReadFd(t) \/ Authorized(t)
    \/ ResetFails(t) \/ ResetAccepted(t) \/ SaveReset(t)
    \/ Stop(t) \/ Bind(t) \/ Close(t) \/ ReplyFailed(t) \/ GiveUp(t)

MainStep == MainStarts \/ MainFails \/ MainTests \/ MainSets

ListenerStep == Listen \/ Create \/ CreateFails

Next ==
    \/ \E t \in Thread : ThreadStep(t)
    \/ \E t \in Conn : Asks(t) \/ Accept(t)
    \/ \E k \in Token : TakenLate(k)
    \/ MainStep \/ ListenerStep
    \/ Reboot \/ PowerFail

Spec == Init /\ [][Next]_vars

-----------------------------------------------------------------------------
MainControl   == {"start", "exit", "test", "set", "request", "sent", "accepted", "loop"}
ClientControl == {"none", "created", "wait", "request", "sent", "accepted",
                  "stop", "bind", "authorize", "reset", "erase", "reboot", "close",
                  "fail", "done"}

ControlOK ==
    /\ pc[Main] \in MainControl
    /\ \A c \in Conn : pc[c] \in ClientControl

(* The type of the state; fogcloud_main_thread does nothing that only a    *)
(* client's thread does, nor the other way round.                          *)
TypeOK ==
    /\ owner \in Token /\ token \in Token /\ adrift \subseteq Token
    /\ config \in [activated : BOOLEAN, bound : BOOLEAN, token : Token]
    /\ pc \in [Thread -> MainControl \cup ClientControl]
    /\ ControlOK
    /\ sent \in [Thread -> Token]
    /\ fd \in [Conn -> Conn \cup {NoOne}]
    /\ conn \in [Conn -> {"new", "open", "read", "closed"}]
    /\ listener \in {"off", "test", "select", "create"}
    /\ slot \in Conn \cup {NoOne}
    /\ running \in BOOLEAN
    /\ restarts \in Nat
    /\ met \subseteq Thread /\ stale \subseteq Thread /\ missed \subseteq Conn
    /\ blame \subseteq {"apart", "late"}

(* Whenever nobody is talking to the cloud, a cup that takes itself for    *)
(* activated has saved the token the cloud knows it by, and a cup that     *)
(* takes itself for bound is activated.  Activations of the main thread    *)
(* and of phones may overlap, send and save each other's token, and be     *)
(* taken by the cloud in any order, as long as they succeed and what the   *)
(* cloud took last was sent after the last token was put in the context.   *)
(* Whatever has parted the two (a late request, an activation or a reset   *)
(* that failed or lost its answer, an authorization or a reset that met    *)
(* another request, a restart), the next activation that succeeds and      *)
(* meets no other request brings them together again.                      *)
CredentialsMatch ==
    blame = {} /\ Activating \cup Others = {} =>
        /\ config.activated => config.token = owner
        /\ config.bound => config.activated

(* A connection the listener has accepted is not lost before it is closed: *)
(* the listener is about to create the thread that was named after it, or  *)
(* that thread has yet to read the descriptor, which is still its own, or  *)
(* it serves it and will close it, however long the phone, the cloud or    *)
(* the reply to a request that failed keeps it waiting.  Lost are only a   *)
(* connection whose thread could not be created and one whose thread had   *)
(* not read the descriptor when the next connection came.                  *)
NoneLost ==
    \A c \in Conn : conn[c] \in {"open", "read"} =>
        \/ slot = c /\ (listener = "create" \/ pc[c] = "created")
        \/ fd[c] = c /\ pc[c] \notin {"none", "created", "done"}
        \/ c \in missed
=============================================================================

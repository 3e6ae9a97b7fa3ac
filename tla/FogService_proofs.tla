-------------------------- MODULE FogService_proofs --------------------------
(***************************************************************************)
(* Proofs about who owns the cup, for any number of connections.           *)
(***************************************************************************)
EXTENDS FogService, TLAPS

Control == MainControl \cup ClientControl

(* A thread is created once, for a connection that has come, and the       *)
(* listener is not up before fogcloud_main_thread has started it.          *)
SlotInv ==
    /\ pc[Main] = "start" => listener = "off"
    /\ listener = "create" => slot \in Conn /\ conn[slot] # "new" /\ pc[slot] = "none"
    /\ \A c \in Conn : conn[c] = "new" => pc[c] = "none"

TypeInv == TypeOK /\ SlotInv

LEMMA TypeInit == Init => TypeInv
  <1>1. [t \in Thread |-> IF t = Main THEN "start" ELSE "none"] \in [Thread -> Control]
        /\ [t \in Thread |-> NoOne] \in [Thread -> Token]
    BY DEF Control, MainControl, ClientControl, Token
  <1> QED
    BY <1>1, FogServiceAssumption DEF Init, TypeInv, TypeOK, ControlOK, MainControl,
       ClientControl, SlotInv, Unbound, Token, Control, Thread

LEMMA GotoType ==
    ASSUME pc \in [Thread -> Control], NEW t, NEW l \in Control, Goto(t, l)
    PROVE  pc' \in [Thread -> Control]
  BY DEF Goto

(* fogcloud_main_thread stays in its own control, and each client's thread *)
(* in its own.                                                             *)
LEMMA GotoControl ==
    ASSUME TypeOK, NEW t \in Thread, NEW l, Goto(t, l),
           t = Main => l \in MainControl, t \in Conn => l \in ClientControl
    PROVE  ControlOK'
  BY FogServiceAssumption DEF TypeOK, ControlOK, Goto, Thread

LEMMA ControlStep == TypeInv /\ [Next]_vars => ControlOK'
  <1> SUFFICES ASSUME TypeOK, SlotInv, [Next]_vars PROVE ControlOK'
    BY DEF TypeInv
  <1>1. /\ pc \in [Thread -> MainControl \cup ClientControl]
        /\ pc[Main] \in MainControl
        /\ \A c \in Conn : pc[c] \in ClientControl
        /\ Main \in Thread /\ Conn \subseteq Thread /\ Main \notin Conn
    BY FogServiceAssumption DEF TypeOK, ControlOK, Thread
  <1>2. ASSUME NEW t \in Thread, Send(t) \/ Accepted(t) \/ RequestFails(t) \/ Save(t)
        PROVE  ControlOK'
    <2>1. PICK l : Goto(t, l) /\ (t = Main => l \in MainControl)
                   /\ (t # Main => l \in ClientControl)
      <3>1. pc[t] \in {"request", "sent", "accepted"}
        BY <1>2 DEF Send, Accepted, RequestFails, Save
      <3>2. CASE Send(t)
        BY <3>2 DEF Send, MainControl, ClientControl
      <3>3. CASE Accepted(t)
        BY <3>3 DEF Accepted, MainControl, ClientControl
      <3>4. CASE RequestFails(t)
        BY <3>4 DEF RequestFails, MainControl, ClientControl
      <3>5. CASE Save(t)
        BY <3>5 DEF Save, MainControl, ClientControl
      <3> QED
        BY <1>2, <3>2, <3>3, <3>4, <3>5
    <2> QED
      BY <1>1, <2>1, GotoControl
  <1>3. ASSUME NEW t \in Thread,
               \/ ReadFd(t) \/ Authorized(t) \/ ResetFails(t) \/ ResetAccepted(t)
               \/ SaveReset(t) \/ Stop(t) \/ Bind(t) \/ Close(t) \/ ReplyFailed(t)
               \/ GiveUp(t)
        PROVE  ControlOK'
    <2>1. pc[t] \notin MainControl
      BY <1>3 DEF ReadFd, Authorized, ResetFails, ResetAccepted, SaveReset, Stop, Bind,
                  Close, ReplyFailed, Closes, GiveUp, MainControl
    <2>2. PICK l \in ClientControl : Goto(t, l)
      BY <1>3 DEF ReadFd, Authorized, ResetFails, ResetAccepted, SaveReset, Stop, Bind,
                  Close, ReplyFailed, Closes, GiveUp, ClientControl
    <2> QED
      BY <1>1, <2>1, <2>2, GotoControl
  <1>4. ASSUME NEW t \in Conn, Asks(t) PROVE ControlOK'
    <2>1. PICK l \in ClientControl : Goto(t, l)
      BY <1>4 DEF Asks, Activate, Authorize, AskReset, SetToken, ClientControl
    <2> QED
      BY <1>1, <2>1, GotoControl
  <1>5. CASE MainStep
    <2>1. PICK l \in MainControl : Goto(Main, l)
      BY <1>5 DEF MainStep, MainStarts, MainFails, MainTests, MainSets, SetToken,
                  MainControl
    <2> QED
      BY <1>1, <2>1, GotoControl
  <1>6. CASE ListenerStep
    <2>1. CASE Create
      BY <1>1, <2>1 DEF Create, SlotInv, ControlOK, ClientControl
    <2>2. CASE Listen \/ CreateFails
      BY <1>1, <2>2 DEF Listen, CreateFails, ControlOK
    <2> QED
      BY <1>6, <2>1, <2>2 DEF ListenerStep
  <1>7. CASE Reboot \/ PowerFail
    BY <1>1, <1>7 DEF Reboot, PowerFail, Restart, ControlOK, MainControl, ClientControl
  <1>8. CASE UNCHANGED vars \/ (\E t \in Conn : Accept(t)) \/ \E k \in Token : TakenLate(k)
    BY <1>1, <1>8 DEF vars, Accept, TakenLate, ControlOK
  <1> QED
    BY <1>2, <1>3, <1>4, <1>5, <1>6, <1>7, <1>8 DEF Next, ThreadStep

LEMMA GiveAwayType ==
    ASSUME adrift \subseteq Token, NEW K \in SUBSET Token, GiveAway(K)
    PROVE  adrift' \subseteq Token
  BY DEF GiveAway

LEMMA TypeOKStep == TypeInv /\ [Next]_vars => TypeOK'
  <1> SUFFICES ASSUME TypeOK, SlotInv, [Next]_vars PROVE TypeOK'
    BY DEF TypeInv
  <1>0. ControlOK'
    BY ControlStep DEF TypeInv
  <1> DEFINE Config == [activated : BOOLEAN, bound : BOOLEAN, token : Token]
             Conns  == [Conn -> {"new", "open", "read", "closed"}]
  <1>1. /\ pc \in [Thread -> Control] /\ config \in Config /\ conn \in Conns
        /\ fd \in [Conn -> Conn \cup {NoOne}] /\ met \subseteq Thread
        /\ sent \in [Thread -> Token] /\ stale \subseteq Thread
        /\ blame \subseteq {"apart", "late"} /\ adrift \subseteq Token
        /\ token \in Token /\ owner \in Token
    BY DEF TypeOK, Control, MainControl, ClientControl
  <1>2. Conn \subseteq Thread /\ Main \in Thread /\ Conn \cup {NoOne} \subseteq Token
        /\ Mac \in Token /\ NoOne \in Token
    BY DEF Thread, Token
  <1>3. ASSUME NEW t \in Thread, Send(t) \/ Accepted(t) \/ RequestFails(t) PROVE TypeOK'
    <2>1. \E l \in Control : Goto(t, l)
      BY <1>3 DEF Send, Accepted, RequestFails, Control, MainControl, ClientControl
    <2>2. pc' \in [Thread -> Control]
      BY <1>1, <2>1, GotoType
    <2>3. sent' \in [Thread -> Token] /\ stale' \subseteq Thread
      BY <1>1, <1>2, <1>3 DEF Send, Accepted, RequestFails
    <2>4. owner' \in Token
      BY <1>1, <1>3 DEF Send, Accepted, RequestFails, cloud
    <2>5. adrift' \subseteq Token
      <3>1. CASE RequestFails(t)
        <4> DEFINE K == IF pc[t] = "sent" THEN {sent[t]} ELSE {}
        <4>1. K \in SUBSET Token
          BY <1>1
        <4> QED
          BY <1>1, <3>1, <4>1, GiveAwayType DEF RequestFails
      <3> QED
        BY <1>1, <1>3, <3>1 DEF Send, Accepted, cloud
    <2>6. blame' \subseteq {"apart", "late"} /\ met' \subseteq Thread
      BY <1>1, <1>3 DEF Send, Accepted, RequestFails
    <2> QED
      BY <1>0, <1>3, <2>2, <2>3, <2>4, <2>5, <2>6
         DEF Send, Accepted, RequestFails, TypeOK, Control, MainControl, ClientControl, server
  <1>4. ASSUME NEW t \in Thread, Save(t) PROVE TypeOK'
    <2>1. pc' \in [Thread -> Control]
      BY <1>1, <1>4, GotoType DEF Save, Control, MainControl, ClientControl
    <2>2. config' \in Config
      BY <1>1, <1>4 DEF Save
    <2> QED
      BY <1>0, <1>1, <1>4, <2>1, <2>2 DEF Save, TypeOK, Control, MainControl, ClientControl,
          server, cloud, ask
  <1>5. ASSUME NEW t \in Thread, ReadFd(t) PROVE TypeOK'
    <2>1. pc' \in [Thread -> Control]
      BY <1>1, <1>5, GotoType DEF ReadFd, Control, MainControl, ClientControl
    <2>2. fd' \in [Conn -> Conn \cup {NoOne}]
      BY <1>1, <1>5 DEF ReadFd, TypeOK
    <2> QED
      BY <1>0, <1>5, <2>1, <2>2 DEF ReadFd, TypeOK, Control, MainControl, ClientControl,
          server, cloud, ask
  <1>6. ASSUME NEW t \in Thread,
               Authorized(t) \/ ResetFails(t) \/ ResetAccepted(t) \/ Stop(t) \/ GiveUp(t)
        PROVE TypeOK'
    <2>1. \E l \in Control : Goto(t, l)
      BY <1>6 DEF Authorized, ResetFails, ResetAccepted, Stop, GiveUp, Control,
          MainControl, ClientControl
    <2>2. pc' \in [Thread -> Control]
      BY <1>1, <2>1, GotoType
    <2>3. adrift' \subseteq Token
      <3>1. CASE ResetFails(t)
        <4> DEFINE K == IF pc[t] = "reset" THEN {NoOne} ELSE {}
        <4>1. K \in SUBSET Token
          BY <1>2
        <4> QED
          BY <1>1, <3>1, <4>1, GiveAwayType DEF ResetFails
      <3> QED
        BY <1>1, <1>6, <3>1 DEF Authorized, ResetAccepted, Stop, GiveUp, cloud
    <2>4. blame' \subseteq {"apart", "late"}
      BY <1>1, <1>6 DEF Authorized, ResetFails, ResetAccepted, Stop, GiveUp
    <2> QED
      BY <1>0, <1>2, <1>6, <2>2, <2>3, <2>4 DEF Authorized, ResetFails, ResetAccepted, Stop,
          GiveUp, TypeOK, Control, MainControl, ClientControl, server, cloud, ask
  <1>7. ASSUME NEW t \in Thread, SaveReset(t) \/ Bind(t) \/ Close(t) \/ ReplyFailed(t)
        PROVE TypeOK'
    <2>1. \E l \in Control : Goto(t, l)
      BY <1>7 DEF SaveReset, Bind, Close, ReplyFailed, Closes, Control, MainControl,
          ClientControl
    <2>2. pc' \in [Thread -> Control]
      BY <1>1, <2>1, GotoType
    <2>3. config' \in Config
      BY <1>1, <1>7 DEF SaveReset, Bind, Close, ReplyFailed, Closes
    <2>4. conn' \in Conns
      BY <1>1, <1>7 DEF SaveReset, Bind, Close, ReplyFailed, Closes, server
    <2> QED
      BY <1>0, <1>7, <2>2, <2>3, <2>4 DEF SaveReset, Bind, Close, ReplyFailed, Closes, TypeOK,
          Control, MainControl, ClientControl, server, cloud, ask
  <1>8. ASSUME NEW t \in Thread, NEW k \in Token, SetToken(t, k)
        PROVE  /\ token' \in Token /\ pc' \in [Thread -> Control] /\ met' \subseteq Thread
               /\ stale' \subseteq Thread /\ blame' \subseteq {"apart", "late"}
    <2>1. pc' \in [Thread -> Control]
      BY <1>1, <1>8, GotoType DEF SetToken, Control, MainControl, ClientControl
    <2> QED
      BY <1>1, <1>8, <2>1 DEF SetToken, Replace, Activating
  <1>9. ASSUME NEW t \in Conn, Asks(t) PROVE TypeOK'
    <2>1. fd[t] \in Token /\ t \in Thread
      BY <1>1, <1>2
    <2>2. /\ conn' \in Conns
          /\ UNCHANGED <<cloud, config, sent, fd, listener, slot, running, restarts, missed>>
      BY <1>1, <1>9 DEF Asks, Activate, Authorize, AskReset, Takes
    <2>3. CASE Activate(t)
      BY <1>0, <1>8, <2>1, <2>2, <2>3 DEF Activate, TypeOK, Control, MainControl,
          ClientControl, cloud
    <2>4. CASE Authorize(t) \/ AskReset(t)
      <3>1. \E l \in Control : Goto(t, l)
        BY <2>4 DEF Authorize, AskReset, Control, MainControl, ClientControl
      <3>2. pc' \in [Thread -> Control]
        BY <1>1, <3>1, GotoType
      <3>3. /\ token' \in Token /\ stale' \subseteq Thread /\ met' \subseteq Thread
            /\ blame' \subseteq {"apart", "late"}
        BY <1>1, <2>1, <2>4 DEF Authorize, AskReset, Replace, Activating
      <3> QED
        BY <1>0, <2>2, <3>2, <3>3 DEF TypeOK, Control, MainControl, ClientControl, cloud
    <2> QED
      BY <1>9, <2>3, <2>4 DEF Asks
  <1>10. ASSUME NEW t \in Conn, Accept(t) PROVE TypeOK'
    <2>1. conn' \in Conns
      BY <1>1, <1>10 DEF Accept
    <2> QED
      BY <1>0, <1>10, <2>1 DEF Accept, TypeOK, cloud, ask
  <1>11. CASE MainStarts \/ MainFails \/ MainTests
    <2>1. \E l \in Control : Goto(Main, l)
      BY <1>11 DEF MainStarts, MainFails, MainTests, Control, MainControl, ClientControl
    <2>2. pc' \in [Thread -> Control]
      BY <1>1, <2>1, GotoType
    <2> QED
      BY <1>0, <1>11, <2>2 DEF MainStarts, MainFails, MainTests, TypeOK, Control,
          MainControl, ClientControl, server, cloud, ask
  <1>12. CASE MainSets
    BY <1>0, <1>2, <1>8, <1>12 DEF MainSets, TypeOK, Control, MainControl, ClientControl,
        server, cloud
  <1>13. CASE ListenerStep
    <2>1. pc' \in [Thread -> Control]
      BY <1>1, <1>13 DEF ListenerStep, Listen, Create, CreateFails, Control, MainControl,
          ClientControl
    <2> QED
      BY <1>0, <1>13, <2>1 DEF ListenerStep, Listen, Create, CreateFails, TypeOK,
          SlotInv, Control, MainControl, ClientControl, cloud, ask
  <1>14. CASE Reboot \/ PowerFail
    <2>1. Restart /\ restarts' \in Nat
      BY <1>14 DEF Reboot, PowerFail, TypeOK
    <2>2. pc' \in [Thread -> Control] /\ conn' \in Conns
      BY <1>1, <2>1 DEF Restart, Control, MainControl, ClientControl
    <2>3. adrift' \subseteq Token
      <3>1. PICK T \in SUBSET {t \in Thread : pc[t] \in {"sent", "reset"}} :
               GiveAway({sent[t] : t \in T})
        BY <2>1 DEF Restart
      <3>2. {sent[t] : t \in T} \in SUBSET Token
        BY <1>1
      <3> QED
        BY <1>1, <3>1, <3>2, GiveAwayType
    <2>4. blame' \subseteq {"apart", "late"} /\ sent' \in [Thread -> Token]
      BY <1>1, <1>2, <2>1 DEF Restart
    <2> QED
      BY <1>0, <1>2, <2>1, <2>2, <2>3, <2>4
         DEF Restart, TypeOK, Control, MainControl, ClientControl
  <1>15. CASE UNCHANGED vars
    BY <1>0, <1>15 DEF vars, TypeOK, server, cloud, ask
  <1>16. ASSUME NEW k \in Token, TakenLate(k) PROVE TypeOK'
    BY <1>0, <1>16 DEF TakenLate, TypeOK, server, ask
  <1> QED
    BY <1>3, <1>4, <1>5, <1>6, <1>7, <1>9, <1>10, <1>11, <1>12, <1>13, <1>14, <1>15, <1>16
       DEF Next, ThreadStep, MainStep

LEMMA SlotStep == TypeInv /\ [Next]_vars => SlotInv'
  <1> SUFFICES ASSUME TypeOK, SlotInv, [Next]_vars PROVE SlotInv'
    BY DEF TypeInv
  <1>1. ASSUME NEW t \in Thread, ThreadStep(t)
        PROVE  /\ \E l \in Control \ {"start"} : Goto(t, l)
               /\ pc[t] \notin {"none", "start"} /\ UNCHANGED <<listener, slot>>
               /\ \/ conn' = conn
                  \/ conn' = [conn EXCEPT ![fd[t]] = "closed"]
    <2>1. CASE Send(t) \/ Accepted(t) \/ RequestFails(t) \/ Save(t)
      BY <2>1 DEF Send, Accepted, RequestFails, Save, Control, MainControl, ClientControl, server
    <2>2. CASE SaveReset(t) \/ Bind(t) \/ Close(t) \/ ReplyFailed(t)
      BY <2>2 DEF SaveReset, Bind, Close, ReplyFailed, Closes, Control, MainControl,
                  ClientControl, server
    <2>3. CASE \/ ReadFd(t) \/ Authorized(t) \/ ResetFails(t) \/ ResetAccepted(t)
               \/ Stop(t) \/ GiveUp(t)
      BY <2>3 DEF ReadFd, Authorized, ResetFails, ResetAccepted, Stop, GiveUp, Control,
                  MainControl, ClientControl, server
    <2> QED
      BY <1>1, <2>1, <2>2, <2>3 DEF ThreadStep
  <1>2. ASSUME NEW t \in Thread, ThreadStep(t) PROVE SlotInv'
    <2>1. PICK l \in Control \ {"start"} : Goto(t, l)
      BY <1>1, <1>2
    <2>2. \A c \in Conn : conn'[c] = conn[c] \/ conn'[c] = "closed"
      BY <1>1, <1>2 DEF TypeOK
    <2>3. \A c \in Conn : conn'[c] = "new" => conn[c] = "new"
      BY <2>2
    <2>4. ASSUME NEW c \in Conn, conn'[c] = "new" PROVE pc'[c] = "none"
      BY <1>1, <1>2, <2>1, <2>3, <2>4 DEF SlotInv, TypeOK, Goto, Thread
    <2>5. ASSUME listener' = "create"
          PROVE  slot' \in Conn /\ conn'[slot'] # "new" /\ pc'[slot'] = "none"
      BY <1>1, <1>2, <2>1, <2>2, <2>5 DEF SlotInv, TypeOK, Goto, Thread
    <2>6. pc'[Main] = "start" => pc[Main] = "start"
      BY <2>1 DEF TypeOK, Goto
    <2> QED
      BY <1>1, <1>2, <2>4, <2>5, <2>6 DEF SlotInv
  <1>3. ASSUME NEW t \in Conn, Asks(t) PROVE SlotInv'
    <2>1. /\ \E l \in Control : Goto(t, l)
          /\ pc[t] = "wait" /\ UNCHANGED <<listener, slot>>
          /\ conn' = [conn EXCEPT ![fd[t]] = "read"]
      BY <1>3 DEF Asks, Activate, Authorize, AskReset, Takes, SetToken, Control,
          MainControl, ClientControl
    <2>2. PICK l \in Control : Goto(t, l)
      BY <2>1
    <2>3. \A c \in Conn : conn'[c] = conn[c] \/ conn'[c] = "read"
      BY <2>1 DEF TypeOK
    <2> QED
      BY <2>1, <2>2, <2>3, FogServiceAssumption DEF SlotInv, TypeOK, Goto, Thread
  <1>4. ASSUME NEW t \in Conn, Accept(t) PROVE SlotInv'
    BY <1>4 DEF Accept, SlotInv, TypeOK
  <1>5. CASE MainStep
    <2>1. pc[Main] # "none" /\ \E l \in Control \ {"start"} : Goto(Main, l)
      BY <1>5 DEF MainStep, MainStarts, MainFails, MainTests, MainSets, SetToken,
          Control, MainControl, ClientControl
    <2>4. pc'[Main] # "start"
      BY <2>1 DEF Goto, TypeOK, Thread
    <2>2. \A c \in Conn : pc'[c] = pc[c]
      BY <2>1, FogServiceAssumption DEF Goto, TypeOK, Thread
    <2>3. UNCHANGED <<conn, slot>> /\ (listener' = listener \/ listener' # "create")
      BY <1>5 DEF MainStep, MainStarts, MainFails, MainTests, MainSets, server
    <2> QED
      BY <2>2, <2>3, <2>4 DEF SlotInv
  <1>6. CASE ListenerStep
    BY <1>6, FogServiceAssumption DEF ListenerStep, Listen, Create, CreateFails, SlotInv, TypeOK, Thread
  <1>7. CASE Reboot \/ PowerFail
    <2>1. listener' = "off" /\ \A c \in Conn : pc'[c] = "none"
      BY <1>7, FogServiceAssumption DEF Reboot, PowerFail, Restart, Thread
    <2> QED
      BY <2>1 DEF SlotInv
  <1>8. CASE UNCHANGED vars \/ \E k \in Token : TakenLate(k)
    BY <1>8 DEF vars, server, SlotInv, TakenLate
  <1> QED
    BY <1>2, <1>3, <1>4, <1>5, <1>6, <1>7, <1>8 DEF Next

LEMMA TypeStep == TypeInv /\ [Next]_vars => TypeInv'
  BY TypeOKStep, SlotStep DEF TypeInv

(* The variables keep their types.                                         *)
THEOREM TypeCorrect == Spec => []TypeOK
  <1>1. TypeInv => TypeOK
    BY DEF TypeInv
  <1> QED
    BY <1>1, TypeInit, TypeStep, PTL DEF Spec

-----------------------------------------------------------------------------
(* Who is who between the threads, the cloud and the settings.             *)

(* An activation that has met no other request is alone; the token in the  *)
(* context is its own, and the cloud's once it is accepted.                *)
CleanInv ==
    \A p \in Activating \ met :
        /\ Activating = {p} /\ Others = {}
        /\ pc[p] = "sent" => sent[p] = token
        /\ pc[p] = "accepted" => owner = token

(* A token that was not replaced after it was sent is still in the context.*)
FreshInv == \A p \in Thread \ stale : pc[p] = "sent" => sent[p] = token

(* Unless something has parted settings and cloud, an authorization and a  *)
(* reset are alone, and only an activated cup is bound.                    *)
ApartInv ==
    "apart" \notin blame =>
        /\ \A p \in Others : Others = {p} /\ Activating = {}
        /\ (\E p \in Thread : pc[p] \in {"reset", "erase"}) => Binding = {}
        /\ config.bound => config.activated
        /\ Binding # {} => config.activated

(* Once every activation is accepted, the cloud has the context's token.   *)
AnsweredInv ==
    Activating # {} /\ (\A p \in Activating : pc[p] = "accepted") => owner = token

(* The settings have the cloud's token while nobody talks to the cloud, or *)
(* only one that it has not accepted.                                      *)
SavedInv ==
    /\ config.activated
    /\ \A p \in Thread : pc[p] # "erase"
    /\ Activating = {} \/ \E p \in Activating \ met : pc[p] \in {"request", "sent"}
    => config.token = owner

MatchInv == blame = {} => AnsweredInv /\ SavedInv

CredInv == CleanInv /\ FreshInv /\ ApartInv /\ MatchInv

LEMMA GotoSets ==
    ASSUME TypeOK, NEW t \in Thread, NEW l, Goto(t, l)
    PROVE  /\ Activating' = (Activating \ {t})
                            \cup (IF l \in {"request", "sent", "accepted"} THEN {t} ELSE {})
           /\ Others' = (Others \ {t})
                        \cup (IF l \in {"authorize", "reset", "erase"} THEN {t} ELSE {})
           /\ Binding' = (Binding \ {t}) \cup (IF l \in {"stop", "bind"} THEN {t} ELSE {})
           /\ pc'[t] = l
           /\ \A p \in Thread \ {t} : pc'[p] = pc[p]
  <1>1. pc'[t] = l /\ \A p \in Thread \ {t} : pc'[p] = pc[p]
    BY DEF Goto, TypeOK
  <1> QED
    BY <1>1 DEF Activating, Others, Binding

LEMMA CredInit == Init => CredInv
  <1> SUFFICES ASSUME Init PROVE CredInv
    OBVIOUS
  <1>1. \A p \in Thread : pc[p] \in {"start", "none"}
    BY DEF Init
  <1>2. Activating = {} /\ Others = {} /\ Binding = {}
    BY <1>1 DEF Activating, Others, Binding
  <1> QED
    BY <1>1, <1>2 DEF Init, CredInv, CleanInv, FreshInv, ApartInv, MatchInv, AnsweredInv,
       SavedInv, Unbound

(* An activation begins.                                                   *)
LEMMA CredSetToken ==
    ASSUME TypeOK, CredInv, NEW t \in Thread, NEW k, SetToken(t, k),
           pc[t] \in {"set", "wait"}, UNCHANGED <<owner, config, sent>>
    PROVE  CredInv'
  <1>1. /\ Activating' = Activating \cup {t} /\ t \notin Activating
        /\ Others' = Others /\ Binding' = Binding
        /\ pc'[t] = "request" /\ \A p \in Thread \ {t} : pc'[p] = pc[p]
    BY GotoSets DEF SetToken, Activating, Others, Binding
  <1>2. CleanInv'
    <2>1. CASE Activating \cup Others = {}
      BY <1>1, <2>1 DEF CleanInv
    <2>2. CASE Activating \cup Others # {}
      BY <1>1, <2>2 DEF CleanInv, SetToken
    <2> QED
      BY <2>1, <2>2
  <1>3. FreshInv'
    BY <1>1 DEF FreshInv, SetToken, Replace
  <1>4. ASSUME "apart" \notin blame' PROVE Others = {} /\ blame' = blame
    BY <1>4 DEF SetToken
  <1>5. Others = {} => \A p \in Thread : pc'[p] \notin {"reset", "erase"} /\ pc[p] # "erase"
    BY <1>1 DEF Others
  <1>6. ApartInv'
    BY <1>1, <1>4, <1>5 DEF CredInv, ApartInv
  <1>7. ASSUME blame' = {} PROVE (AnsweredInv /\ SavedInv)'
    <2>1. Others = {} /\ SavedInv
      BY <1>4, <1>7 DEF CredInv, MatchInv
    <2>2. \A p \in Activating' \ met' : Activating = {}
      BY <1>1 DEF SetToken
    <2> QED
      BY <1>1, <1>5, <2>1, <2>2 DEF AnsweredInv, SavedInv
  <1> QED
    BY <1>2, <1>3, <1>6, <1>7 DEF CredInv, MatchInv

LEMMA CredSend ==
    ASSUME TypeOK, CredInv, NEW t \in Thread, Send(t) PROVE CredInv'
  <1>1. /\ Activating' = Activating /\ t \in Activating /\ Others' = Others /\ Binding' = Binding
        /\ pc'[t] = "sent" /\ pc[t] = "request" /\ \A p \in Thread \ {t} : pc'[p] = pc[p]
    BY GotoSets DEF Send, Activating, Others, Binding
  <1>2. sent'[t] = token /\ \A p \in Thread \ {t} : sent'[p] = sent[p]
    BY DEF Send, TypeOK
  <1>3. UNCHANGED <<owner, token, config, stale, met, blame>>
    BY DEF Send, cloud
  <1>4. CleanInv' /\ FreshInv'
    BY <1>1, <1>2, <1>3 DEF CredInv, CleanInv, FreshInv, Activating
  <1>5. ApartInv'
    BY <1>1, <1>3 DEF CredInv, ApartInv
  <1>6. ASSUME blame' = {} PROVE (AnsweredInv /\ SavedInv)'
    <2>1. SavedInv
      BY <1>3, <1>6 DEF CredInv, MatchInv
    <2>2. \A p \in Thread : /\ pc'[p] = "erase" <=> pc[p] = "erase"
                           /\ pc'[p] \in {"request", "sent"} <=> pc[p] \in {"request", "sent"}
      BY <1>1
    <2>3. SavedInv'
      BY <1>1, <1>3, <2>1, <2>2 DEF SavedInv, Activating
    <2> QED
      BY <1>1, <2>3 DEF AnsweredInv
  <1> QED
    BY <1>4, <1>5, <1>6 DEF CredInv, MatchInv

(* The cloud takes a token: unless it was replaced, the context's.         *)
LEMMA CredAccepted ==
    ASSUME TypeOK, CredInv, NEW t \in Thread, Accepted(t) PROVE CredInv'
  <1>1. /\ Activating' = Activating /\ t \in Activating /\ Others' = Others /\ Binding' = Binding
        /\ pc'[t] = "accepted" /\ pc[t] = "sent" /\ \A p \in Thread \ {t} : pc'[p] = pc[p]
    BY GotoSets DEF Accepted, Activating, Others, Binding
  <1>2. \A p \in Thread \ {t} : sent'[p] = sent[p]
    BY DEF Accepted, TypeOK
  <1>3. UNCHANGED <<token, config, met>> /\ owner' = sent[t] /\ stale' = stale \ {t}
    BY DEF Accepted
  <1>4. t \notin stale => owner' = token
    BY <1>1, <1>3 DEF CredInv, FreshInv
  <1>5. CleanInv' /\ FreshInv'
    BY <1>1, <1>2, <1>3 DEF CredInv, CleanInv, FreshInv, Activating
  <1>6. ApartInv'
    <2>1. "apart" \notin blame' => "apart" \notin blame
      BY DEF Accepted
    <2> QED
      BY <1>1, <1>3, <2>1 DEF CredInv, ApartInv
  <1>7. ASSUME blame' = {} PROVE (AnsweredInv /\ SavedInv)'
    <2>1. owner' = token'
      BY <1>3, <1>4, <1>7 DEF Accepted
    <2>2. \A p \in Activating' \ met' : pc'[p] = "accepted"
      BY <1>1, <1>3 DEF CredInv, CleanInv
    <2> QED
      BY <1>1, <2>1, <2>2 DEF AnsweredInv, SavedInv
  <1> QED
    BY <1>5, <1>6, <1>7 DEF CredInv, MatchInv

LEMMA CredFails ==
    ASSUME TypeOK, CredInv, NEW t \in Thread, RequestFails(t) PROVE CredInv'
  <1>1. /\ Activating' = Activating \ {t} /\ t \in Activating /\ Others' = Others
        /\ Binding' = Binding /\ pc'[t] \in {"test", "fail"}
        /\ \A p \in Thread \ {t} : pc'[p] = pc[p]
    BY GotoSets DEF RequestFails, Activating, Others, Binding
  <1>2. \A p \in Thread \ {t} : sent'[p] = sent[p]
    BY DEF RequestFails, TypeOK
  <1>3. UNCHANGED <<owner, token, config>> /\ stale' = stale \ {t} /\ met' = met \ {t}
    BY DEF RequestFails
  <1>4. CleanInv' /\ FreshInv'
    BY <1>1, <1>2, <1>3 DEF CredInv, CleanInv, FreshInv
  <1>5. ASSUME "apart" \notin blame' PROVE t \notin met /\ pc[t] = "sent" /\ blame' = blame
    BY <1>5 DEF RequestFails
  <1>6. ApartInv'
    BY <1>1, <1>3, <1>5 DEF CredInv, ApartInv
  <1>7. ASSUME blame' = {} PROVE (AnsweredInv /\ SavedInv)'
    <2>1. t \notin met /\ pc[t] = "sent" /\ SavedInv
      BY <1>5, <1>7 DEF CredInv, MatchInv
    <2>2. Activating' = {}
      BY <1>1, <2>1 DEF CredInv, CleanInv
    <2> QED
      BY <1>1, <1>3, <2>1, <2>2 DEF AnsweredInv, SavedInv
  <1> QED
    BY <1>4, <1>6, <1>7 DEF CredInv, MatchInv

(* The last to save has the cloud's token; one that was alone heals all.   *)
LEMMA CredSave ==
    ASSUME TypeOK, CredInv, NEW t \in Thread, Save(t) PROVE CredInv'
  <1>1. /\ Activating' = Activating \ {t} /\ t \in Activating /\ Others' = Others
        /\ Binding' \subseteq Binding \cup {t} /\ pc[t] = "accepted"
        /\ pc'[t] \in {"test", "stop", "fail"} /\ \A p \in Thread \ {t} : pc'[p] = pc[p]
    BY GotoSets DEF Save, Activating, Others, Binding
  <1>2. UNCHANGED <<owner, token, sent, stale>> /\ met' = met \ {t}
    BY DEF Save, cloud, ask
  <1>3. config'.activated /\ config'.token = token /\ config'.bound = config.bound
    BY DEF Save, TypeOK
  <1>4. CleanInv' /\ FreshInv'
    BY <1>1, <1>2 DEF CredInv, CleanInv, FreshInv
  <1>5. CASE t \in met
    <2>1. blame' = blame
      BY <1>5 DEF Save
    <2>2. "apart" \notin blame => Others = {}
      BY <1>1 DEF CredInv, ApartInv
    <2>3. Others = {} => \A p \in Thread : pc'[p] \notin {"reset", "erase"}
      BY <1>1 DEF Others
    <2>4. ApartInv'
      BY <1>1, <1>3, <2>1, <2>2, <2>3 DEF CredInv, ApartInv
    <2>5. ASSUME blame = {} PROVE (AnsweredInv /\ SavedInv)'
      <3>1. AnsweredInv
        BY <2>5 DEF CredInv, MatchInv
      <3>2. (\A p \in Activating' : pc'[p] = "accepted")
            => \A p \in Activating : pc[p] = "accepted"
        BY <1>1 DEF Activating
      <3>5. AnsweredInv'
        BY <1>1, <1>2, <3>1, <3>2 DEF AnsweredInv
      <3>3. Activating' = {} => owner = token
        BY <1>1, <3>1 DEF AnsweredInv
      <3>4. \A p \in Activating' \ met' : FALSE
        BY <1>1, <1>2 DEF CredInv, CleanInv
      <3> QED
        BY <1>2, <1>3, <3>5, <3>3, <3>4 DEF SavedInv
    <2> QED
      BY <1>4, <2>1, <2>4, <2>5 DEF CredInv, MatchInv
  <1>6. CASE t \notin met
    <2>1. Activating' = {} /\ Others' = {} /\ owner = token
      BY <1>1, <1>6 DEF CredInv, CleanInv
    <2>2. \A p \in Thread : pc'[p] \notin {"reset", "erase"}
      BY <2>1 DEF Others
    <2> QED
      BY <1>2, <1>3, <1>4, <2>1, <2>2 DEF CredInv, ApartInv, MatchInv, AnsweredInv, SavedInv
  <1> QED
    BY <1>5, <1>6

LEMMA CredTakenLate ==
    ASSUME TypeOK, CredInv, NEW k, TakenLate(k) PROVE CredInv'
  <1>1. Activating' = Activating /\ Others' = Others /\ Binding' = Binding
    BY DEF TakenLate, Activating, Others, Binding
  <1>2. UNCHANGED <<token, config, pc, sent, stale>>
        /\ met' = met \cup {t \in Thread : pc[t] = "accepted"} /\ blame' = blame \cup {"late"}
    BY DEF TakenLate, ask
  <1>3. CleanInv' /\ FreshInv'
    BY <1>1, <1>2 DEF CredInv, CleanInv, FreshInv, Activating
  <1>4. ApartInv'
    BY <1>1, <1>2 DEF CredInv, ApartInv
  <1> QED
    BY <1>2, <1>3, <1>4 DEF CredInv, MatchInv

LEMMA CredAuthorize ==
    ASSUME TypeOK, CredInv, NEW t \in Conn, Authorize(t), config.activated PROVE CredInv'
  <1>1. /\ Activating' = Activating /\ t \notin Activating /\ Others' = Others \cup {t}
        /\ t \notin Others /\ Binding' = Binding
        /\ pc'[t] = "authorize" /\ \A p \in Thread \ {t} : pc'[p] = pc[p]
    BY GotoSets DEF Authorize, Takes, Thread, Activating, Others, Binding
  <1>2. /\ UNCHANGED <<owner, config, sent>> /\ met' = met \cup Activating
        /\ stale' = stale \cup {p \in Thread : pc[p] = "sent"}
    BY DEF Authorize, Takes, Replace, cloud
  <1>3. CleanInv' /\ FreshInv'
    BY <1>1, <1>2 DEF CredInv, CleanInv, FreshInv
  <1>4. ASSUME "apart" \notin blame' PROVE Activating = {} /\ Others = {} /\ blame' = blame
    BY <1>4 DEF Authorize
  <1>5. Others = {} => \A p \in Thread : pc'[p] \notin {"reset", "erase"} /\ pc[p] # "erase"
    BY <1>1 DEF Others
  <1>6. ApartInv'
    BY <1>1, <1>2, <1>4, <1>5 DEF CredInv, ApartInv
  <1>7. ASSUME blame' = {} PROVE (AnsweredInv /\ SavedInv)'
    BY <1>1, <1>2, <1>4, <1>5, <1>7 DEF CredInv, MatchInv, AnsweredInv, SavedInv
  <1> QED
    BY <1>3, <1>6, <1>7 DEF CredInv, MatchInv

LEMMA CredAskReset ==
    ASSUME TypeOK, CredInv, NEW t \in Conn, AskReset(t) PROVE CredInv'
  <1>1. /\ Activating' = Activating /\ t \notin Activating /\ Others' = Others \cup {t}
        /\ t \notin Others /\ Binding' = Binding
        /\ pc'[t] = "reset" /\ \A p \in Thread \ {t} : pc'[p] = pc[p]
    BY GotoSets DEF AskReset, Takes, Thread, Activating, Others, Binding
  <1>2. UNCHANGED <<owner, token, config, sent, stale>> /\ met' = met \cup Activating
    BY DEF AskReset, Takes, cloud
  <1>3. CleanInv' /\ FreshInv'
    BY <1>1, <1>2 DEF CredInv, CleanInv, FreshInv
  <1>4. ASSUME "apart" \notin blame'
        PROVE  Activating = {} /\ Others = {} /\ Binding = {} /\ blame' = blame
    BY <1>4 DEF AskReset
  <1>5. ApartInv'
    BY <1>1, <1>2, <1>4 DEF CredInv, ApartInv
  <1>6. ASSUME blame' = {} PROVE (AnsweredInv /\ SavedInv)'
    <2>1. \A p \in Thread : pc[p] # "erase"
      BY <1>4, <1>6 DEF Others
    <2> QED
      BY <1>1, <1>2, <1>4, <1>6, <2>1 DEF CredInv, MatchInv, AnsweredInv, SavedInv
  <1> QED
    BY <1>3, <1>5, <1>6 DEF CredInv, MatchInv

LEMMA CredReset ==
    ASSUME TypeOK, CredInv, NEW t \in Thread,
           ResetFails(t) \/ ResetAccepted(t) \/ SaveReset(t) \/ Authorized(t)
    PROVE  CredInv'
  <1> DEFINE l == pc'[t]
  <1>1. /\ t \in Others /\ Activating' = Activating /\ Binding' = Binding
        /\ Others' = (Others \ {t}) \cup (IF l = "erase" THEN {t} ELSE {})
        /\ l \notin {"request", "sent", "accepted", "reset", "authorize"}
        /\ \A p \in Thread \ {t} : pc'[p] = pc[p]
    <2>1. /\ Goto(t, l) /\ l \in {"close", "fail", "erase", "reboot"}
          /\ pc[t] \in {"reset", "erase", "authorize"}
      BY DEF ResetFails, ResetAccepted, SaveReset, Authorized, Goto, TypeOK
    <2> HIDE DEF l
    <2> QED
      BY <2>1, GotoSets DEF Activating, Others, Binding
  <1>2. /\ UNCHANGED <<token, sent, stale, met>>
        /\ "apart" \notin blame' => blame' = blame
    BY DEF ResetFails, ResetAccepted, SaveReset, Authorized, ask
  <1>3. CleanInv' /\ FreshInv'
    BY <1>1, <1>2 DEF CredInv, CleanInv, FreshInv, Activating
  <1>4. ASSUME "apart" \notin blame PROVE Others = {t} /\ Activating = {}
    BY <1>1, <1>4 DEF CredInv, ApartInv
  <1>5. CASE ResetFails(t) \/ Authorized(t)
    <2>1. /\ UNCHANGED <<owner, config>> /\ l \in {"close", "fail"}
          /\ "apart" \notin blame' => pc[t] # "erase" \/ "apart" \in blame
      BY <1>5 DEF ResetFails, Authorized, cloud, Goto, TypeOK
    <2>2. Others = {t} => \A p \in Thread : pc'[p] \notin {"reset", "erase"}
                                            /\ (p # t => pc[p] # "erase")
      BY <1>1, <2>1 DEF Others
    <2>3. ApartInv'
      BY <1>1, <1>2, <1>4, <2>1, <2>2 DEF CredInv, ApartInv
    <2>4. ASSUME blame' = {} PROVE (AnsweredInv /\ SavedInv)'
      <3>1. blame = {} /\ pc[t] # "erase"
        BY <1>2, <1>5, <2>4 DEF ResetFails, Authorized
      <3> QED
        BY <1>1, <1>4, <2>1, <2>2, <3>1 DEF CredInv, MatchInv, AnsweredInv, SavedInv
    <2> QED
      BY <1>3, <2>3, <2>4 DEF CredInv, MatchInv
  <1>6. CASE ResetAccepted(t)
    <2>1. l = "erase" /\ pc[t] = "reset" /\ UNCHANGED <<config, blame>>
      BY <1>6 DEF ResetAccepted, Goto, TypeOK
    <2>2. ApartInv'
      BY <1>1, <1>4, <2>1 DEF CredInv, ApartInv
    <2>3. ASSUME blame = {} PROVE (AnsweredInv /\ SavedInv)'
      BY <1>1, <1>4, <2>1, <2>3 DEF AnsweredInv, SavedInv
    <2> QED
      BY <1>3, <2>1, <2>2, <2>3 DEF CredInv, MatchInv
  <1>7. CASE SaveReset(t)
    <2>1. /\ ~config'.activated /\ ~config'.bound /\ blame' = blame /\ pc[t] = "erase"
          /\ l \in {"reboot", "fail"}
      BY <1>7 DEF SaveReset, Goto, TypeOK
    <2>2. "apart" \notin blame => Binding = {}
      BY <2>1 DEF CredInv, ApartInv
    <2>3. ApartInv'
      BY <1>1, <1>4, <2>1, <2>2 DEF ApartInv
    <2>4. ASSUME blame = {} PROVE (AnsweredInv /\ SavedInv)'
      BY <1>1, <1>4, <2>1, <2>4 DEF AnsweredInv, SavedInv
    <2> QED
      BY <1>3, <2>1, <2>3, <2>4 DEF CredInv, MatchInv
  <1> QED
    BY <1>5, <1>6, <1>7

(* The rest of the threads' steps, with Bind among them.                   *)
LEMMA CredQuiet ==
    ASSUME TypeOK, CredInv, NEW t \in Thread, NEW l, Goto(t, l),
           t \notin Activating, t \notin Others,
           l \notin {"request", "sent", "accepted", "authorize", "reset", "erase", "stop"},
           l = "bind" => pc[t] = "stop",
           UNCHANGED <<owner, token, sent, stale, met, blame>>,
           \/ config' = config
           \/ t \in Binding /\ config' = [config EXCEPT !.bound = TRUE]
    PROVE  CredInv'
  <1>1. /\ Activating' = Activating /\ Others' = Others /\ Binding' \subseteq Binding
        /\ pc'[t] = l /\ \A p \in Thread \ {t} : pc'[p] = pc[p]
    BY GotoSets DEF Binding
  <1>2. config'.activated = config.activated /\ config'.token = config.token
    BY DEF TypeOK
  <1>3. config'.bound => config.bound \/ Binding # {}
    BY DEF TypeOK
  <1>4. CleanInv' /\ FreshInv'
    BY <1>1 DEF CredInv, CleanInv, FreshInv, Activating
  <1>5. ApartInv'
    BY <1>1, <1>2, <1>3 DEF CredInv, ApartInv
  <1>6. ASSUME blame = {} PROVE AnsweredInv' /\ SavedInv'
    <2>1. AnsweredInv /\ SavedInv
      BY <1>6 DEF CredInv, MatchInv
    <2>2. AnsweredInv'
      BY <1>1, <2>1 DEF AnsweredInv, Activating
    <2>3. pc[t] # "erase"
      BY DEF Others
    <2> QED
      BY <1>1, <1>2, <2>1, <2>2, <2>3 DEF SavedInv, Activating
  <1> QED
    BY <1>4, <1>5, <1>6 DEF CredInv, MatchInv

LEMMA CredRestart ==
    ASSUME TypeOK, CredInv, Restart PROVE CredInv'
  <1>1. \A p \in Thread : pc'[p] \in {"start", "none"}
    BY DEF Restart
  <1>2. Activating' = {} /\ Others' = {} /\ Binding' = {}
    BY <1>1 DEF Activating, Others, Binding
  <1>3. ASSUME "apart" \notin blame'
        PROVE  blame' = blame /\ Activating = {} /\ \A p \in Thread : pc[p] # "erase"
    BY <1>3 DEF Restart, Others
  <1> QED
    BY <1>1, <1>2, <1>3 DEF Restart, CredInv, CleanInv, FreshInv, ApartInv, MatchInv,
        AnsweredInv, SavedInv

LEMMA CredStep == TypeInv /\ CredInv /\ [Next]_vars => CredInv'
  <1> SUFFICES ASSUME TypeOK, SlotInv, CredInv, [Next]_vars PROVE CredInv'
    BY DEF TypeInv
  <1>1. ASSUME NEW t \in Thread, Send(t) \/ Accepted(t) \/ RequestFails(t) \/ Save(t)
        PROVE  CredInv'
    BY <1>1, CredSend, CredAccepted, CredFails, CredSave
  <1>2. ASSUME NEW t \in Thread,
               ResetFails(t) \/ ResetAccepted(t) \/ SaveReset(t) \/ Authorized(t)
        PROVE CredInv'
    BY <1>2, CredReset
  <1>3. ASSUME NEW t \in Thread,
               ReadFd(t) \/ Stop(t) \/ Bind(t) \/ Close(t) \/ ReplyFailed(t) \/ GiveUp(t)
        PROVE CredInv'
    <2>1. /\ pc[t] \in {"created", "stop", "bind", "close", "fail", "wait"}
          /\ \E l \in {"wait", "bind", "done", "close", "fail"} :
                Goto(t, l) /\ (l = "bind" => pc[t] = "stop")
      BY <1>3 DEF ReadFd, Stop, Bind, Close, ReplyFailed, Closes, GiveUp
    <2>2. t \notin Activating /\ t \notin Others
      BY <2>1 DEF Activating, Others
    <2>3. UNCHANGED <<owner, token, sent, stale, met, blame>>
      BY <1>3 DEF ReadFd, Stop, Bind, Close, ReplyFailed, Closes, GiveUp, server, cloud, ask
    <2>4. \/ config' = config
          \/ t \in Binding /\ config' = [config EXCEPT !.bound = TRUE]
      BY <1>3 DEF ReadFd, Stop, Bind, Close, ReplyFailed, Closes, GiveUp, Binding
    <2> QED
      BY <2>1, <2>2, <2>3, <2>4, CredQuiet
  <1>4. ASSUME NEW t \in Conn, Activate(t) PROVE CredInv'
    BY <1>4, CredSetToken DEF Activate, Takes, Thread, cloud
  <1>5. ASSUME NEW t \in Conn, Authorize(t) \/ AskReset(t) PROVE CredInv'
    <2>1. CASE AskReset(t) \/ config.activated
      BY <1>5, <2>1, CredAuthorize, CredAskReset
    <2>2. CASE Authorize(t) /\ ~config.activated
      <3>1. t \in Thread /\ Goto(t, "fail") /\ t \notin Activating /\ t \notin Others
        BY <2>2 DEF Authorize, Takes, Thread, Activating, Others
      <3>2. UNCHANGED <<owner, token, sent, stale, met, blame, config>>
        BY <2>2 DEF Authorize, Takes, cloud
      <3> QED
        BY <3>1, <3>2, CredQuiet
    <2> QED
      BY <1>5, <2>1, <2>2
  <1>6. CASE MainSets
    BY <1>6, CredSetToken DEF MainSets, Thread, cloud
  <1>7. CASE MainStarts \/ MainFails \/ MainTests
    <2>1. \E l \in {"test", "exit", "loop", "set"} : Goto(Main, l)
      BY <1>7 DEF MainStarts, MainFails, MainTests
    <2>2. /\ Main \in Thread /\ Main \notin Activating /\ Main \notin Others
          /\ UNCHANGED <<owner, token, sent, stale, met, blame, config>>
      BY <1>7 DEF MainStarts, MainFails, MainTests, Thread, Activating, Others, cloud, ask
    <2> QED
      BY <2>1, <2>2, CredQuiet
  <1>8. CASE Create
    <2>1. slot \in Thread /\ slot \notin Activating /\ slot \notin Others
      BY <1>8 DEF Create, SlotInv, Thread, Activating, Others
    <2>2. Goto(slot, "created")
          /\ UNCHANGED <<owner, token, sent, stale, met, blame, config>>
      BY <1>8 DEF Create, Goto, cloud, ask
    <2> QED
      BY <2>1, <2>2, CredQuiet
  <1>9. ASSUME \/ UNCHANGED vars \/ Listen \/ CreateFails \/ \E t \in Conn : Accept(t)
        PROVE  CredInv'
    <2>1. UNCHANGED <<owner, token, sent, stale, met, blame, config, pc>>
      BY <1>9 DEF vars, Listen, CreateFails, Accept, cloud, ask
    <2> QED
      BY <2>1 DEF CredInv, CleanInv, FreshInv, ApartInv, MatchInv, AnsweredInv, SavedInv,
          Activating, Others, Binding
  <1>10. CASE Reboot \/ PowerFail
    BY <1>10, CredRestart DEF Reboot, PowerFail
  <1>11. ASSUME NEW k \in Token, TakenLate(k) PROVE CredInv'
    BY <1>11, CredTakenLate
  <1> QED
    BY <1>1, <1>2, <1>3, <1>4, <1>5, <1>6, <1>7, <1>8, <1>9, <1>10, <1>11
       DEF Next, ThreadStep, Asks, MainStep, ListenerStep

(* However the requests of the main thread and of phones interleave, on    *)
(* the cup, on their way and at the cloud (fogCloud.c:219-244), the token  *)
(* in the settings is the cloud's whenever nobody talks to the cloud, but  *)
(* for what CredentialsMatch names; and the next activation that succeeds  *)
(* alone repairs that.                                                     *)
THEOREM CredentialsMatchHolds == Spec => []CredentialsMatch
  <1>1. TypeInv /\ CredInv => CredentialsMatch
    BY DEF CredInv, ApartInv, MatchInv, CredentialsMatch, SavedInv, Others
  <1> QED
    BY <1>1, TypeInit, TypeStep, CredInit, CredStep, PTL DEF Spec

-----------------------------------------------------------------------------
(* Connections.                                                            *)

LEMMA LostInit == Init => NoneLost
  BY DEF Init, NoneLost

(* A step of a client's thread that leaves its connection to itself.       *)
LEMMA LostGoto ==
    ASSUME TypeOK, NoneLost, NEW t \in Thread, NEW l, Goto(t, l),
           l \notin {"none", "created", "done"}, pc[t] \notin {"none", "created", "done"},
           UNCHANGED <<fd, listener, slot, missed>>,
           \A c \in Conn : conn'[c] \in {"open", "read"} => conn[c] \in {"open", "read"}
    PROVE  NoneLost'
  BY DEF NoneLost, Goto, TypeOK, Thread

(* A thread ends only with its connection closed.                          *)
LEMMA LostCloses ==
    ASSUME TypeOK, NoneLost, NEW t \in Conn, Closes(t), pc[t] \in {"close", "fail"}
    PROVE  NoneLost'
  <1>1. \A c \in Conn : conn'[c] = IF c = fd[t] THEN "closed" ELSE conn[c]
    BY DEF Closes, TypeOK
  <1>2. /\ \A c \in Conn \ {t} : pc'[c] = pc[c]
        /\ UNCHANGED <<fd, listener, slot, missed>>
    BY DEF Closes, Goto, TypeOK, Thread
  <1> QED
    BY <1>1, <1>2 DEF NoneLost

(* A thread reads the descriptor of its own connection, or that of a later *)
(* one.                                                                    *)
LEMMA LostReadFd ==
    ASSUME TypeInv, NoneLost, NEW t \in Conn, ReadFd(t) PROVE NoneLost'
  <1>1. UNCHANGED <<conn, listener, slot, missed>>
    BY DEF ReadFd, server
  <1>2. /\ fd'[t] = slot /\ pc'[t] = "wait" /\ pc[t] = "created"
        /\ \A c \in Conn \ {t} : fd'[c] = fd[c] /\ pc'[c] = pc[c]
    BY DEF ReadFd, Goto, TypeInv, TypeOK, Thread
  <1> QED
    BY <1>1, <1>2 DEF NoneLost

LEMMA LostCreate == TypeInv /\ NoneLost /\ ListenerStep => NoneLost'
  <1> SUFFICES ASSUME TypeInv, NoneLost, ListenerStep PROVE NoneLost'
    OBVIOUS
  <1>1. CASE Listen
    BY <1>1 DEF Listen, NoneLost
  <1>2. CASE Create
    <2>1. /\ slot \in Conn /\ pc'[slot] = "created" /\ pc[slot] = "none"
          /\ \A c \in Conn \ {slot} : pc'[c] = pc[c]
          /\ UNCHANGED <<conn, fd, slot, missed>>
      BY <1>2 DEF Create, TypeInv, SlotInv, TypeOK, Thread
    <2> QED
      BY <1>2, <2>1 DEF Create, NoneLost
  <1>3. CASE CreateFails
    BY <1>3 DEF CreateFails, NoneLost
  <1> QED
    BY <1>1, <1>2, <1>3 DEF ListenerStep

LEMMA LostAccept ==
    ASSUME TypeInv, NoneLost, NEW c \in Conn, Accept(c) PROVE NoneLost'
  <1>1. /\ slot' = c /\ listener' = "create" /\ listener = "select"
        /\ missed' = missed \cup {d \in Conn : pc[d] = "created"}
        /\ UNCHANGED <<pc, fd>>
        /\ \A d \in Conn \ {c} : conn'[d] = conn[d]
    BY DEF Accept, TypeInv, TypeOK
  <1> QED
    BY <1>1 DEF NoneLost

LEMMA LostStep == TypeInv /\ NoneLost /\ [Next]_vars => NoneLost'
  <1> SUFFICES ASSUME TypeInv, NoneLost, [Next]_vars PROVE NoneLost'
    OBVIOUS
  <1>0. TypeOK /\ SlotInv /\ Main \notin Conn
    BY FogServiceAssumption DEF TypeInv
  <1>1. ASSUME NEW t \in Thread, ThreadStep(t) PROVE NoneLost'
    <2>1. CASE ReadFd(t) \/ Close(t) \/ ReplyFailed(t)
      <3>1. pc[t] \notin MainControl
        BY <2>1 DEF ReadFd, Close, ReplyFailed, MainControl
      <3>2. t \in Conn
        BY <1>0, <3>1 DEF TypeOK, ControlOK, Thread
      <3> QED
        BY <1>0, <2>1, <3>2, LostReadFd, LostCloses DEF Close, ReplyFailed
    <2>2. CASE \/ Send(t) \/ Accepted(t) \/ RequestFails(t) \/ Save(t) \/ Authorized(t)
               \/ ResetFails(t) \/ ResetAccepted(t) \/ SaveReset(t) \/ Stop(t) \/ Bind(t)
               \/ GiveUp(t)
      <3>1. /\ pc[t] \notin {"none", "created", "done"}
            /\ \E l \in Control \ {"none", "created", "done"} : Goto(t, l)
            /\ UNCHANGED <<fd, listener, slot, missed>>
        BY <2>2 DEF Send, Accepted, RequestFails, Save, Authorized, ResetFails, ResetAccepted,
            SaveReset, Stop, Bind, GiveUp, server, Control, MainControl, ClientControl
      <3>2. conn' = conn \/ conn' = [conn EXCEPT ![fd[t]] = "closed"]
        BY <2>2 DEF Send, Accepted, RequestFails, Save, Authorized, ResetFails, ResetAccepted,
            SaveReset, Stop, Bind, GiveUp, server
      <3>3. \A c \in Conn : conn'[c] \in {"open", "read"} => conn[c] \in {"open", "read"}
        BY <1>0, <3>2 DEF TypeOK
      <3> QED
        BY <1>0, <3>1, <3>3, LostGoto
    <2> QED
      BY <1>1, <2>1, <2>2 DEF ThreadStep
  <1>2. ASSUME NEW t \in Conn, Asks(t) PROVE NoneLost'
    <2>1. /\ pc[t] = "wait" /\ conn[fd[t]] = "open" /\ t \in Thread
          /\ conn' = [conn EXCEPT ![fd[t]] = "read"]
          /\ UNCHANGED <<fd, listener, slot, missed>>
      BY <1>2 DEF Asks, Activate, Authorize, AskReset, Takes, Thread
    <2>2. \E l \in Control \ {"none", "created", "done"} : Goto(t, l)
      BY <1>2 DEF Asks, Activate, Authorize, AskReset, SetToken, Control, MainControl,
          ClientControl
    <2>3. \A c \in Conn : conn'[c] \in {"open", "read"} => conn[c] \in {"open", "read"}
      BY <1>0, <2>1 DEF TypeOK
    <2> QED
      BY <1>0, <2>1, <2>2, <2>3, LostGoto
  <1>3. CASE MainStep
    <2>1. /\ \E l : Goto(Main, l)
          /\ UNCHANGED <<conn, fd, slot, missed>>
          /\ listener' = listener \/ listener = "off"
      BY <1>0, <1>3 DEF MainStep, MainStarts, MainFails, MainTests, MainSets, SetToken,
          server, SlotInv
    <2>2. \A c \in Conn : pc'[c] = pc[c]
      BY <1>0, <2>1 DEF Goto, TypeOK, Thread
    <2> QED
      BY <2>1, <2>2 DEF NoneLost
  <1>4. CASE Reboot \/ PowerFail
    <2>1. \A c \in Conn : conn'[c] \in {"new", "closed"}
      BY <1>4 DEF Reboot, PowerFail, Restart
    <2> QED
      BY <2>1 DEF NoneLost
  <1>5. CASE UNCHANGED vars \/ \E k \in Token : TakenLate(k)
    BY <1>5 DEF vars, server, TakenLate, NoneLost
  <1> QED
    BY <1>1, <1>2, <1>3, <1>4, <1>5, LostCreate, LostAccept DEF Next

(* The listener hands each new thread the address of its one descriptor    *)
(* (MicoFogCloudConfigServer.c:106-127); every connection is nevertheless  *)
(* kept by somebody until it is closed, but for those that NoneLost names. *)
THEOREM NoneLostHolds == Spec => []NoneLost
  BY TypeInit, TypeStep, LostInit, LostStep, PTL DEF Spec
=============================================================================

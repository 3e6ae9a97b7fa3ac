---------------------------- MODULE FogMsgQueue ----------------------------
(***************************************************************************)
(* The receive path for cloud messages of the SmartCup program:            *)
(*                                                                         *)
(*   - the FogCloud service thread calls cloudMsgArrivedHandler, hence     *)
(*     MicoFogCloudCloudMsgProcess, once per MQTT message ("cloud");       *)
(*   - user_downstream_thread polls MiCOFogCloudMsgRecv, parses the        *)
(*     message and frees it ("down").                                      *)
(*                                                                         *)
(* The two share the queue of message pointers, its mutex, the heap and    *)
(* the byte counter total_recv_buf_len.  The queue is only touched under   *)
(* the mutex; the counter is not, and each "+=" and "-=" on it is a load   *)
(* and a store of a volatile 32-bit word, between which the other thread   *)
(* may run.                                                                *)
(*                                                                         *)
(* The specification starts when fogcloud_main_thread has created mutex    *)
(* and queue and started the service: before that there are no callbacks,  *)
(* so the branches for a NULL queue are never taken.  Nor are the branches *)
(* for a pop from a full queue or a push into a non-full one that fails:   *)
(* the mutex excludes the only other user of the queue.                    *)
(***************************************************************************)
EXTENDS Naturals, Sequences

CONSTANTS
    QueueLength,   (* FOGCLOUD_MAX_RECV_QUEUE_LENGTH                          *)
    TotalBuf,      (* FOGCLOUD_TOTAL_BUF_LENGTH, in bytes                     *)
    HeaderSize,    (* sizeof(fogcloud_msg_t), the one fake data byte included *)
    BodyLens,      (* the values topicLen + inBufLen takes                    *)
    Word,          (* the modulus of a uint32_t                               *)
    MaxArrivals    (* exploration bound: callbacks made in one behaviour      *)

ASSUME QueueAssumption ==
    /\ QueueLength \in Nat \ {0}
    /\ TotalBuf \in Nat
    /\ HeaderSize \in Nat \ {0}
    /\ BodyLens \subseteq Nat
    /\ Word \in Nat \ {0}
    /\ MaxArrivals \in Nat

(* A message lies in memory when the callback gets it, and the memory is   *)
(* far smaller than what a uint32_t counts.                                *)
ASSUME MemoryAssumption ==
    \A len \in BodyLens : TotalBuf + HeaderSize + len < Word

VARIABLES
    queue,         (* msg_recv_queue: the messages pointed to, oldest first   *)
    mutex,         (* msg_recv_queue_mutex: its owner, "none" if free         *)
    total,         (* total_recv_buf_len                                      *)
    heap,          (* the arrival numbers of messages malloc'ed and not freed *)
    connected,     (* fogcloudStatus.isCloudConnected                         *)
    arrivals,      (* callbacks made so far; numbers the messages             *)
    ppc, pmsg, preg,   (* "cloud": control, real_msg, counter as loaded       *)
    cpc, cmsg, creg,   (* "down": control, recv_msg, counter as loaded        *)
    taken,         (* arrival number of the last message popped by "down"     *)
    overlap        (* history: both counter updates were once under way       *)

cloudVars == <<ppc, pmsg, preg>>
downVars  == <<cpc, cmsg, creg>>
vars == <<queue, mutex, total, heap, connected, arrivals,
          cloudVars, downVars, taken, overlap>>

NoMsg == [id |-> 0, len |-> 0]
Msg   == [id : 1 .. MaxArrivals, len : BodyLens]

(* real_msg_len, what a message adds to the counter when it is accepted.   *)
Counted(len) == HeaderSize + len

(* Mutant: a terminating byte is credited that was never counted. *)
CreditedTooMuch(len) == HeaderSize + 1 + len

(* What MiCOFogCloudMsgRecv takes off the counter for the same message.    *)
Credited(len) == HeaderSize - 1 + len

Init ==
    /\ queue = <<>>
    /\ mutex = "none"
    /\ total = 0
    /\ heap = {}
    /\ connected = FALSE
    /\ arrivals = 0
    /\ ppc = "idle" /\ pmsg = NoMsg /\ preg = 0
    /\ cpc = "idle" /\ cmsg = NoMsg /\ creg = 0
    /\ taken = 0
    /\ overlap = FALSE

-----------------------------------------------------------------------------
(* cloudServiceStatusChangedHandler, called by the FogCloud service.       *)
ServiceStatusChanged ==
    /\ connected' = ~connected
    /\ UNCHANGED <<queue, mutex, total, heap, arrivals, cloudVars, downVars,
                   taken, overlap>>

-----------------------------------------------------------------------------
(* MicoFogCloudCloudMsgProcess, run by the service thread.                 *)

OverLimit(len) == TotalBuf < (total + Counted(len)) % Word

Arrival ==
    /\ ppc = "idle"
    /\ connected
    /\ arrivals < MaxArrivals
    /\ arrivals' = arrivals + 1

Refuse(len) ==
    /\ Arrival
    /\ OverLimit(len)
    /\ UNCHANGED <<queue, mutex, total, heap, connected, cloudVars, downVars,
                   taken, overlap>>

MallocFails(len) ==
    /\ Arrival
    /\ ~OverLimit(len)
    /\ UNCHANGED <<queue, mutex, total, heap, connected, cloudVars, downVars,
                   taken, overlap>>

Accept(len) ==
    /\ Arrival
    /\ ~OverLimit(len)
    /\ pmsg' = [id |-> arrivals', len |-> len]
    /\ heap' = heap \cup {arrivals'}
    /\ ppc' = "load"
    /\ UNCHANGED <<queue, mutex, total, connected, preg, downVars, taken,
                   overlap>>

CloudLoad ==
    /\ ppc = "load"
    /\ preg' = total
    /\ ppc' = "store"
    /\ overlap' = (overlap \/ cpc = "store")
    /\ UNCHANGED <<queue, mutex, total, heap, connected, arrivals, pmsg,
                   downVars, taken>>

CloudStore ==
    /\ ppc = "store"
    /\ total' = (preg + Counted(pmsg.len)) % Word
    /\ preg' = 0
    /\ ppc' = "lock"
    /\ UNCHANGED <<queue, mutex, heap, connected, arrivals, pmsg, downVars,
                   taken, overlap>>

(* Mutant: the service thread goes on without the mutex. *)
CloudLockNoWait ==
    /\ ppc = "lock"
    /\ mutex' = "cloud"
    /\ ppc' = "check"
    /\ UNCHANGED <<queue, total, heap, connected, arrivals, pmsg, preg,
                   downVars, taken, overlap>>

CloudLock ==
    /\ ppc = "lock"
    /\ mutex = "none"
    /\ mutex' = "cloud"
    /\ ppc' = "check"
    /\ UNCHANGED <<queue, total, heap, connected, arrivals, pmsg, preg,
                   downVars, taken, overlap>>

(* Mutant: the test for a full queue is missing. *)
CloudCheckNeverFull ==
    /\ ppc = "check"
    /\ ppc' = "push"
    /\ UNCHANGED <<queue, mutex, total, heap, connected, arrivals, pmsg, preg,
                   downVars, taken, overlap>>

CloudCheck ==
    /\ ppc = "check"
    /\ ppc' = IF Len(queue) = QueueLength THEN "abandon" ELSE "push"
    /\ UNCHANGED <<queue, mutex, total, heap, connected, arrivals, pmsg, preg,
                   downVars, taken, overlap>>

(* Mutant: the abandoned message is popped but not freed. *)
CloudAbandonKeeps ==
    /\ ppc = "abandon"
    /\ queue # <<>>
    /\ queue' = Tail(queue)
    /\ ppc' = "push"
    /\ UNCHANGED <<mutex, total, heap, connected, arrivals, pmsg, preg,
                   downVars, taken, overlap>>

CloudAbandonOldest ==
    /\ ppc = "abandon"
    /\ queue # <<>>
    /\ queue' = Tail(queue)
    /\ heap' = heap \ {Head(queue).id}
    /\ ppc' = "push"
    /\ UNCHANGED <<mutex, total, connected, arrivals, pmsg, preg, downVars,
                   taken, overlap>>

(* Mutant: the new message overtakes the waiting ones. *)
CloudPushFront ==
    /\ ppc = "push"
    /\ queue' = <<pmsg>> \o queue
    /\ mutex' = "none"
    /\ ppc' = "idle"
    /\ pmsg' = NoMsg
    /\ UNCHANGED <<total, heap, connected, arrivals, preg, downVars, taken,
                   overlap>>

CloudPush ==
    /\ ppc = "push"
    /\ queue' = Append(queue, pmsg)
    /\ mutex' = "none"
    /\ ppc' = "idle"
    /\ pmsg' = NoMsg
    /\ UNCHANGED <<total, heap, connected, arrivals, preg, downVars, taken,
                   overlap>>

Cloud ==
    \/ CloudLoad
    \/ CloudStore
    \/ CloudLock
    \/ CloudCheck
    \/ CloudAbandonOldest
    \/ CloudPush

-----------------------------------------------------------------------------
(* user_downstream_thread and MiCOFogCloudMsgRecv.                         *)

(* Mutant: the downstream thread goes on without the mutex. *)
DownLockNoWait ==
    /\ cpc = "idle"
    /\ connected
    /\ mutex' = "down"
    /\ cpc' = "check"
    /\ UNCHANGED <<queue, total, heap, connected, arrivals, cloudVars, cmsg,
                   creg, taken, overlap>>

DownLock ==
    /\ cpc = "idle"
    /\ connected
    /\ mutex = "none"
    /\ mutex' = "down"
    /\ cpc' = "check"
    /\ UNCHANGED <<queue, total, heap, connected, arrivals, cloudVars, cmsg,
                   creg, taken, overlap>>

DownEmpty ==
    /\ cpc = "check"
    /\ queue = <<>>
    /\ mutex' = "none"
    /\ cpc' = "idle"
    /\ UNCHANGED <<queue, total, heap, connected, arrivals, cloudVars, cmsg,
                   creg, taken, overlap>>

DownPop ==
    /\ cpc = "check"
    /\ queue # <<>>
    /\ cmsg' = Head(queue)
    /\ queue' = Tail(queue)
    /\ taken' = Head(queue).id
    /\ mutex' = "none"
    /\ cpc' = "load"
    /\ UNCHANGED <<total, heap, connected, arrivals, cloudVars, creg, overlap>>

DownLoad ==
    /\ cpc = "load"
    /\ creg' = total
    /\ cpc' = "store"
    /\ overlap' = (overlap \/ ppc = "store")
    /\ UNCHANGED <<queue, mutex, total, heap, connected, arrivals, cloudVars,
                   cmsg, taken>>

DownStore ==
    /\ cpc = "store"
    /\ total' = (creg + Word - (Credited(cmsg.len) % Word)) % Word
    /\ creg' = 0
    /\ cpc' = "handle"
    /\ UNCHANGED <<queue, mutex, heap, connected, arrivals, cloudVars, cmsg,
                   taken, overlap>>

(* Mutant: the handled message is not freed. *)
DownHandleKeeps ==
    /\ cpc = "handle"
    /\ cmsg' = NoMsg
    /\ cpc' = "idle"
    /\ UNCHANGED <<queue, mutex, total, heap, connected, arrivals, cloudVars,
                   creg, taken, overlap>>

(* ParseOMfromCloud and IsParameterChanged, then free.                     *)
DownHandle ==
    /\ cpc = "handle"
    /\ heap' = heap \ {cmsg.id}
    /\ cmsg' = NoMsg
    /\ cpc' = "idle"
    /\ UNCHANGED <<queue, mutex, total, connected, arrivals, cloudVars, creg,
                   taken, overlap>>

Down ==
    \/ DownLock
    \/ DownEmpty
    \/ DownPop
    \/ DownLoad
    \/ DownStore
    \/ DownHandle

-----------------------------------------------------------------------------
Next ==
    \/ ServiceStatusChanged
    \/ \E len \in BodyLens : Refuse(len) \/ MallocFails(len) \/ Accept(len)
    \/ Cloud
    \/ Down

Spec == Init /\ [][Next]_vars

(* Both threads run whenever they can.  The downstream thread sleeps for a *)
(* second outside the mutex in every round, so neither thread is kept from *)
(* the mutex for ever: strong fairness of the two lock actions.  Callbacks *)
(* and the state of the connection are the network's and nothing is        *)
(* assumed of them.                                                        *)
FairSpec ==
    /\ Spec
    /\ WF_vars(Cloud) /\ SF_vars(CloudLock)
    /\ WF_vars(Down) /\ SF_vars(DownLock)
-----------------------------------------------------------------------------
(* The type of the state: the queue never holds more than its places.      *)
TypeOK ==
    /\ queue \in Seq(Msg)
    /\ Len(queue) <= QueueLength
    /\ mutex \in {"none", "cloud", "down"}
    /\ total \in 0 .. Word - 1
    /\ heap \subseteq 1 .. MaxArrivals
    /\ connected \in BOOLEAN
    /\ arrivals \in 0 .. MaxArrivals
    /\ ppc \in {"idle", "load", "store", "lock", "check", "abandon", "push"}
    /\ pmsg \in Msg \cup {NoMsg}
    /\ preg \in 0 .. Word - 1
    /\ cpc \in {"idle", "check", "load", "store", "handle"}
    /\ cmsg \in Msg \cup {NoMsg}
    /\ creg \in 0 .. Word - 1
    /\ taken \in 0 .. MaxArrivals
    /\ overlap \in BOOLEAN

QueueIds == {queue[i].id : i \in 1 .. Len(queue)}
CloudIds == IF ppc = "idle" THEN {} ELSE {pmsg.id}
DownIds  == IF cpc \in {"load", "store", "handle"} THEN {cmsg.id} ELSE {}

(* Every message whose memory is allocated is reachable from exactly one   *)
(* place, the queue or one thread's local pointer, and none of these       *)
(* points to freed memory: neither the abandon path nor the two threads    *)
(* leak a message, free it twice or keep it after the other freed it.      *)
Ownership ==
    /\ heap = QueueIds \cup CloudIds \cup DownIds
    /\ QueueIds \cap CloudIds = {}
    /\ QueueIds \cap DownIds = {}
    /\ CloudIds \cap DownIds = {}

(* Messages wait in order of arrival, and everything waiting arrived after *)
(* everything the downstream thread has taken, overruns included.          *)
ArrivalOrder ==
    /\ \A i, j \in 1 .. Len(queue) : i < j => queue[i].id < queue[j].id
    /\ \A i \in 1 .. Len(queue) : taken < queue[i].id

(* A message is abandoned only while QueueLength messages wait: the        *)
(* fullness test and the pop that makes room cannot be separated by a pop  *)
(* of the downstream thread.                                               *)
AbandonOnlyWhenFull ==
    [][ \A id \in heap \ heap' : id \in QueueIds => Len(queue) = QueueLength ]_vars

(* The mailbox the two threads see: the new message counts as in it from   *)
(* the moment there is room, under the mutex, to the push.                 *)
Box == IF ppc = "push" THEN Append(queue, pmsg) ELSE queue

MB == INSTANCE Mailbox WITH Capacity <- QueueLength, Message <- Msg, box <- Box

(* The queue with its fullness test, pop and push implements the atomic    *)
(* drop-oldest mailbox: nobody sees it between the pop and the push.       *)
MailboxSpec == MB!MBSpec

(* The bytes of a sequence of messages, as the counter takes them in.      *)
Bytes(msgs) ==
    LET sum[n \in 0 .. Len(msgs)] ==
            IF n = 0 THEN 0 ELSE sum[n - 1] + Counted(msgs[n].len)
    IN  sum[Len(msgs)]

(* The bytes of the messages the counter has taken in and not yet given    *)
(* back: those queued, the one the service thread has yet to queue and the *)
(* one the downstream thread has yet to credit.                            *)
HeldBytes ==
    Bytes(queue)
      + (IF ppc \in {"lock", "check", "abandon", "push"} THEN Counted(pmsg.len) ELSE 0)
      + (IF cpc \in {"load", "store"} THEN Counted(cmsg.len) ELSE 0)

(* As long as the two unprotected updates of total_recv_buf_len have never *)
(* overlapped, the counter never falls below the bytes really held and     *)
(* never passes the limit, so it does not wrap: the overlap is the only    *)
(* way to an undercount.                                                   *)
NoUndercountWithoutOverlap ==
    ~overlap => HeldBytes <= total /\ total <= TotalBuf

(* While the cloud stays connected, the memory of every message that was   *)
(* accepted is eventually freed: handled or abandoned, it does not stay.   *)
EventuallyFreed ==
    <>[]connected =>
        \A id \in 1 .. MaxArrivals : (id \in heap) ~> (id \notin heap)
=============================================================================

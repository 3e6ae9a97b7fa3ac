------------------------- MODULE FogMsgQueue_proofs -------------------------
(***************************************************************************)
(* Proofs about FogMsgQueue, for every queue length, size limit, header    *)
(* size, set of message sizes, word width and number of callbacks.         *)
(***************************************************************************)
EXTENDS FogMsgQueue, SequenceTheorems, WellFoundedInduction, TLAPS

(* Who holds the mutex is where its program counter says so. *)
Locking ==
    /\ mutex = "cloud" <=> ppc \in {"check", "abandon", "push"}
    /\ mutex = "down" <=> cpc = "check"

(* What CloudCheck found out about the queue is still so when it is used. *)
Room ==
    /\ ppc = "abandon" => Len(queue) = QueueLength
    /\ ppc = "push" => Len(queue) < QueueLength

(* Messages carry the number of their callback; the service thread works   *)
(* on the newest one, the downstream thread on the last one it popped.     *)
Numbering ==
    /\ taken <= arrivals
    /\ \A i \in 1 .. Len(queue) : queue[i].id <= arrivals
    /\ ppc # "idle" =>
        /\ pmsg \in Msg
        /\ pmsg.id = arrivals
        /\ taken < arrivals
        /\ \A i \in 1 .. Len(queue) : queue[i].id < arrivals
    /\ cpc \in {"load", "store", "handle"} => cmsg \in Msg /\ cmsg.id = taken

(* The inductive invariant. *)
IInv ==
    /\ TypeOK
    /\ Locking
    /\ Room
    /\ ArrivalOrder
    /\ Numbering
    /\ Ownership
-----------------------------------------------------------------------------
(* Arithmetic modulo the word stays within the word. *)
LEMMA ModRange ==
    ASSUME NEW n \in Int, NEW w \in Nat \ {0}
    PROVE  n % w \in 0 .. w - 1
  OBVIOUS

(* The elements and the length of a sequence after one push. *)
LEMMA AppendFacts ==
    ASSUME NEW S, NEW s \in Seq(S), NEW e \in S
    PROVE  /\ Append(s, e) \in Seq(S)
           /\ Len(Append(s, e)) = Len(s) + 1
           /\ \A i \in 1 .. Len(s) : Append(s, e)[i] = s[i]
           /\ Append(s, e)[Len(s) + 1] = e
  OBVIOUS

(* The elements and the length of a sequence after one pop. *)
LEMMA TailFacts ==
    ASSUME NEW S, NEW s \in Seq(S), s # <<>>
    PROVE  /\ Len(s) \in Nat \ {0}
           /\ Head(s) = s[1]
           /\ Head(s) \in S
           /\ Tail(s) \in Seq(S)
           /\ Len(Tail(s)) = Len(s) - 1
           /\ \A i \in 1 .. Len(Tail(s)) : Tail(s)[i] = s[i + 1]
  <1>1. Len(s) \in Nat \ {0}
    BY EmptySeq
  <1>2. Head(s) = s[1]
    BY <1>1
  <1>3. QED
    BY <1>1, <1>2, HeadTailProperties

(* A push adds the identifier of the new message to those queued. *)
LEMMA PushIds ==
    ASSUME NEW s \in Seq(Msg), NEW e \in Msg
    PROVE  {Append(s, e)[i].id : i \in 1 .. Len(Append(s, e))}
             = {s[i].id : i \in 1 .. Len(s)} \cup {e.id}
  <1>1. /\ Len(Append(s, e)) = Len(s) + 1
        /\ \A i \in 1 .. Len(s) : Append(s, e)[i] = s[i]
        /\ Append(s, e)[Len(s) + 1] = e
        /\ Len(s) \in Nat
    BY AppendFacts, LenProperties
  <1>2. ASSUME NEW i \in 1 .. Len(s) + 1
        PROVE  Append(s, e)[i].id \in {s[j].id : j \in 1 .. Len(s)} \cup {e.id}
    <2>1. CASE i \in 1 .. Len(s)
      BY <1>1, <2>1
    <2>2. CASE i = Len(s) + 1
      BY <1>1, <2>2
    <2>3. QED
      BY <1>1, <2>1, <2>2
  <1>3. ASSUME NEW i \in 1 .. Len(s)
        PROVE  s[i].id \in {Append(s, e)[j].id : j \in 1 .. Len(s) + 1}
    BY <1>1
  <1>4. e.id \in {Append(s, e)[j].id : j \in 1 .. Len(s) + 1}
    <2>1. Len(s) + 1 \in 1 .. Len(s) + 1
      BY <1>1
    <2>2. QED
      BY <1>1, <2>1
  <1>5. QED
    BY <1>1, <1>2, <1>3, <1>4

(* A pop takes exactly the identifier of the oldest message away, because  *)
(* the queued identifiers increase.                                        *)
LEMMA PopIds ==
    ASSUME NEW s \in Seq(Msg), s # <<>>,
           \A i, j \in 1 .. Len(s) : i < j => s[i].id < s[j].id
    PROVE  /\ Head(s).id \in {s[i].id : i \in 1 .. Len(s)}
           /\ {Tail(s)[i].id : i \in 1 .. Len(Tail(s))}
                = {s[i].id : i \in 1 .. Len(s)} \ {Head(s).id}
  <1>1. /\ Len(s) \in Nat \ {0}
        /\ Head(s) = s[1]
        /\ Len(Tail(s)) = Len(s) - 1
        /\ \A i \in 1 .. Len(Tail(s)) : Tail(s)[i] = s[i + 1]
    BY TailFacts
  <1>2. \A i \in 1 .. Len(s) : s[i].id \in 1 .. MaxArrivals
    <2>1. \A i \in 1 .. Len(s) : s[i] \in Msg
      BY ElementOfSeq
    <2>2. QED
      BY <2>1 DEF Msg
  <1>3. Head(s).id \in {s[i].id : i \in 1 .. Len(s)}
    BY <1>1
  <1>4. ASSUME NEW i \in 1 .. Len(Tail(s))
        PROVE  Tail(s)[i].id \in {s[j].id : j \in 1 .. Len(s)} \ {Head(s).id}
    <2>1. i + 1 \in 1 .. Len(s) /\ 1 \in 1 .. Len(s) /\ 1 < i + 1
      BY <1>1
    <2>2. s[1].id < s[i + 1].id
      BY <2>1
    <2>3. s[1].id # s[i + 1].id
      BY <1>2, <2>1, <2>2, QueueAssumption
    <2>4. QED
      BY <1>1, <2>1, <2>3
  <1>5. ASSUME NEW j \in 1 .. Len(s), s[j].id # Head(s).id
        PROVE  s[j].id \in {Tail(s)[i].id : i \in 1 .. Len(Tail(s))}
    <2>1. j - 1 \in 1 .. Len(Tail(s)) /\ (j - 1) + 1 = j
      BY <1>1, <1>5
    <2>2. Tail(s)[j - 1] = s[j]
      BY <1>1, <2>1
    <2>3. QED
      BY <2>1, <2>2
  <1>6. QED
    BY <1>3, <1>4, <1>5
-----------------------------------------------------------------------------
LEMMA InitInv == Init => IInv
  <1> SUFFICES ASSUME Init
               PROVE  IInv
    OBVIOUS
  <1>1. queue \in Seq(Msg) /\ Len(queue) = 0
    BY EmptySeq DEF Init
  <1>2. TypeOK
    <2>1. 0 \in 0 .. Word - 1 /\ 0 \in 0 .. MaxArrivals /\ 0 <= QueueLength
      BY QueueAssumption
    <2>2. connected \in BOOLEAN /\ overlap \in BOOLEAN
      BY Zenon DEF Init
    <2>3. QED
      BY <1>1, <2>1, <2>2 DEF Init, TypeOK
  <1>3. Locking /\ Room /\ ArrivalOrder
    BY <1>1 DEF Init, Locking, Room, ArrivalOrder
  <1>4. Numbering
    BY <1>1 DEF Init, Numbering
  <1>5. Ownership
    BY <1>1 DEF Init, Ownership, QueueIds, CloudIds, DownIds
  <1>6. QED
    BY <1>2, <1>3, <1>4, <1>5 DEF IInv

(* A message that is not taken in only counts. *)
LEMMA ArrivalInv ==
    ASSUME IInv, Arrival,
           UNCHANGED <<queue, mutex, total, heap, connected, cloudVars, downVars,
                       taken, overlap>>
    PROVE  IInv'
  <1>1. /\ ppc = "idle" /\ arrivals \in Nat /\ MaxArrivals \in Nat
        /\ arrivals' = arrivals + 1 /\ arrivals < MaxArrivals
        /\ taken \in Nat
    BY QueueAssumption DEF Arrival, IInv, TypeOK
  <1>2. TypeOK'
    BY <1>1 DEF IInv, TypeOK, cloudVars, downVars
  <1>3. Locking' /\ Room' /\ ArrivalOrder'
    BY DEF IInv, Locking, Room, ArrivalOrder, cloudVars, downVars
  <1>4. Numbering'
    <2>1. \A i \in 1 .. Len(queue) : queue[i] \in Msg
      BY ElementOfSeq DEF IInv, TypeOK
    <2>2. \A i \in 1 .. Len(queue) : queue[i].id \in Nat
      BY <1>1, <2>1 DEF Msg
    <2>3. /\ taken <= arrivals'
          /\ \A i \in 1 .. Len(queue) : queue[i].id <= arrivals'
      BY <1>1, <2>2 DEF IInv, Numbering
    <2> QED
      BY <1>1, <2>3 DEF IInv, Numbering, cloudVars, downVars
  <1>5. Ownership'
    BY DEF IInv, Ownership, QueueIds, CloudIds, DownIds, cloudVars, downVars
  <1> QED
    BY <1>2, <1>3, <1>4, <1>5 DEF IInv

(* Steps that leave the queue, the heap and the mutex alone. *)
LEMMA QuietStepInv ==
    ASSUME IInv,
           \/ ServiceStatusChanged
           \/ \E len \in BodyLens : Refuse(len) \/ MallocFails(len)
           \/ CloudLoad \/ CloudStore \/ DownLoad \/ DownStore
           \/ UNCHANGED vars
    PROVE  IInv'
  <1> USE QueueAssumption
  <1> USE DEF IInv, Locking, Room, ArrivalOrder, Numbering, Ownership, QueueIds,
              CloudIds, DownIds, vars, cloudVars, downVars
  <1>1. CASE ServiceStatusChanged
    BY <1>1 DEF ServiceStatusChanged, TypeOK
  <1>2. ASSUME NEW len \in BodyLens, Refuse(len)
        PROVE  IInv'
    BY <1>2, ArrivalInv DEF Refuse
  <1>3. ASSUME NEW len \in BodyLens, MallocFails(len)
        PROVE  IInv'
    BY <1>3, ArrivalInv DEF MallocFails
  <1>4. CASE CloudLoad
    BY <1>4 DEF CloudLoad, TypeOK
  <1>5. CASE CloudStore
    <2>1. pmsg.len \in Nat
      BY <1>5 DEF CloudStore, Msg
    <2>2. preg + Counted(pmsg.len) \in Int
      BY <2>1 DEF Counted, TypeOK
    <2>3. total' \in 0 .. Word - 1
      BY <1>5, <2>2, ModRange DEF CloudStore
    <2>4. QED
      BY <1>5, <2>3 DEF CloudStore, TypeOK
  <1>6. CASE DownLoad
    BY <1>6 DEF DownLoad, TypeOK
  <1>7. CASE DownStore
    <2>1. cmsg.len \in Nat
      BY <1>7 DEF DownStore, Msg
    <2>2. Credited(cmsg.len) \in Int
      BY <2>1 DEF Credited
    <2>3. Credited(cmsg.len) % Word \in 0 .. Word - 1
      BY <2>2, ModRange
    <2>4. creg + Word - (Credited(cmsg.len) % Word) \in Int
      BY <2>3 DEF TypeOK
    <2>5. total' \in 0 .. Word - 1
      BY <1>7, <2>4, ModRange DEF DownStore
    <2>6. QED
      BY <1>7, <2>5 DEF DownStore, TypeOK
  <1>8. CASE UNCHANGED vars
    BY <1>8 DEF TypeOK
  <1> QED
    BY <1>1, <1>2, <1>3, <1>4, <1>5, <1>6, <1>7, <1>8
(* The service thread takes in a message: it gets a number of its own. *)
LEMMA AcceptInv ==
    ASSUME IInv, NEW len \in BodyLens, Accept(len)
    PROVE  IInv'
  <1> USE QueueAssumption DEF Accept, Arrival, IInv
  <1>1. /\ pmsg' \in Msg
        /\ pmsg'.id = arrivals'
        /\ arrivals' = arrivals + 1
        /\ arrivals' \in 1 .. MaxArrivals
    BY DEF TypeOK, Msg
  <1>2. TypeOK'
    <2>1. heap' \subseteq 1 .. MaxArrivals
      BY <1>1 DEF TypeOK
    <2>2. connected' \in BOOLEAN /\ overlap' \in BOOLEAN
      BY Zenon DEF TypeOK
    <2>3. arrivals' \in 0 .. MaxArrivals
      BY <1>1
    <2>4. QED
      BY <1>1, <2>1, <2>2, <2>3 DEF TypeOK, downVars
  <1>3. Locking' /\ Room' /\ ArrivalOrder'
    BY DEF Locking, Room, ArrivalOrder, downVars
  <1>4. \A i \in 1 .. Len(queue) : queue[i].id \in Nat
    <2>1. \A i \in 1 .. Len(queue) : queue[i] \in Msg
      BY ElementOfSeq DEF TypeOK
    <2>2. QED
      BY <2>1 DEF Msg
  <1>5. Numbering'
    BY <1>1, <1>4 DEF Numbering, TypeOK, downVars
  <1>6. /\ QueueIds' = QueueIds
        /\ DownIds' = DownIds
        /\ CloudIds = {}
        /\ CloudIds' = {arrivals + 1}
    BY <1>1 DEF QueueIds, DownIds, CloudIds, downVars
  <1>7. arrivals + 1 \notin QueueIds /\ arrivals + 1 \notin DownIds
    BY <1>4 DEF Numbering, QueueIds, DownIds, TypeOK
  <1>8. Ownership'
    BY <1>1, <1>6, <1>7 DEF Ownership
  <1>9. QED
    BY <1>2, <1>3, <1>5, <1>8

(* Taking the mutex and testing the queue. *)
LEMMA LockStepInv ==
    ASSUME IInv, CloudLock \/ CloudCheck \/ DownLock \/ DownEmpty
    PROVE  IInv'
  <1> USE QueueAssumption
      DEF IInv, TypeOK, Locking, Room, ArrivalOrder, Numbering, Ownership,
          QueueIds, CloudIds, DownIds, cloudVars, downVars
  <1>1. CASE CloudLock
    BY <1>1 DEF CloudLock
  <1>2. CASE CloudCheck
    BY <1>2, LenProperties DEF CloudCheck
  <1>3. CASE DownLock
    BY <1>3 DEF DownLock
  <1>4. CASE DownEmpty
    BY <1>4 DEF DownEmpty
  <1>5. QED
    BY <1>1, <1>2, <1>3, <1>4
(* Identifiers of queued messages are numbers. *)
LEMMA QueuedIds ==
    ASSUME TypeOK
    PROVE  /\ Len(queue) \in Nat
           /\ \A i \in 1 .. Len(queue) : queue[i].id \in 1 .. MaxArrivals
  <1>1. /\ Len(queue) \in Nat
        /\ \A i \in 1 .. Len(queue) : queue[i] \in Msg
    BY LenProperties, ElementOfSeq DEF TypeOK
  <1>2. QED
    BY <1>1 DEF Msg

(* The push hands the message over from the service thread to the queue.   *)
LEMMA PushInv ==
    ASSUME IInv, CloudPush
    PROVE  IInv'
  <1> USE QueueAssumption DEF CloudPush, IInv, downVars
  <1>1. /\ ppc = "push"
        /\ pmsg \in Msg
        /\ pmsg.id = arrivals
        /\ taken < arrivals
        /\ \A i \in 1 .. Len(queue) : queue[i].id < arrivals
    BY DEF Numbering
  <1>2. /\ queue' \in Seq(Msg)
        /\ Len(queue') = Len(queue) + 1
        /\ \A i \in 1 .. Len(queue) : queue'[i] = queue[i]
        /\ queue'[Len(queue) + 1] = pmsg
    BY <1>1, AppendFacts DEF TypeOK
  <1>3. /\ Len(queue) \in Nat
        /\ \A i \in 1 .. Len(queue) : queue[i].id \in 1 .. MaxArrivals
    BY QueuedIds
  <1>4. \A i \in 1 .. Len(queue') : i \in 1 .. Len(queue) \/ i = Len(queue) + 1
    BY <1>2, <1>3
  <1>5. TypeOK'
    <2>1. Len(queue') <= QueueLength
      BY <1>1, <1>2, <1>3 DEF Room
    <2>2. connected' \in BOOLEAN /\ overlap' \in BOOLEAN
      BY Zenon DEF TypeOK
    <2>3. QED
      BY <1>2, <2>1, <2>2 DEF TypeOK
  <1>6. Locking' /\ Room'
    BY DEF Locking, Room, TypeOK
  <1>7. ArrivalOrder'
    <2>1. ASSUME NEW i \in 1 .. Len(queue'), NEW j \in 1 .. Len(queue'), i < j
          PROVE  queue'[i].id < queue'[j].id
      <3>1. i \in 1 .. Len(queue)
        BY <1>2, <1>3, <2>1
      <3>2. CASE j \in 1 .. Len(queue)
        BY <1>2, <2>1, <3>1, <3>2 DEF ArrivalOrder
      <3>3. CASE j = Len(queue) + 1
        BY <1>1, <1>2, <3>1, <3>3
      <3>4. QED
        BY <1>4, <3>2, <3>3
    <2>2. \A i \in 1 .. Len(queue') : taken' < queue'[i].id
      BY <1>1, <1>2, <1>4 DEF ArrivalOrder
    <2>3. QED
      BY <2>1, <2>2 DEF ArrivalOrder
  <1>8. Numbering'
    <2>1. \A i \in 1 .. Len(queue') : queue'[i].id <= arrivals'
      BY <1>1, <1>2, <1>4 DEF Numbering, TypeOK
    <2>2. QED
      BY <2>1 DEF Numbering
  <1>9. Ownership'
    <2>1. /\ QueueIds' = QueueIds \cup {pmsg.id}
          /\ CloudIds = {pmsg.id}
          /\ CloudIds' = {}
          /\ DownIds' = DownIds
      BY <1>1, PushIds DEF QueueIds, CloudIds, DownIds, TypeOK
    <2>2. QED
      BY <2>1 DEF Ownership
  <1>10. QED
    BY <1>5, <1>6, <1>7, <1>8, <1>9

(* What a pop leaves behind: a shorter queue with the same order. *)
LEMMA PopQueue ==
    ASSUME IInv, queue # <<>>, queue' = Tail(queue)
    PROVE  /\ Head(queue) \in Msg
           /\ Head(queue).id \in 1 .. MaxArrivals
           /\ Head(queue).id <= arrivals
           /\ taken < Head(queue).id
           /\ queue' \in Seq(Msg)
           /\ Len(queue') = Len(queue) - 1
           /\ \A i \in 1 .. Len(queue') : queue'[i] = queue[i + 1]
           /\ \A i \in 1 .. Len(queue') : i + 1 \in 1 .. Len(queue)
           /\ \A i, j \in 1 .. Len(queue') : i < j => queue'[i].id < queue'[j].id
           /\ \A i \in 1 .. Len(queue') : Head(queue).id < queue'[i].id
           /\ Head(queue).id \in QueueIds
           /\ QueueIds' = QueueIds \ {Head(queue).id}
  <1> USE DEF IInv
  <1>1. /\ Len(queue) \in Nat \ {0}
        /\ Head(queue) = queue[1]
        /\ Head(queue) \in Msg
        /\ queue' \in Seq(Msg)
        /\ Len(queue') = Len(queue) - 1
        /\ \A i \in 1 .. Len(queue') : queue'[i] = queue[i + 1]
    BY TailFacts DEF TypeOK
  <1>2. 1 \in 1 .. Len(queue)
    BY <1>1
  <1>3. \A i \in 1 .. Len(queue') : i + 1 \in 1 .. Len(queue) /\ 1 < i + 1
    BY <1>1
  <1>4. \A i, j \in 1 .. Len(queue') : i < j => i + 1 < j + 1
    BY <1>1
  <1>5. /\ Head(queue).id <= arrivals
        /\ taken < Head(queue).id
        /\ Head(queue).id \in 1 .. MaxArrivals
    BY <1>1, <1>2, QueuedIds DEF Numbering, ArrivalOrder
  <1>6. \A i, j \in 1 .. Len(queue') : i < j => queue'[i].id < queue'[j].id
    BY <1>1, <1>3, <1>4 DEF ArrivalOrder
  <1>7. \A i \in 1 .. Len(queue') : Head(queue).id < queue'[i].id
    BY <1>1, <1>2, <1>3 DEF ArrivalOrder
  <1>8. /\ Head(queue).id \in QueueIds
        /\ QueueIds' = QueueIds \ {Head(queue).id}
    BY PopIds DEF QueueIds, TypeOK, ArrivalOrder
  <1>9. QED
    BY <1>1, <1>3, <1>5, <1>6, <1>7, <1>8
(* Abandoning the oldest message frees exactly that message. *)
LEMMA AbandonInv ==
    ASSUME IInv, CloudAbandonOldest
    PROVE  IInv'
  <1> USE QueueAssumption DEF CloudAbandonOldest, IInv, downVars
  <1>1. /\ queue' \in Seq(Msg)
        /\ Len(queue') = Len(queue) - 1
        /\ Len(queue) = QueueLength
        /\ \A i \in 1 .. Len(queue') : queue'[i] = queue[i + 1]
        /\ \A i \in 1 .. Len(queue') : i + 1 \in 1 .. Len(queue)
        /\ \A i, j \in 1 .. Len(queue') : i < j => queue'[i].id < queue'[j].id
        /\ Head(queue).id \in QueueIds
        /\ QueueIds' = QueueIds \ {Head(queue).id}
    BY PopQueue DEF Room
  <1>2. TypeOK'
    <2>1. connected' \in BOOLEAN /\ overlap' \in BOOLEAN
      BY Zenon DEF TypeOK
    <2>2. heap' \subseteq 1 .. MaxArrivals
      BY DEF TypeOK
    <2>3. QED
      BY <1>1, <2>1, <2>2 DEF TypeOK
  <1>3. Locking' /\ Room'
    BY <1>1 DEF Locking, Room, TypeOK
  <1>4. ArrivalOrder'
    BY <1>1 DEF ArrivalOrder
  <1>5. Numbering'
    BY <1>1 DEF Numbering
  <1>6. Ownership'
    BY <1>1 DEF Ownership, CloudIds, DownIds
  <1>7. QED
    BY <1>2, <1>3, <1>4, <1>5, <1>6

(* The pop hands the oldest message over to the downstream thread. *)
LEMMA DownPopInv ==
    ASSUME IInv, DownPop
    PROVE  IInv'
  <1> USE QueueAssumption DEF DownPop, IInv, cloudVars
  <1>1. /\ cmsg' \in Msg
        /\ cmsg'.id = taken'
        /\ taken' = Head(queue).id
        /\ taken' \in 1 .. MaxArrivals
        /\ taken' <= arrivals
        /\ queue' \in Seq(Msg)
        /\ Len(queue') = Len(queue) - 1
        /\ \A i \in 1 .. Len(queue') : queue'[i] = queue[i + 1]
        /\ \A i \in 1 .. Len(queue') : i + 1 \in 1 .. Len(queue)
        /\ \A i, j \in 1 .. Len(queue') : i < j => queue'[i].id < queue'[j].id
        /\ \A i \in 1 .. Len(queue') : taken' < queue'[i].id
        /\ taken' \in QueueIds
        /\ QueueIds' = QueueIds \ {taken'}
    BY PopQueue
  <1>2. Len(queue) \in Nat \ {0}
    BY TailFacts DEF TypeOK
  <1>3. TypeOK'
    <2>1. connected' \in BOOLEAN /\ overlap' \in BOOLEAN
      BY Zenon DEF TypeOK
    <2>2. taken' \in 0 .. MaxArrivals
      BY <1>1
    <2>3. Len(queue') <= QueueLength
      BY <1>1, <1>2 DEF TypeOK
    <2>4. QED
      BY <1>1, <2>1, <2>2, <2>3 DEF TypeOK
  <1>4. Locking' /\ Room'
    BY DEF Locking, Room, TypeOK
  <1>5. ArrivalOrder'
    BY <1>1 DEF ArrivalOrder
  <1>6. Numbering'
    <2>1. \A i \in 1 .. Len(queue') : queue'[i].id <= arrivals'
      BY <1>1 DEF Numbering
    <2>2. ppc' # "idle" => /\ taken' < arrivals'
                          /\ \A i \in 1 .. Len(queue') : queue'[i].id < arrivals'
      <3>1. 1 \in 1 .. Len(queue) /\ taken' = queue[1].id
        BY <1>1, <1>2, TailFacts DEF TypeOK
      <3>2. QED
        BY <1>1, <3>1 DEF Numbering
    <2>3. QED
      BY <1>1, <2>1, <2>2 DEF Numbering
  <1>7. Ownership'
    <2>1. /\ DownIds = {}
          /\ DownIds' = {taken'}
          /\ CloudIds' = CloudIds
      BY <1>1 DEF DownIds, CloudIds
    <2>2. QED
      BY <1>1, <2>1 DEF Ownership
  <1>8. QED
    BY <1>3, <1>4, <1>5, <1>6, <1>7

(* The downstream thread frees the message it handled, and only that one.  *)
LEMMA HandleInv ==
    ASSUME IInv, DownHandle
    PROVE  IInv'
  <1> USE QueueAssumption DEF DownHandle, IInv, cloudVars
  <1>1. TypeOK'
    <2>1. connected' \in BOOLEAN /\ overlap' \in BOOLEAN
      BY Zenon DEF TypeOK
    <2>2. heap' \subseteq 1 .. MaxArrivals
      BY DEF TypeOK
    <2>3. QED
      BY <2>1, <2>2 DEF TypeOK
  <1>2. Locking' /\ Room' /\ ArrivalOrder' /\ Numbering'
    BY DEF Locking, Room, ArrivalOrder, Numbering, TypeOK
  <1>3. Ownership'
    <2>1. /\ DownIds = {cmsg.id}
          /\ DownIds' = {}
          /\ CloudIds' = CloudIds
          /\ QueueIds' = QueueIds
      BY DEF DownIds, CloudIds, QueueIds
    <2>2. QED
      BY <2>1 DEF Ownership
  <1>4. QED
    BY <1>1, <1>2, <1>3

LEMMA StepInv == IInv /\ [Next]_vars => IInv'
  <1> SUFFICES ASSUME IInv, [Next]_vars
               PROVE  IInv'
    OBVIOUS
  <1>1. CASE ServiceStatusChanged
    BY <1>1, QuietStepInv
  <1>2. CASE \E len \in BodyLens : Refuse(len) \/ MallocFails(len) \/ Accept(len)
    BY <1>2, QuietStepInv, AcceptInv
  <1>3. CASE Cloud
    BY <1>3, QuietStepInv, LockStepInv, AbandonInv, PushInv DEF Cloud
  <1>4. CASE Down
    BY <1>4, QuietStepInv, LockStepInv, DownPopInv, HandleInv DEF Down
  <1>5. CASE UNCHANGED vars
    BY <1>5, QuietStepInv
  <1>6. QED
    BY <1>1, <1>2, <1>3, <1>4, <1>5 DEF Next

LEMMA Invariance == Spec => []IInv
  BY InitInv, StepInv, PTL DEF Spec

(* The variables keep their types: in particular the queue never holds     *)
(* more than QueueLength messages, though it is refilled after an overrun. *)
THEOREM TypeCorrect == Spec => []TypeOK
  <1>1. IInv => TypeOK
    BY DEF IInv
  <1>2. QED
    BY <1>1, Invariance, PTL

(* No message of the receive path is leaked, freed twice or used after it  *)
(* was freed, whatever the interleaving of the two threads.                *)
THEOREM OwnershipHolds == Spec => []Ownership
  <1>1. IInv => Ownership
    BY DEF IInv
  <1>2. QED
    BY <1>1, Invariance, PTL

(* Messages are handled in the order of their arrival, overruns included.  *)
THEOREM ArrivalOrderHolds == Spec => []ArrivalOrder
  <1>1. IInv => ArrivalOrder
    BY DEF IInv
  <1>2. QED
    BY <1>1, Invariance, PTL
-----------------------------------------------------------------------------
(* Only two steps free memory: the overrun, of a full queue, and the       *)
(* downstream thread's, of a message that is no longer queued.             *)
LEMMA AbandonStep ==
    IInv /\ [Next]_vars
      => [\A id \in heap \ heap' : id \in QueueIds => Len(queue) = QueueLength]_vars
  <1> SUFFICES ASSUME IInv, Next,
                      NEW id \in heap \ heap', id \in QueueIds
               PROVE  Len(queue) = QueueLength
    OBVIOUS
  <1>1. CASE CloudAbandonOldest
    BY <1>1 DEF IInv, Room, CloudAbandonOldest
  <1>2. CASE DownHandle
    BY <1>2 DEF IInv, Ownership, DownIds, DownHandle
  <1>3. CASE heap \subseteq heap'
    BY <1>3
  <1>4. QED
    BY <1>1, <1>2, <1>3
       DEF Next, Cloud, Down, ServiceStatusChanged, Refuse, MallocFails, Accept,
           CloudLoad, CloudStore, CloudLock, CloudCheck, CloudPush, DownLock,
           DownEmpty, DownPop, DownLoad, DownStore

(* An overrun abandons a message only of a queue that is really full: the  *)
(* fullness test and the pop are one under the mutex.                      *)
THEOREM AbandonHolds == Spec => AbandonOnlyWhenFull
  BY Invariance, AbandonStep, PTL DEF Spec, AbandonOnlyWhenFull

-----------------------------------------------------------------------------
LEMMA MailboxInit == Init => MB!MBInit
  BY DEF Init, MB!MBInit, Box

(* Steps that leave the mailbox as it is. *)
LEMMA MailboxStutter ==
    ASSUME IInv,
           \/ ServiceStatusChanged
           \/ \E len \in BodyLens : Refuse(len) \/ MallocFails(len) \/ Accept(len)
           \/ CloudLoad \/ CloudStore \/ CloudLock \/ CloudPush
           \/ DownLock \/ DownEmpty \/ DownLoad \/ DownStore \/ DownHandle
           \/ UNCHANGED vars
    PROVE  UNCHANGED MB!mbvars
  BY DEF MB!mbvars, Box, ServiceStatusChanged, Refuse, MallocFails, Accept,
         Arrival, CloudLoad, CloudStore, CloudLock, CloudPush, DownLock, DownEmpty,
         DownLoad, DownStore, DownHandle, vars, cloudVars, downVars

(* The message the service thread works on is newer than all in the queue. *)
LEMMA WorkedOnIsNewest ==
    ASSUME IInv, ppc # "idle", ppc # "push"
    PROVE  /\ pmsg \in Msg
           /\ MB!IsNewest(pmsg)
  BY DEF IInv, Numbering, MB!IsNewest, Box

(* Finding room puts the message in. *)
LEMMA CheckPuts ==
    ASSUME IInv, CloudCheck
    PROVE  MB!MBNext \/ UNCHANGED MB!mbvars
  <1>1. CASE Len(queue) = QueueLength
    BY <1>1 DEF CloudCheck, Box, MB!mbvars
  <1>2. CASE Len(queue) # QueueLength
    <2>1. pmsg \in Msg /\ MB!IsNewest(pmsg)
      BY WorkedOnIsNewest DEF CloudCheck
    <2>2. Box = queue /\ Box' = Append(queue, pmsg) /\ taken' = taken
      BY <1>2 DEF CloudCheck, Box
    <2>3. MB!Put(pmsg)
      BY <1>2, <2>1, <2>2 DEF MB!Put
    <2>4. QED
      BY <2>1, <2>3 DEF MB!MBNext
  <1>3. QED
    BY <1>1, <1>2

(* Making room for the message puts it in, in the place of the oldest. *)
LEMMA AbandonPuts ==
    ASSUME IInv, CloudAbandonOldest
    PROVE  MB!MBNext
  <1>1. pmsg \in Msg /\ MB!IsNewest(pmsg)
    BY WorkedOnIsNewest DEF CloudAbandonOldest
  <1>2. /\ Box = queue
        /\ Box' = Append(Tail(queue), pmsg)
        /\ taken' = taken
        /\ Len(queue) = QueueLength
    BY DEF CloudAbandonOldest, Box, IInv, Room
  <1>3. MB!Put(pmsg)
    BY <1>1, <1>2 DEF MB!Put
  <1>4. QED
    BY <1>1, <1>3 DEF MB!MBNext

(* The downstream thread's pop takes: it holds the mutex, so no message is *)
(* between the room made for it and the push.                              *)
LEMMA PopTakes ==
    ASSUME IInv, DownPop
    PROVE  MB!MBNext
  <1>1. ppc # "push"
    BY DEF IInv, Locking, DownPop
  <1>2. Box = queue /\ Box' = Tail(queue)
    BY <1>1 DEF Box, DownPop, cloudVars
  <1>3. QED
    BY <1>2 DEF MB!MBNext, MB!Take, DownPop

(* The receive queue implements the atomic drop-oldest mailbox. *)
THEOREM ImplementsMailbox == Spec => MailboxSpec
  <1>1. IInv /\ [Next]_vars => [MB!MBNext]_(MB!mbvars)
    <2> SUFFICES ASSUME IInv, [Next]_vars
                 PROVE  MB!MBNext \/ UNCHANGED MB!mbvars
      OBVIOUS
    <2>1. CASE CloudCheck
      BY <2>1, CheckPuts
    <2>2. CASE CloudAbandonOldest
      BY <2>2, AbandonPuts
    <2>3. CASE DownPop
      BY <2>3, PopTakes
    <2>4. CASE UNCHANGED vars
      BY <2>4, MailboxStutter
    <2>5. QED
      BY <2>1, <2>2, <2>3, <2>4, MailboxStutter DEF Next, Cloud, Down
  <1>2. QED
    BY MailboxInit, Invariance, <1>1, PTL DEF Spec, MailboxSpec, MB!MBSpec
-----------------------------------------------------------------------------
(* What a message counts is a number of bytes. *)
LEMMA CountedNat ==
    ASSUME NEW m \in Msg
    PROVE  /\ m.len \in BodyLens
           /\ m.len \in Nat
           /\ Counted(m.len) \in Nat
           /\ Credited(m.len) \in Nat
           /\ Counted(m.len) = Credited(m.len) + 1
  <1>1. m.len \in BodyLens
    BY DEF Msg
  <1>2. m.len \in Nat /\ HeaderSize \in Nat /\ HeaderSize # 0
    BY <1>1, QueueAssumption
  <1>3. QED
    BY <1>1, <1>2 DEF Counted, Credited

(* f is the table of the bytes of the first 0, 1, ... n messages of s. *)
IsTable(f, s, n) ==
    f = [k \in 0 .. n |-> IF k = 0 THEN 0 ELSE f[k - 1] + Counted(s[k].len)]

(* A property of numbers that fails somewhere has a least number where it  *)
(* fails: the induction of this module.                                    *)
LEMMA LeastNumber ==
    ASSUME NEW T, T \subseteq Nat, T # {}
    PROVE  \E x \in T : \A y \in T : x <= y
  <1>1. IsWellFoundedOn(OpToRel(<, Nat), Nat)
    BY NatLessThanWellFounded
  <1>2. PICK x \in T : \A y \in T : ~ (<<y, x>> \in OpToRel(<, Nat))
    BY <1>1, WFMin
  <1>3. \A y \in T : ~ (y < x)
    BY <1>2 DEF OpToRel
  <1>4. QED
    BY <1>3

(* There is such a table of every sequence ... *)
LEMMA TableExists ==
    ASSUME NEW s, NEW n \in Nat
    PROVE  \E f : IsTable(f, s, n)
  <1> DEFINE T == {m \in Nat : ~ \E f : IsTable(f, s, m)}
  <1>1. SUFFICES ASSUME T # {}
                 PROVE  FALSE
    OBVIOUS
  <1>2. PICK m \in T : \A y \in T : m <= y
    BY <1>1, LeastNumber
  <1>3. CASE m = 0
    <2>1. IsTable([k \in 0 .. 0 |-> 0], s, 0)
      BY DEF IsTable
    <2>2. QED
      BY <1>3, <2>1
  <1>4. CASE m # 0
    <2>1. m - 1 \in Nat /\ m - 1 \notin T /\ m \in Nat
      BY <1>2, <1>4
    <2>2. PICK f : IsTable(f, s, m - 1)
      BY <2>1
    <2> DEFINE g == [k \in 0 .. m |->
                        IF k = m THEN f[m - 1] + Counted(s[m].len) ELSE f[k]]
    <2>3. ASSUME NEW k \in 0 .. m
          PROVE  g[k] = IF k = 0 THEN 0 ELSE g[k - 1] + Counted(s[k].len)
      <3>1. CASE k = m
        <4>1. m - 1 \in 0 .. m /\ m - 1 # m
          BY <2>1
        <4>2. g[m - 1] = f[m - 1]
          BY <4>1
        <4>3. QED
          BY <1>4, <3>1, <4>2
      <3>2. CASE k # m
        <4>1. k \in 0 .. (m - 1)
          BY <2>1, <3>2
        <4>2. f[k] = IF k = 0 THEN 0 ELSE f[k - 1] + Counted(s[k].len)
          BY <2>2, <4>1 DEF IsTable
        <4>3. CASE k = 0
          BY <3>2, <4>2, <4>3
        <4>4. CASE k # 0
          <5>1. k - 1 \in 0 .. m /\ k - 1 # m
            BY <2>1, <4>1, <4>4
          <5>2. g[k - 1] = f[k - 1] /\ g[k] = f[k]
            BY <3>2, <5>1
          <5>3. QED
            BY <4>2, <4>4, <5>2
        <4>5. QED
          BY <4>3, <4>4
      <3>3. QED
        BY <3>1, <3>2
    <2>4. IsTable(g, s, m)
      <3>1. g = [k \in 0 .. m |-> g[k]]
        OBVIOUS
      <3>2. QED
        BY <2>3, <3>1 DEF IsTable
    <2>5. QED
      BY <2>4
  <1>5. QED
    BY <1>3, <1>4

(* ... and only one. *)
LEMMA TableUnique ==
    ASSUME NEW s, NEW n \in Nat, NEW f, NEW g, IsTable(f, s, n), NEW m \in Nat,
           n <= m, IsTable(g, s, m)
    PROVE  f[n] = g[n]
  <1> DEFINE T == {k \in 0 .. n : f[k] # g[k]}
  <1>1. SUFFICES ASSUME T # {}
                 PROVE  FALSE
    OBVIOUS
  <1>2. PICK k \in T : \A y \in T : k <= y
    <2>1. T \subseteq Nat
      OBVIOUS
    <2>2. QED
      BY <1>1, <2>1, LeastNumber
  <1>3. k \in 0 .. n /\ k \in 0 .. m
    OBVIOUS
  <1>4. /\ f[k] = IF k = 0 THEN 0 ELSE f[k - 1] + Counted(s[k].len)
        /\ g[k] = IF k = 0 THEN 0 ELSE g[k - 1] + Counted(s[k].len)
    BY <1>3 DEF IsTable
  <1>5. CASE k = 0
    BY <1>4, <1>5
  <1>6. CASE k # 0
    <2>1. k - 1 \in 0 .. n /\ ~ (k <= k - 1)
      BY <1>3, <1>6
    <2>2. f[k - 1] = g[k - 1]
      BY <1>2, <2>1
    <2>3. QED
      BY <1>4, <1>6, <2>2
  <1>7. QED
    BY <1>5, <1>6

(* The bytes of a sequence are what stands last in its table. *)
LEMMA BytesOfTable ==
    ASSUME NEW s, Len(s) \in Nat, NEW f, IsTable(f, s, Len(s))
    PROVE  Bytes(s) = f[Len(s)]
  <1> DEFINE t == CHOOSE h : IsTable(h, s, Len(s))
  <1>1. IsTable(t, s, Len(s))
    BY TableExists
  <1>2. Bytes(s) = t[Len(s)]
    BY DEF Bytes, IsTable
  <1>3. QED
    BY <1>1, <1>2, TableUnique

(* The table of a sequence of messages holds numbers. *)
LEMMA TableNat ==
    ASSUME NEW s \in Seq(Msg), NEW n \in 0 .. Len(s), NEW f, IsTable(f, s, n)
    PROVE  f \in [0 .. n -> Nat]
  <1> DEFINE T == {k \in 0 .. n : f[k] \notin Nat}
  <1>1. Len(s) \in Nat /\ n \in Nat /\ n <= Len(s)
    BY LenProperties
  <1>2. ASSUME T # {}
        PROVE  FALSE
    <2>1. T \subseteq Nat
      BY <1>1
    <2>2. PICK k \in T : \A y \in T : k <= y
      BY <1>2, <2>1, LeastNumber
    <2>3. f[k] = IF k = 0 THEN 0 ELSE f[k - 1] + Counted(s[k].len)
      BY DEF IsTable
    <2>4. k # 0
      BY <2>3
    <2>5. k - 1 \in 0 .. n /\ ~ (k <= k - 1) /\ k \in 1 .. Len(s)
      BY <1>1, <2>4
    <2>6. f[k - 1] \in Nat
      BY <2>2, <2>5
    <2>7. s[k] \in Msg
      BY <2>5, ElementOfSeq
    <2>8. Counted(s[k].len) \in Nat
      BY <2>7, CountedNat
    <2>9. QED
      BY <2>3, <2>4, <2>6, <2>8
  <1>3. f = [k \in 0 .. n |-> f[k]]
    BY DEF IsTable
  <1>4. QED
    BY <1>2, <1>3

LEMMA BytesNat ==
    ASSUME NEW s \in Seq(Msg)
    PROVE  Bytes(s) \in Nat
  <1>1. Len(s) \in Nat /\ Len(s) \in 0 .. Len(s)
    BY LenProperties
  <1>2. PICK f : IsTable(f, s, Len(s))
    BY <1>1, TableExists
  <1>3. f \in [0 .. Len(s) -> Nat]
    BY <1>1, <1>2, TableNat
  <1>4. QED
    BY <1>1, <1>2, <1>3, BytesOfTable

LEMMA BytesEmpty == Bytes(<<>>) = 0
  <1>1. Len(<<>>) = 0
    OBVIOUS
  <1>2. PICK f : IsTable(f, <<>>, 0)
    BY TableExists
  <1>3. f[0] = 0
    BY <1>2 DEF IsTable
  <1>4. QED
    BY <1>1, <1>2, <1>3, BytesOfTable

(* A push adds the bytes of its message. *)
LEMMA BytesAppend ==
    ASSUME NEW s \in Seq(Msg), NEW e \in Msg
    PROVE  Bytes(Append(s, e)) = Bytes(s) + Counted(e.len)
  <1> DEFINE a == Append(s, e)
             n == Len(s)
  <1>1. /\ n \in Nat
        /\ Len(a) = n + 1
        /\ \A i \in 1 .. n : a[i] = s[i]
        /\ a[n + 1] = e
    BY AppendFacts, LenProperties
  <1>2. PICK f : IsTable(f, a, n + 1)
    BY <1>1, TableExists
  <1>3. PICK g : IsTable(g, s, n)
    BY <1>1, TableExists
  <1>4. IsTable(g, a, n)
    <2>1. ASSUME NEW k \in 0 .. n
          PROVE  g[k] = IF k = 0 THEN 0 ELSE g[k - 1] + Counted(a[k].len)
      <3>1. g[k] = IF k = 0 THEN 0 ELSE g[k - 1] + Counted(s[k].len)
        BY <1>3 DEF IsTable
      <3>2. k # 0 => a[k] = s[k]
        BY <1>1
      <3>3. QED
        BY <3>1, <3>2
    <2>2. g = [k \in 0 .. n |-> g[k]]
      BY <1>3 DEF IsTable
    <2>3. QED
      BY <2>1, <2>2 DEF IsTable
  <1>5. f[n] = g[n]
    <2>1. n + 1 \in Nat /\ n <= n + 1
      BY <1>1
    <2>2. QED
      BY <1>1, <1>2, <1>4, <2>1, TableUnique
  <1>6. f[n + 1] = f[n] + Counted(e.len)
    <2>1. n + 1 \in 0 .. n + 1 /\ n + 1 # 0 /\ (n + 1) - 1 = n
      BY <1>1
    <2>2. f[n + 1] = f[(n + 1) - 1] + Counted(a[n + 1].len)
      BY <1>2, <2>1 DEF IsTable
    <2>3. QED
      BY <1>1, <2>1, <2>2
  <1>7. Bytes(a) = f[n + 1]
    <2>1. Len(a) \in Nat /\ IsTable(f, a, Len(a))
      BY <1>1, <1>2
    <2>2. Bytes(a) = f[Len(a)]
      BY <2>1, BytesOfTable
    <2>3. QED
      BY <1>1, <2>2
  <1>8. Bytes(s) = g[n]
    BY <1>1, <1>3, BytesOfTable
  <1>9. QED
    BY <1>5, <1>6, <1>7, <1>8

(* A pop takes the bytes of the oldest message away. *)
LEMMA BytesTail ==
    ASSUME NEW s \in Seq(Msg), s # <<>>
    PROVE  Bytes(s) = Bytes(Tail(s)) + Counted(Head(s).len)
  <1> DEFINE t == Tail(s)
             n == Len(t)
             c == Counted(Head(s).len)
  <1>1. /\ n \in Nat
        /\ Len(s) = n + 1
        /\ Head(s) = s[1]
        /\ Head(s) \in Msg
        /\ \A i \in 1 .. n : t[i] = s[i + 1]
    BY TailFacts
  <1>2. c \in Nat
    BY <1>1, CountedNat
  <1>3. PICK f : IsTable(f, s, n + 1)
    <2>1. n + 1 \in Nat
      BY <1>1
    <2>2. QED
      BY <2>1, TableExists
  <1>4. f \in [0 .. n + 1 -> Nat]
    <2>1. n + 1 \in 0 .. Len(s)
      BY <1>1
    <2>2. QED
      BY <1>3, <2>1, TableNat
  <1>5. \A k \in 1 .. n + 1 : f[k] = f[k - 1] + Counted(s[k].len)
    BY <1>1, <1>3 DEF IsTable
  <1>6. f[0] = 0
    BY <1>1, <1>3 DEF IsTable
  <1> DEFINE g == [k \in 0 .. n |-> f[k + 1] - c]
  <1>7. ASSUME NEW k \in 0 .. n
        PROVE  g[k] = IF k = 0 THEN 0 ELSE g[k - 1] + Counted(t[k].len)
    <2>1. g[k] = f[k + 1] - c
      OBVIOUS
    <2>2. f[k + 1] = f[k] + Counted(s[k + 1].len)
      <3>1. k + 1 \in 1 .. n + 1 /\ (k + 1) - 1 = k
        BY <1>1
      <3>2. QED
        BY <1>5, <3>1
    <2>3. CASE k = 0
      <3>1. f[k + 1] = 0 + c
        BY <1>1, <1>6, <2>2, <2>3
      <3>2. QED
        BY <1>2, <2>1, <2>3, <3>1
    <2>4. CASE k # 0
      <3>1. k - 1 \in 0 .. n /\ (k - 1) + 1 = k /\ k \in 1 .. n /\ k \in 0 .. n + 1
        BY <1>1, <2>4
      <3>2. g[k - 1] = f[k] - c
        BY <3>1
      <3>3. t[k] = s[k + 1]
        BY <1>1, <3>1
      <3>4. Counted(s[k + 1].len) \in Int
        <4>1. s[k + 1] \in Msg
          BY <1>1, <3>1, ElementOfSeq
        <4>2. QED
          BY <4>1, CountedNat
      <3>5. f[k] \in Int
        BY <1>4, <3>1
      <3>6. (f[k] + Counted(s[k + 1].len)) - c = (f[k] - c) + Counted(s[k + 1].len)
        BY <1>2, <3>4, <3>5
      <3>7. QED
        BY <2>1, <2>2, <2>4, <3>2, <3>3, <3>6
    <2>5. QED
      BY <2>3, <2>4
  <1>8. IsTable(g, t, n)
    <2>1. g = [k \in 0 .. n |-> g[k]]
      OBVIOUS
    <2>2. QED
      BY <1>7, <2>1 DEF IsTable
  <1>9. Bytes(s) = f[n + 1] /\ Bytes(t) = g[n]
    BY <1>1, <1>3, <1>8, BytesOfTable
  <1>10. g[n] = f[n + 1] - c /\ f[n + 1] \in Int
    <2>1. n \in 0 .. n /\ n + 1 \in 0 .. n + 1
      BY <1>1
    <2>2. QED
      BY <1>4, <2>1
  <1>11. f[n + 1] = (f[n + 1] - c) + c
    BY <1>2, <1>10
  <1>12. QED
    BY <1>9, <1>10, <1>11
-----------------------------------------------------------------------------
(* The accounting, as long as the two updates of the counter never met: at *)
(* most one of them is under way and what it loaded is still the counter,  *)
(* and a message on its way into the counter has room below the limit.     *)
Accounting ==
    ~overlap =>
        /\ ~(ppc = "store" /\ cpc = "store")
        /\ ppc = "store" => preg = total
        /\ cpc = "store" => creg = total
        /\ HeldBytes <= total
        /\ total <= TotalBuf
        /\ ppc \in {"load", "store"} => total + Counted(pmsg.len) <= TotalBuf

LEMMA AccountingInit == Init => Accounting
  <1> SUFFICES ASSUME Init
               PROVE  Accounting
    OBVIOUS
  <1>1. HeldBytes = 0
    BY BytesEmpty DEF Init, HeldBytes
  <1>2. QED
    BY <1>1, QueueAssumption DEF Init, Accounting

(* The three parts of the bytes held are numbers. *)
LEMMA HeldParts ==
    ASSUME IInv
    PROVE  /\ Bytes(queue) \in Nat
           /\ total \in Nat
           /\ ppc # "idle" => Counted(pmsg.len) \in Nat
           /\ cpc \in {"load", "store"} => Counted(cmsg.len) \in Nat
           /\ HeldBytes \in Nat
  <1>1. Bytes(queue) \in Nat
    BY BytesNat DEF IInv, TypeOK
  <1>2. ppc # "idle" => Counted(pmsg.len) \in Nat
    BY CountedNat DEF IInv, Numbering
  <1>3. cpc \in {"load", "store"} => Counted(cmsg.len) \in Nat
    BY CountedNat DEF IInv, Numbering
  <1>4. total \in Nat
    BY QueueAssumption DEF IInv, TypeOK
  <1>5. QED
    BY <1>1, <1>2, <1>3, <1>4 DEF HeldBytes

(* Below the limit no sum of the service thread wraps. *)
LEMMA NoWrap ==
    ASSUME NEW n \in Nat, n <= TotalBuf, NEW m \in Msg
    PROVE  (n + Counted(m.len)) % Word = n + Counted(m.len)
  <1>1. m.len \in BodyLens /\ m.len \in Nat /\ HeaderSize \in Nat
        /\ TotalBuf \in Nat /\ Word \in Nat \ {0}
    BY CountedNat, QueueAssumption
  <1>2. TotalBuf + HeaderSize + m.len < Word
    BY <1>1, MemoryAssumption
  <1>3. n + Counted(m.len) \in 0 .. Word - 1
    BY <1>1, <1>2 DEF Counted
  <1>4. QED
    BY <1>1, <1>3

(* Nor does a difference, as long as it credits what was counted. *)
LEMMA NoBorrow ==
    ASSUME NEW n \in Nat, n < Word, NEW m \in Msg, Counted(m.len) <= n
    PROVE  (n + Word - (Credited(m.len) % Word)) % Word = n - Credited(m.len)
  <1>1. /\ Credited(m.len) \in Nat
        /\ Counted(m.len) = Credited(m.len) + 1
        /\ Word \in Nat \ {0}
    BY CountedNat, QueueAssumption
  <1>2. Credited(m.len) % Word = Credited(m.len)
    BY <1>1
  <1>3. n - Credited(m.len) \in 0 .. Word - 1
    BY <1>1
  <1>4. (n - Credited(m.len) + Word) % Word = n - Credited(m.len)
    BY <1>1, <1>3
  <1>5. n + Word - Credited(m.len) = n - Credited(m.len) + Word
    BY <1>1
  <1>6. QED
    BY <1>2, <1>4, <1>5

(* Steps that touch neither the counter nor the bytes held. *)
LEMMA AccountingQuiet ==
    ASSUME IInv, Accounting,
           \/ ServiceStatusChanged
           \/ \E len \in BodyLens : Refuse(len) \/ MallocFails(len)
           \/ CloudLock \/ CloudCheck \/ DownLock \/ DownEmpty \/ DownHandle
           \/ UNCHANGED vars
    PROVE  Accounting'
  <1>1. UNCHANGED <<queue, total, pmsg, preg, creg, overlap>>
    BY DEF ServiceStatusChanged, Refuse, MallocFails, CloudLock, CloudCheck,
           DownLock, DownEmpty, DownHandle, vars, cloudVars, downVars
  <1>2. /\ ppc' # ppc => ppc \in {"lock", "check"} /\ ppc' \in {"check", "abandon", "push"}
        /\ cpc \in {"load", "store"} => cpc' = cpc /\ cmsg' = cmsg
        /\ cpc' \in {"load", "store"} => cpc' = cpc /\ cmsg' = cmsg
    BY DEF ServiceStatusChanged, Refuse, MallocFails, CloudLock, CloudCheck,
           DownLock, DownEmpty, DownHandle, vars, cloudVars, downVars
  <1>3. HeldBytes' = HeldBytes
    <2>1. Bytes(queue)' = Bytes(queue)
      BY <1>1 DEF Bytes
    <2>2. (ppc \in {"lock", "check", "abandon", "push"})'
             = (ppc \in {"lock", "check", "abandon", "push"})
      BY <1>2
    <2>3. QED
      BY <1>1, <1>2, <2>1, <2>2 DEF HeldBytes
  <1>4. QED
    BY <1>1, <1>2, <1>3 DEF Accounting

(* A message taken in has passed the test against the limit. *)
LEMMA AccountingAccept ==
    ASSUME IInv, Accounting, NEW len \in BodyLens, Accept(len)
    PROVE  Accounting'
  <1> USE DEF Accept, Arrival, downVars
  <1>1. /\ ppc = "idle" /\ ppc' = "load" /\ pmsg'.len = len
        /\ UNCHANGED <<queue, total, cpc, cmsg, creg, overlap>>
    OBVIOUS
  <1>2. HeldBytes' = HeldBytes
    BY <1>1 DEF HeldBytes, Bytes
  <1>3. ASSUME ~overlap
        PROVE  total + Counted(len) <= TotalBuf
    <2>1. total \in Nat /\ total <= TotalBuf
      BY <1>3, HeldParts DEF Accounting
    <2>2. [id |-> 1, len |-> len] \in Msg
      BY QueueAssumption DEF IInv, TypeOK, Msg
    <2>3. (total + Counted(len)) % Word = total + Counted(len)
      BY <2>1, <2>2, NoWrap
    <2>4. Counted(len) \in Nat
      BY <2>2, CountedNat
    <2>5. ~ (TotalBuf < (total + Counted(len)) % Word)
      BY DEF OverLimit
    <2>6. QED
      BY <2>1, <2>3, <2>4, <2>5, QueueAssumption
  <1>4. QED
    BY <1>1, <1>2, <1>3 DEF Accounting

(* A load: if the other update is under way, the two have met. *)
LEMMA AccountingLoad ==
    ASSUME IInv, Accounting, CloudLoad \/ DownLoad
    PROVE  Accounting'
  <1>1. CASE CloudLoad
    <2>1. HeldBytes' = HeldBytes
      BY <1>1 DEF CloudLoad, HeldBytes, Bytes, downVars
    <2>2. QED
      BY <1>1, <2>1 DEF CloudLoad, Accounting, downVars
  <1>2. CASE DownLoad
    <2>1. HeldBytes' = HeldBytes
      BY <1>2 DEF DownLoad, HeldBytes, Bytes, cloudVars
    <2>2. QED
      BY <1>2, <2>1 DEF DownLoad, Accounting, cloudVars
  <1>3. QED
    BY <1>1, <1>2

(* The service thread's store counts its message in full. *)
LEMMA AccountingCloudStore ==
    ASSUME IInv, Accounting, CloudStore
    PROVE  Accounting'
  <1> USE DEF CloudStore, downVars
  <1>1. SUFFICES ASSUME ~overlap
                 PROVE  Accounting'
    BY DEF Accounting
  <1>2. pmsg \in Msg /\ Counted(pmsg.len) \in Nat /\ total \in Nat
    BY CountedNat, HeldParts DEF IInv, Numbering
  <1>3. preg = total /\ total <= TotalBuf /\ total + Counted(pmsg.len) <= TotalBuf
    BY <1>1 DEF Accounting
  <1>4. total' = total + Counted(pmsg.len)
    BY <1>2, <1>3, NoWrap
  <1>5. HeldBytes' = HeldBytes + Counted(pmsg.len)
    <2>1. Bytes(queue)' = Bytes(queue)
      BY DEF Bytes
    <2>2. QED
      BY <1>2, <2>1, HeldParts DEF HeldBytes
  <1>6. HeldBytes' <= total'
    BY <1>1, <1>2, <1>4, <1>5, HeldParts DEF Accounting
  <1>7. cpc # "store"
    BY <1>1 DEF Accounting
  <1>8. QED
    BY <1>3, <1>4, <1>6, <1>7 DEF Accounting

(* The downstream thread's store credits one byte less than was counted.   *)
LEMMA AccountingDownStore ==
    ASSUME IInv, Accounting, DownStore
    PROVE  Accounting'
  <1> USE DEF DownStore, cloudVars
  <1>1. SUFFICES ASSUME ~overlap
                 PROVE  Accounting'
    BY DEF Accounting
  <1>2. /\ cmsg \in Msg
        /\ Credited(cmsg.len) \in Nat
        /\ Counted(cmsg.len) = Credited(cmsg.len) + 1
        /\ total \in Nat /\ total < Word
        /\ Bytes(queue) \in Nat
        /\ ppc # "idle" => Counted(pmsg.len) \in Nat
    BY CountedNat, HeldParts, QueueAssumption DEF IInv, Numbering, TypeOK
  <1>3. creg = total /\ total <= TotalBuf /\ HeldBytes <= total /\ ppc # "store"
    BY <1>1 DEF Accounting
  <1>4. HeldBytes = HeldBytes' + Counted(cmsg.len) /\ HeldBytes' \in Nat
    <2>1. Bytes(queue)' = Bytes(queue)
      BY DEF Bytes
    <2>2. QED
      BY <1>2, <2>1 DEF HeldBytes
  <1>5. Counted(cmsg.len) <= total
    BY <1>2, <1>3, <1>4
  <1>6. total' = total - Credited(cmsg.len)
    BY <1>2, <1>3, <1>5, NoBorrow
  <1>7. HeldBytes' <= total' /\ total' <= total /\ total' <= TotalBuf
    BY <1>2, <1>3, <1>4, <1>6, QueueAssumption
  <1>8. ppc' = "load" => total' + Counted(pmsg'.len) <= TotalBuf
    <2>1. SUFFICES ASSUME ppc = "load"
                   PROVE  total' + Counted(pmsg.len) <= TotalBuf
      OBVIOUS
    <2>2. total + Counted(pmsg.len) <= TotalBuf /\ Counted(pmsg.len) \in Nat
      BY <1>1, <1>2, <2>1 DEF Accounting
    <2>3. QED
      BY <1>2, <1>6, <2>2, QueueAssumption
  <1>9. QED
    BY <1>3, <1>7, <1>8 DEF Accounting

(* The bytes change hands with their message; an abandoned message is only *)
(* forgotten, its bytes stay in the counter.                               *)
LEMMA AccountingHandOver ==
    ASSUME IInv, Accounting, CloudAbandonOldest \/ CloudPush \/ DownPop
    PROVE  Accounting'
  <1>1. CASE CloudAbandonOldest
    <2> USE DEF CloudAbandonOldest, downVars
    <2>1. Head(queue) \in Msg /\ queue' \in Seq(Msg)
      BY <1>1, TailFacts DEF IInv, TypeOK
    <2>2. Counted(Head(queue).len) \in Nat /\ Bytes(queue') \in Nat
      BY <2>1, CountedNat, BytesNat
    <2>3. Bytes(queue) = Bytes(queue') + Counted(Head(queue).len)
      BY <1>1, BytesTail DEF IInv, TypeOK
    <2> DEFINE rest == Counted(pmsg.len)
                          + (IF cpc \in {"load", "store"} THEN Counted(cmsg.len) ELSE 0)
    <2>4. rest \in Nat
      BY <1>1, HeldParts
    <2>5. HeldBytes = Bytes(queue) + rest /\ HeldBytes' = Bytes(queue') + rest
      BY <1>1, <2>2, <2>3, HeldParts DEF HeldBytes
    <2>6. HeldBytes = HeldBytes' + Counted(Head(queue).len) /\ HeldBytes' \in Nat
      <3> HIDE DEF rest
      <3>1. QED
        BY <2>2, <2>3, <2>4, <2>5
    <2>7. HeldBytes' <= HeldBytes
      BY <2>2, <2>6
    <2>8. ~overlap => HeldBytes' <= total
      BY <2>2, <2>6, <2>7, HeldParts DEF Accounting
    <2>9. QED
      BY <1>1, <2>8 DEF Accounting
  <1>2. CASE CloudPush
    <2> USE DEF CloudPush, downVars
    <2>1. pmsg \in Msg
      BY <1>2 DEF IInv, Numbering
    <2>2. Bytes(queue') = Bytes(queue) + Counted(pmsg.len)
      BY <1>2, <2>1, BytesAppend DEF IInv, TypeOK
    <2>3. HeldBytes' = HeldBytes
      BY <1>2, <2>1, <2>2, CountedNat, HeldParts DEF HeldBytes
    <2>4. QED
      BY <1>2, <2>3 DEF Accounting
  <1>3. CASE DownPop
    <2> USE DEF DownPop, cloudVars
    <2>1. Head(queue) \in Msg /\ queue' \in Seq(Msg)
      BY <1>3, TailFacts DEF IInv, TypeOK
    <2>2. Counted(Head(queue).len) \in Nat /\ Bytes(queue') \in Nat
      BY <2>1, CountedNat, BytesNat
    <2>3. Bytes(queue) = Bytes(queue') + Counted(Head(queue).len)
      BY <1>3, BytesTail DEF IInv, TypeOK
    <2>4. HeldBytes' = HeldBytes
      BY <1>3, <2>2, <2>3, HeldParts DEF HeldBytes
    <2>5. QED
      BY <1>3, <2>4 DEF Accounting
  <1>4. QED
    BY <1>1, <1>2, <1>3

LEMMA AccountingStep == IInv /\ Accounting /\ [Next]_vars => Accounting'
  <1> SUFFICES ASSUME IInv, Accounting, [Next]_vars
               PROVE  Accounting'
    OBVIOUS
  <1>1. CASE \E len \in BodyLens : Refuse(len) \/ MallocFails(len) \/ Accept(len)
    BY <1>1, AccountingQuiet, AccountingAccept
  <1>2. CASE Cloud
    BY <1>2, AccountingQuiet, AccountingLoad, AccountingCloudStore,
       AccountingHandOver DEF Cloud
  <1>3. CASE Down
    BY <1>3, AccountingQuiet, AccountingLoad, AccountingDownStore,
       AccountingHandOver DEF Down
  <1>4. CASE ServiceStatusChanged \/ UNCHANGED vars
    BY <1>4, AccountingQuiet
  <1>5. QED
    BY <1>1, <1>2, <1>3, <1>4 DEF Next

(* NoUndercountWithoutOverlap: unless its two unprotected updates once met *)
(* (MicoFogCloud.c:491 and 562), the byte counter never falls below the    *)
(* bytes held and never passes the limit, however many messages wait, are  *)
(* abandoned or are on their way.                                          *)
THEOREM NoUndercountHolds == Spec => []NoUndercountWithoutOverlap
  <1>1. Accounting => NoUndercountWithoutOverlap
    BY DEF Accounting, NoUndercountWithoutOverlap
  <1>2. QED
    BY <1>1, AccountingInit, AccountingStep, Invariance, PTL DEF Spec
=============================================================================

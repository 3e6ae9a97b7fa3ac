------------------------------ MODULE Mailbox ------------------------------
(***************************************************************************)
(* What the cloud receive queue of net/fogCloud/MicoFogCloud.c promises    *)
(* its two users: a bounded first-in first-out mailbox which, when it is   *)
(* full, abandons its OLDEST message to make room for the newest one.      *)
(* Putting into a full mailbox is one indivisible step: no reader ever     *)
(* sees the mailbox after the old message went and before the new one is   *)
(* in.                                                                     *)
(***************************************************************************)
EXTENDS Naturals, Sequences

CONSTANTS Capacity,   (* the number of messages the mailbox holds *)
          Message     (* the messages, records with an arrival number id *)

VARIABLES box,        (* the messages waiting, oldest first *)
          taken       (* the arrival number of the last message taken, 0 if none *)

mbvars == <<box, taken>>

IsNewest(m) ==
    /\ m.id > taken
    /\ \A i \in 1 .. Len(box) : box[i].id < m.id

MBInit ==
    /\ box = <<>>
    /\ taken = 0

Put(m) ==
    /\ IsNewest(m)
    /\ box' = Append(IF Len(box) = Capacity THEN Tail(box) ELSE box, m)
    /\ UNCHANGED taken

Take ==
    /\ box # <<>>
    /\ box' = Tail(box)
    /\ taken' = Head(box).id

MBNext ==
    \/ \E m \in Message : Put(m)
    \/ Take

MBSpec == MBInit /\ [][MBNext]_mbvars
=============================================================================

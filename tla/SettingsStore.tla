--------------------------- MODULE SettingsStore ---------------------------
(***************************************************************************)
(* What the settings store of mico_system_para_storage.c promises whoever  *)
(* saves settings and whoever starts with them, however many copies it     *)
(* keeps: a save takes effect as a whole.  While it is under way a start   *)
(* may find the old settings or the new ones; once it has been             *)
(* acknowledged only the new ones; nothing but a later save ever replaces  *)
(* settings; and there always are some.  After a fault, an error of the    *)
(* flash or two saves that met, it promises nothing, until a save has come *)
(* through again.                                                          *)
(***************************************************************************)
EXTENDS Naturals

VARIABLES candidates,   (* the settings of which a start may find one      *)
          given,        (* the settings the program holds, and saves       *)
          acked,        (* the number of the last save acknowledged        *)
          disturbed     (* was there a fault, and no save came through yet? *)

ssvars == <<candidates, given, acked, disturbed>>

(* A new device holds nothing. *)
SSInit ==
    /\ candidates = {}
    /\ acked = 0
    /\ disturbed = TRUE

(* The settings given join the ones there are, as the later ones. *)
Put ==
    /\ candidates' = candidates \cup {given}
    /\ \E s \in candidates : candidates = {s} /\ s.sys < given.sys
    /\ UNCHANGED <<given, acked>>

(* Either of the two may go, but never both: the program, and the power    *)
(* failure that takes given from it, only narrow down what a start finds.  *)
Drop ==
    /\ candidates' \subseteq candidates
    /\ candidates' # {}
    /\ UNCHANGED acked

(* A save returns when its settings are the only ones left. *)
Acknowledge ==
    /\ \E s \in candidates : candidates = {s} /\ acked' = s.sys
    /\ UNCHANGED <<candidates, given>>

(* The end of a disturbance: a save has come through. *)
Settle ==
    /\ disturbed
    /\ \E s \in candidates' : candidates' = {s} /\ acked' = s.sys

SSNext ==
    \/ disturbed'
    \/ Settle
    \/ ~disturbed /\ (Put \/ Drop \/ Acknowledge)

SSSpec == SSInit /\ [][SSNext]_ssvars
=============================================================================

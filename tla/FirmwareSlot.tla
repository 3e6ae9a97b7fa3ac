---------------------------- MODULE FirmwareSlot ----------------------------
(***************************************************************************)
(* What boot table, OTA_TEMP and boot loader together promise whoever      *)
(* updates the firmware: the device has one firmware; an update arms a     *)
(* complete one, which replaces the first as a whole, or is given up; and  *)
(* no other step, a power failure included, changes either.  Once updates  *)
(* have met or a flash operation has failed it promises nothing.           *)
(***************************************************************************)
EXTENDS Naturals

CONSTANT None       (* no firmware                                           *)

VARIABLES
    runs,           (* the version the device runs, or the boot loader is    *)
                    (* about to have it run                                  *)
    armed,          (* the version that will replace it, or None             *)
    disturbed       (* did updates meet, or an operation fail?               *)

fsvars == <<runs, armed, disturbed>>

FSInit ==
    /\ runs \in Nat
    /\ armed = None
    /\ disturbed = FALSE

Arm ==
    /\ armed = None
    /\ armed' \in Nat
    /\ UNCHANGED runs

(* The power failed before the boot table was safe.                        *)
GiveUp ==
    /\ armed' = None
    /\ UNCHANGED runs

Install ==
    /\ armed # None
    /\ runs' = armed
    /\ armed' = None

FSNext == disturbed' \/ (~disturbed /\ (Arm \/ GiveUp \/ Install))

FSSpec == FSInit /\ [][FSNext]_fsvars
=============================================================================

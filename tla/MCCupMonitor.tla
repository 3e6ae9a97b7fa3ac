---------------------------- MODULE MCCupMonitor ----------------------------
(***************************************************************************)
(* The cup monitor with two pick-up entries, so that the search passes     *)
(* over a disabled one, one put-down tag, and memory for two timers, so    *)
(* that a leaked one leaves too little.                                    *)
(***************************************************************************)
EXTENDS CupMonitor
=============================================================================

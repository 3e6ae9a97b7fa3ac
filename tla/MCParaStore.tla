---------------------------- MODULE MCParaStore ----------------------------
(***************************************************************************)
(* The settings store with one thread that holds the mutex, one that does  *)
(* not, a save whose CRC is 0, and the power failing twice.                *)
(***************************************************************************)
EXTENDS ParaStore

CONSTANTS Fog, Daemon

MCLocker   == {Fog}
MCUnlocked == {Daemon}
MCZeroCrc  == {3}
=============================================================================

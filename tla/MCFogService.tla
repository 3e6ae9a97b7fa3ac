---------------------------- MODULE MCFogService ----------------------------
(***************************************************************************)
(* Two connections beside the main thread, two requests given up that the  *)
(* cloud may yet take, and one power failure.  The phones are alike.       *)
(***************************************************************************)
EXTENDS FogService, TLC

CONSTANTS phone1, phone2

MCConn   == {phone1, phone2}
MCPhones == Permutations(MCConn)
=============================================================================

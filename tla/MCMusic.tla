------------------------------ MODULE MCMusic ------------------------------
(***************************************************************************)
(* The player with two producers, one of them the downstream thread, which *)
(* also sets the volume; a queue of one place, and two files on the card.  *)
(***************************************************************************)
EXTENDS Music

CONSTANTS Health, Down

MCProducer == {Health, Down}

(* A byte of four values and two files: 5 is cut to file 1, 0 is file 0,   *)
(* and 3 is no file of the card.                                           *)
MCByte      == 4
MCTrackWide == {3, 5}

MCMvol == {100, 105}
=============================================================================

------------------------------ MODULE MCLights ------------------------------
(***************************************************************************)
(* Lights with colours that differ in several channels, one of them beyond *)
(* the limit of LED_openRGB.                                               *)
(***************************************************************************)
EXTENDS Lights

RGB(r, g, b) == [c \in Channel |-> CASE c = 0 -> r [] c = 1 -> g [] c = 2 -> b]

(* Two accepted colours and a refused one.                                 *)
MCColour == {RGB(20, 0, 0), RGB(0, 50, 100), RGB(0, 0, 101)}
=============================================================================

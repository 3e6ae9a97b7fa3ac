--------------------------- MODULE MCObjectModel ---------------------------
(***************************************************************************)
(* ObjectModel with two scalars, the volume and PowerOnDisplay (the only   *)
(* scalar PrintInitParameter overlooks), and LedConf reduced to two        *)
(* fields.                                                                 *)
(***************************************************************************)
EXTENDS ObjectModel

CONSTANTS display, red, green

LedConf == {red, green}

MCScalar    == {display, Volume}
MCGroups    == {LedConf}
MCUnprinted == {display}

(* Defaults of OMFactory.c:396-405. *)
MCDefault == [k \in {display, Volume, red, green} |->
                 IF k \in {Volume, red} THEN 20 ELSE 0]

(* OMFactory.c:393 announces that the default parameters will be saved:    *)
(* once the save of the defaults is complete, they are what is in flash.   *)
DefaultsSaved ==
    [][ booting /\ WriteText => flash' = Whole(Default) ]_vars
=============================================================================

--------------------------- MODULE MCFogMsgQueue ---------------------------
(***************************************************************************)
(* FogMsgQueue with sizes that are the real ones scaled down, in their     *)
(* proportions: the limit is QueueLength times the largest message without *)
(* its header.                                                             *)
(***************************************************************************)
EXTENDS FogMsgQueue

(* MicoFogCloudDef.h:46 calls the limit the "max recv data(tooic+payload)  *)
(* buffer len": a message is refused for it only if the buffered messages  *)
(* and the new one together exceed it, each even counted with its header.  *)
(* Lost updates of the counter are left out of the claim.                  *)
RefusedOnlyWhenFull ==
    [][ \A len \in BodyLens :
            Refuse(len) /\ ~overlap => HeldBytes + Counted(len) > TotalBuf ]_vars
=============================================================================

-------------------------- MODULE MCFirmwareUpdate --------------------------
(***************************************************************************)
(* Two clients of the cloud's config server and one of the SDK's, images   *)
(* of two chunks, two versions after the first.                            *)
(***************************************************************************)
EXTENDS FirmwareUpdate

CONSTANTS phone1, phone2, tool

MCClient == {phone1, phone2}
MCLan    == {tool}
=============================================================================

---------------------------- MODULE MCSerialHost ----------------------------
(***************************************************************************)
(* The loop on a small instance of the link.                               *)
(***************************************************************************)
EXTENDS SerialHost, MCReliableLink
=============================================================================

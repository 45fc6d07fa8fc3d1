------------------------------ MODULE MCUplink ------------------------------
(***************************************************************************)
(* A small uplink for TLC.                                                 *)
(***************************************************************************)
EXTENDS Uplink

=============================================================================

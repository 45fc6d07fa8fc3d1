----------------------------- MODULE MCStreamRx -----------------------------
(***************************************************************************)
(* A small stream for TLC.                                                 *)
(***************************************************************************)
EXTENDS StreamRx

=============================================================================

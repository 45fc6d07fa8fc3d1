-------------------------- MODULE MCLinkManager --------------------------
(***************************************************************************)
(* LinkManager for TLC: one net with its own cluster and an associated one *)
(* the node may have a static role in.                                     *)
(***************************************************************************)
EXTENDS LinkManager, TLC

CONSTANTS n1, main, roles

MCClusters == {main, roles}
MCMain == n1 :> main
MCAssociates == n1 :> {roles}
=============================================================================

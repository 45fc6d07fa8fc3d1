------------------------------ MODULE MCGdbSync ------------------------------
(* An instance of GdbSync for TLC.                                         *)
EXTENDS GdbSync

CONSTANTS n1, n2, k1, k2

MCSigners == Nodes \cup {Unsigned}
RolesAllRoot == [s \in MCSigners |-> IF s = Unsigned THEN RoleInvalid ELSE RoleRoot]
MCCrc == [s \in MCSigners |-> [d \in BOOLEAN |->
            2 * (IF s = n1 THEN 1 ELSE IF s = n2 THEN 2 ELSE 0) + (IF d THEN 1 ELSE 0)]]
MCKeyRank == [k \in Keys |-> IF k = k1 THEN 1 ELSE 2]
SkewFirst == [n \in Nodes |-> IF n = n1 THEN 1 ELSE 0]
ReachSecond == {{n2}}
=============================================================================

------------------------------- MODULE MCGossip -------------------------------
(***************************************************************************)
(* Instances of Gossip: four nodes that do not agree about the cluster,    *)
(* with loss and expiry, and a diamond of nodes that do, without either.   *)
(***************************************************************************)
EXTENDS Gossip

CONSTANTS a, b, c, d, x

MCDiamond == {a, b, c, d}
MCOne == {x}
MCNone == {}

MCOriginA == [h \in {x} |-> a]

MCAllLinks == Nodes \X Nodes \ {<<n, n>> : n \in Nodes}
MCDiamondLinks == MCAllLinks \ {<<a, d>>, <<d, a>>}

MCLinked == [n \in Nodes |-> {m \in Nodes : <<n, m>> \in Links}]
MCWithoutD == Nodes \ {d}
(* b does not take a for a member although a is linked to it; d, which does *)
(* not know the cluster, is a member for the others.                        *)
MCPartly == [n \in Nodes |-> IF n = b THEN {c} ELSE Nodes \ {n}]

===============================================================================

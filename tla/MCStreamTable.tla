--------------------------- MODULE MCStreamTable ---------------------------
(* Streams of two remote nodes for TLC. *)
EXTENDS StreamTable, TLC

CONSTANTS s1, s2, s3, s4, s5, u1, n1, n2

\* s1, s2, s3 go to n1 and s4 to n2; s5 comes from a peer without an address,
\* and u1 is a client's that dialled n1 and was answered by another node.
MCNode == (s1 :> n1) @@ (s2 :> n1) @@ (s3 :> n1) @@ (s4 :> n2) @@ (s5 :> Blank) @@ (u1 :> n1)
MCAuthorized == {s1, s2, s3, s4}
MCClient == {s2, s4, u1}

\* The only stream to n2, and the one without an address, move.
MCMovable == {s4, s5}
=============================================================================

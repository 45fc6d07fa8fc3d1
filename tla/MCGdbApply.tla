----------------------------- MODULE MCGdbApply -----------------------------
(* Instances of GdbApply for TLC.                                          *)
EXTENDS GdbApply

CONSTANTS Peer

MCSigners == {Self, Peer, Unsigned}

\* This node is ROOT, the peer is a plain USER.
RolesRootAndUser ==
    [s \in MCSigners |-> IF s = Self THEN RoleRoot
                         ELSE IF s = Peer THEN RoleUser ELSE RoleInvalid]

MCCrc ==
    [s \in MCSigners |-> [d \in BOOLEAN |->
        (IF s = Self THEN 3 ELSE IF s = Peer THEN 1 ELSE 5) + (IF d THEN 1 ELSE 0)]]
=============================================================================

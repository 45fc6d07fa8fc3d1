SPECIFICATION TableSpec
CONSTANTS
    s1 = s1  s2 = s2  s3 = s3  s4 = s4  s5 = s5  u1 = u1
    n1 = n1  n2 = n2
    Blank = Blank
    None = None
    Streams = {s1, s2, s3, s4, s5, u1}
    Nodes = {n1, n2}
    Node <- MCNode
    Authorized <- MCAuthorized
    Client <- MCClient
    Movable <- MCMovable
INVARIANTS
    TableAlive
    MembersInTable
    NodeReachable
    LinkDirection
CHECK_DEADLOCK FALSE

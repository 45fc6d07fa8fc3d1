SPECIFICATION FairSpec
CONSTANTS
    n1 = n1
    n2 = n2
    k1 = k1
    k2 = k2
    Unsigned = Unsigned
    NoRec = NoRec
    Nodes = {n1, n2}
    Keys = {k1, k2}
    Signers <- MCSigners
    MemberRole <- RolesAllRoot
    DefaultRole = 1
    OwnerRoot = TRUE
    Ttl = 1
    CrcOf <- MCCrc
    Skew <- SkewFirst
    KeyRank <- MCKeyRank
    PageSize = 1
    MaxLoss = 1
    MaxTime = 2
    MaxStamp = 2
    Reach <- ReachSecond
    DelFlags = {TRUE, FALSE}
    MaxSets = 2
    MaxLoad = 1
CHECK_DEADLOCK FALSE
INVARIANTS ReaderCovers NewestSurvives
PROPERTY EventuallyConverged

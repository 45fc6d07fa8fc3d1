\* One proc thread, a driver that does not fail; pins and unpins; one restart.
SPECIFICATION FairSpec
CONSTANTS
    Self = Self
    Peer = Peer
    Unsigned = Unsigned
    NoRec = NoRec
    Keys = {k1}
    Threads = {t1}
    Signers <- MCSigners
    MemberRole <- RolesRootAndUser
    DefaultRole = 1
    OwnerRoot = TRUE
    Ttl = 2
    CrcOf <- MCCrc
    PinFlags = {TRUE, FALSE}
    DriverMayFail = FALSE
    MaxTime = 4
    MaxStamp = 5
    MaxCrashes = 1
INVARIANT PinnedHasCopy
INVARIANT ListenersCurrent
PROPERTY PinnedRestored

\* One proc thread; records without pins; TTL of two ticks; one restart.
SPECIFICATION Spec
CONSTANTS
    Self = Self
    Peer = Peer
    Unsigned = Unsigned
    NoRec = NoRec
    Keys = {k1}
    Threads = {t1}
    Signers <- MCSigners
    MemberRole <- RolesRootAndUser
    DefaultRole = 1
    OwnerRoot = TRUE
    Ttl = 2
    CrcOf <- MCCrc
    PinFlags = {FALSE}
    DriverMayFail = TRUE
    MaxTime = 5
    MaxStamp = 6
    MaxCrashes = 1
INVARIANT NewestKept
PROPERTY OnlyExpiredCleaned
PROPERTY ImplementsStore

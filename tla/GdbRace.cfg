\* Two threads in the apply path at once.
SPECIFICATION Spec
CONSTANTS
    Self = Self
    Peer = Peer
    Unsigned = Unsigned
    NoRec = NoRec
    Keys = {k1}
    Threads = {t1, t2}
    Signers <- MCSigners
    MemberRole <- RolesRootAndUser
    DefaultRole = 1
    OwnerRoot = TRUE
    Ttl = 2
    CrcOf <- MCCrc
    PinFlags = {FALSE}
    DriverMayFail = TRUE
    MaxTime = 3
    MaxStamp = 4
    MaxCrashes = 0
INVARIANT NewestKept

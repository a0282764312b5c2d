\* Two requests that share an image, the pools and the bridge counter; a fault, a restart.
SPECIFICATION UseSpec
CONSTANTS
    Machines = {m1, m2}
    ExtraDisks <- NoDisks
    Bridged <- OneBridged
    HostPools <- AnyHost
    GuestStates = {}
    NoName = NoName
    MaxFaults = 1
    MaxCrashes = 1
    k1 = k1
    ImageOf <- SameImage
    None = None
SYMMETRY Symmetry
INVARIANT AttachedComplete TeardownClean UploadReadsImage NoLeaseLeaks
PROPERTY FailsForItsOwnReason
CHECK_DEADLOCK FALSE

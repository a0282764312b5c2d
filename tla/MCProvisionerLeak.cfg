\* A restart between two steps, then a teardown.
SPECIFICATION Spec
CONSTANTS
    Machines = {m1}
    ExtraDisks <- OneDisk
    Bridged <- OneBridged
    HostPools <- WholeHost
    GuestStates = {"shutdown"}
    NoName = NoName
    MaxFaults = 0
    MaxCrashes = 1
INVARIANT NoVolumeLeft
CHECK_DEADLOCK FALSE

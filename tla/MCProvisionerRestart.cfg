\* A restart while createVM runs.
SPECIFICATION Spec
CONSTANTS
    Machines = {m1}
    ExtraDisks <- OneDisk
    Bridged <- OneBridged
    HostPools <- WholeHost
    GuestStates = {"shutdown"}
    NoName = NoName
    MaxFaults = 0
    MaxCrashes = 1
INVARIANT NeverFailed
CHECK_DEADLOCK FALSE

\* Two createVM at once.
SPECIFICATION Spec
CONSTANTS
    Machines = {m1, m2}
    ExtraDisks <- NoDisks
    Bridged <- OneBridged
    HostPools <- WholeHost
    GuestStates = {"shutdown"}
    NoName = NoName
    MaxFaults = 0
    MaxCrashes = 0
INVARIANT TargetsUnique
CHECK_DEADLOCK FALSE

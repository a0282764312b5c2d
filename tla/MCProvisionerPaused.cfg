\* A teardown whose guest is paused.
SPECIFICATION FairSpec
CONSTANTS
    Machines = {m1}
    ExtraDisks <- NoDisks
    Bridged <- OneBridged
    HostPools <- WholeHost
    GuestStates = {"paused"}
    NoName = NoName
    MaxFaults = 0
    MaxCrashes = 0
PROPERTY TeardownEnds
CHECK_DEADLOCK FALSE

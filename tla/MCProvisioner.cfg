\* One request, with failing calls, lost replies and a restart, on a host that may lack a pool.
SPECIFICATION FairSpec
CONSTANTS
    Machines = {m1}
    ExtraDisks <- TwoDisks
    Bridged <- BridgedSecond
    HostPools <- AnyHost
    GuestStates = {"shutdown", "paused"}
    NoName = NoName
    MaxFaults = 5
    MaxCrashes = 1
INVARIANT TypeOK AttachedComplete FinishedStepsHold TeardownClean LeftByOneStep
CHECK_DEADLOCK FALSE
PROPERTY LifecycleSpec TeardownEndsOrIsStuck ProvisioningEnds

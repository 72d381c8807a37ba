SPECIFICATION FairSpec
CONSTANTS
    InitSpecs <- MCLateSpecs
    Ticks <- MCTicks
    Lookback = 50
    NClusterRoles = 1
    NPolicies = 1
    MaxTime = 5
    Faults = {"forbidden"}
    MaxFaults = 1
    UserOps = {}
    Patched = {}
    Durations = {}
    MaxPatches = 0
    RbacLag = FALSE
    MinRequeue = 1
    MaxRequeue = 3
    Backoff = 1
    Prompt = FALSE
PROPERTIES
    AccessEnds
CHECK_DEADLOCK FALSE

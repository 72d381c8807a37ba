SPECIFICATION FairSpec
CONSTANTS
    InitSpecs <- MCProgressSpecs
    Ticks <- MCTicks
    Lookback = 50
    NClusterRoles = 1
    NPolicies = 0
    MaxTime = 5
    Faults = {"timeout", "lost", "crash"}
    MaxFaults = 2
    UserOps = {"approve"}
    Patched = {}
    Durations = {}
    MaxPatches = 0
    RbacLag = FALSE
    MinRequeue = 1
    MaxRequeue = 3
    Backoff = 1
    Prompt = FALSE
PROPERTIES
    AccessEnds
    ApprovedIsActivated
CHECK_DEADLOCK FALSE

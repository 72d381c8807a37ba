SPECIFICATION FairSpec
CONSTANTS
    InitSpecs <- MCWindowSpecs
    Ticks <- MCEarlyTicks
    Lookback = 50
    NClusterRoles = 1
    NPolicies = 0
    MaxTime = 8
    Faults = {"crash"}
    MaxFaults = 1
    UserOps = {}
    Patched = {}
    Durations = {}
    MaxPatches = 0
    RbacLag = FALSE
    MinRequeue = 1
    MaxRequeue = 3
    Backoff = 1
    Prompt = FALSE
PROPERTIES
    AccessEnds
CHECK_DEADLOCK FALSE

SPECIFICATION FairSpec
CONSTANTS
    InitSpecs <- MCReactivationSpecs
    Ticks <- MCEarlyTicks
    Lookback = 50
    NClusterRoles = 1
    NPolicies = 0
    MaxTime = 8
    Faults = {}
    MaxFaults = 0
    UserOps = {}
    Patched = {}
    Durations = {}
    MaxPatches = 0
    RbacLag = FALSE
    MinRequeue = 1
    MaxRequeue = 1
    Backoff = 1
    Prompt = TRUE
PROPERTIES
    Reactivated
CHECK_DEADLOCK FALSE

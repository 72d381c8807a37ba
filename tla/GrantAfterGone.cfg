SPECIFICATION Spec
CONSTANTS
    InitSpecs <- MCLateSpecs
    Ticks <- MCTicks
    Lookback = 50
    NClusterRoles = 1
    NPolicies = 0
    MaxTime = 3
    Faults = {}
    MaxFaults = 0
    UserOps = {"delete"}
    Patched = {}
    Durations = {}
    MaxPatches = 0
    RbacLag = FALSE
    MinRequeue = 1
    MaxRequeue = 3
    Backoff = 1
    Prompt = FALSE
PROPERTIES
    GoneStaysGone
CHECK_DEADLOCK FALSE

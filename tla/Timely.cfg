SPECIFICATION Spec
CONSTANTS
    InitSpecs <- MCTimelySpecs
    Ticks <- MCSparseTicks
    Lookback = 50
    NClusterRoles = 1
    NPolicies = 1
    MaxTime = 11
    Faults = {"timeout", "lost", "crash"}
    MaxFaults = 2
    UserOps = {"edit"}
    Patched = {}
    Durations = {1, 5}
    MaxPatches = 1
    RbacLag = FALSE
    MinRequeue = 2
    MaxRequeue = 3
    Backoff = 1
    Prompt = TRUE
PROPERTIES
    RevokedInTime
CHECK_DEADLOCK FALSE

SPECIFICATION BothSpec
CONSTANTS
    InitSpecs <- MCSpecs
    Ticks <- MCTicks
    Lookback = 50
    NClusterRoles = 1
    NPolicies = 0
    MaxTime = 3
    Faults = {"lost", "crash"}
    MaxFaults = 1
    UserOps = {"approve"}
    Patched = {}
    Durations = {}
    MaxPatches = 0
    RbacLag = FALSE
    MinRequeue = 1
    MaxRequeue = 3
    Backoff = 1
    Prompt = FALSE
INVARIANTS
    ApprovalGate
    CountWithinLimit
PROPERTIES
    CountedOnce
    ApprovalSurvives
CHECK_DEADLOCK FALSE

SPECIFICATION Spec
CONSTANTS
    InitSpecs <- MCAutoSpecs
    Ticks <- MCTicks
    Lookback = 50
    NClusterRoles = 1
    NPolicies = 1
    MaxTime = 7
    Faults = {"timeout", "forbidden", "lost", "crash"}
    MaxFaults = 1
    UserOps = {"approve", "delete"}
    Patched = {}
    Durations = {}
    MaxPatches = 0
    RbacLag = FALSE
    MinRequeue = 1
    MaxRequeue = 3
    Backoff = 1
    Prompt = FALSE
INVARIANTS
    ExpiredIsRevoked
    DeletedActiveIsRevoked
PROPERTIES
    KeepsPromise
    ActivationIsReal
    GrantOnSchedule
    CleanedUpBeforeGone
CHECK_DEADLOCK FALSE

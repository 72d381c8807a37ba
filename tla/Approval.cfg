SPECIFICATION Spec
CONSTANTS
    InitSpecs <- MCApprovalSpecs
    Ticks <- MCEarlyTicks
    Lookback = 50
    NClusterRoles = 1
    NPolicies = 0
    MaxTime = 5
    Faults = {"timeout", "forbidden", "lost", "crash"}
    MaxFaults = 1
    UserOps = {"approve", "patch", "delete"}
    Patched = {"Approved", "Failed"}
    Durations = {}
    MaxPatches = 1
    RbacLag = TRUE
    MinRequeue = 1
    MaxRequeue = 3
    Backoff = 1
    Prompt = FALSE
INVARIANTS
    TypeOK
    ApprovalInv
    ApprovalGate
    NotBeforeStart
    CountWithinLimit
PROPERTIES
    ApprovalNeverLost
CHECK_DEADLOCK FALSE

SPECIFICATION ResyncSpec
CONSTANTS
    InitSpecs <- MCDeletionSpecs
    Ticks <- MCTicks
    Lookback = 50
    NClusterRoles = 1
    NPolicies = 0
    MaxTime = 4
    Faults = {"timeout", "lost", "crash"}
    MaxFaults = 2
    UserOps = {"approve", "delete"}
    Patched = {}
    Durations = {}
    MaxPatches = 0
    RbacLag = FALSE
    MinRequeue = 1
    MaxRequeue = 3
    Backoff = 1
    Prompt = FALSE
PROPERTIES
    DeletionCompletes
CHECK_DEADLOCK FALSE

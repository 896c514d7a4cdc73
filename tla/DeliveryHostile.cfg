SPECIFICATION FairSpec
CONSTANTS
    Attempts = {a1, a2}
    a1 = a1
    a2 = a2
    a3 = a3
    None = None
    NumChunks = 2
    Lease = 0
    MaxRetries = 0
    Preemptible = TRUE
    Suspendable = TRUE
    HastyOperator = TRUE
INVARIANTS NothingLost
CHECK_DEADLOCK FALSE
PROPERTIES EveryAttemptEnds DeadClaimExpires

SPECIFICATION Spec
CONSTANTS
    Attempts = {a1, a2, a3}
    a1 = a1
    a2 = a2
    a3 = a3
    None = None
    NumChunks = 2
    Lease = 1
    MaxRetries = 1
    Preemptible = FALSE
    Suspendable = FALSE
    HastyOperator = FALSE
INVARIANTS SingleSender
PROPERTIES ImplementsDigest AmbiguityNeedsOperator
CHECK_DEADLOCK FALSE

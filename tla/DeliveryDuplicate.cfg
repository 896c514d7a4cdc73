SPECIFICATION Spec
CONSTANTS
    Attempts = {a1, a2}
    a1 = a1
    a2 = a2
    a3 = a3
    None = None
    NumChunks = 2
    Lease = 8
    MaxRetries = 1
    Preemptible = TRUE
    Suspendable = FALSE
    HastyOperator = FALSE
INVARIANTS NoDuplicate
CHECK_DEADLOCK FALSE

SPECIFICATION Spec
CONSTANTS
    c1 = c1
    c2 = c2
    c3 = c3
    c4 = c4
    None = None
    Procs = {c1, c2, c3}
    Suspendable = {}
    MutexFaults = {"dies"}
INVARIANTS OneOwner
CHECK_DEADLOCK FALSE

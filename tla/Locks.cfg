SPECIFICATION MCSpec
CONSTANTS
    h1 = h1
    h2 = h2
    stale = stale
    missed = missed
    impact = impact
    Jobs = {h1, h2}
    CollectKeys = {stale, missed}
    DeliverKeys = {impact}
    Watched = stale
    MaxQueued = 2
    PerCycle = 1
    MaxExits = 1
    c1 = c1
    c2 = c2
    None = None
    Procs = {c1, c2}
    Suspendable = {c1, c2}
    MutexFaults = {"dies", "heldUp"}
INVARIANTS
    LockMatchesHolders CancelReachesItsRun
PROPERTIES
    AlertsKept NothingWaitsForEver
    StaleLockGoes
CHECK_DEADLOCK FALSE

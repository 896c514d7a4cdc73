SPECIFICATION MCSpec
CONSTANTS
    c1 = c1
    c2 = c2
    c3 = c3
    c4 = c4
    None = None
    Procs = {c1, c2, c3, c4}
    Suspendable = {c3, c4}
    MutexFaults = {}
    PageSize = 2
    PageCap = 3
    Delays = 1
    Caps = {1, 3, 7}
    MaxBoard = 7
    LegalForms = {"sa", "ltda"}
    Pieces <- MCPieces
    Postings <- MCPostings
    Threshold100 = 35
    WindowDays = 1
    MaxComparisons = 1
    LastDay = 2
    MaxStored = 4
    Interval = 12
    Windows = {0, 3, 21}
    Threshold = 2
    Freshness <- MCFreshness
    Pulled = {"board"}
    FailureRate = 50
    MinAttempts = 3
    Runs <- MCRuns
    Hours = {0, 3, 12, 21}
    LastHour = 48
    MaxUnplanned = 1
INVARIANTS OneOwner CheckedOwnerIsOwner ResultIsHonest SilenceIsAnnounced ShadowIsComplete
PROPERTIES ImplementsLease AsksLittleAndEnds
CHECK_DEADLOCK FALSE

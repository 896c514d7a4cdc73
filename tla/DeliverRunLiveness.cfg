SPECIFICATION FairSpec
CONSTANTS
    r1 = r1
    r2 = r2
    r3 = r3
    p1 = p1
    p2 = p2
    None = None
    Runs = {r1, r2}
    Postings = {p1}
    MaxFailures = 2
    LongRuns = FALSE
    OperatorActs = {"rescore", "discard"}
INVARIANTS NotifiedForAReason
PROPERTIES RunCloses
CHECK_DEADLOCK FALSE

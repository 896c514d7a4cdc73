SPECIFICATION Spec
CONSTANTS
    r1 = r1
    r2 = r2
    r3 = r3
    p1 = p1
    p2 = p2
    None = None
    Runs = {r1, r2}
    Postings = {p1, p2}
    MaxFailures = 1
    LongRuns = TRUE
    OperatorActs = {"rescore"}
SYMMETRY RunPostingSymmetry
INVARIANTS OneRunPerPosting ReportedOnce ClaimsReturned CountsReconcile FailureCeiling
CHECK_DEADLOCK FALSE

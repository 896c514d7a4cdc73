SPECIFICATION MCBatchSpec
CONSTANTS
    p1 = p1
    p2 = p2
    NoPosting = NoPosting
    Postings = {p1, p2}
    NumReqs = 2
    Concurrency = 2
    MaxRuns = 1
    m1 = m1
    m2 = m2
    m3 = m3
    None = None
    Calls = {m1}
    FailureThreshold = 1
    MaxTransportAttempts = 1
    MaxRepairAttempts = 1
    Screened = {"home", "far", "other"}
    Statements <- MCStatements
    AllCriteria <- MCCriteria
    ProfileKeywords = {"dev", "estagio"}
    DayLen = 2
    Unstated = Unstated
    Vacancies <- MCVacancies
    Topics = {"node", "english"}
    TracksOf <- MCTracksOf
    ResumeVariants <- MCVariants
    CourseStart = 3
    Scoring <- MCWeights
    Scale = 60
    Missing = Missing
    Semesters = {2}
    MaxTime = 0
    MaxScreenings = 0
    MaxSightings = 0
INVARIANTS OnlyFatalSkips
CHECK_DEADLOCK FALSE

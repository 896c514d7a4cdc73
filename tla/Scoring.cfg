SPECIFICATION MCSpec
CONSTANTS
    p1 = p1
    p2 = p2
    NoPosting = NoPosting
    Postings = {p1}
    NumReqs = 4
    Concurrency = 2
    MaxRuns = 3
    m1 = m1
    m2 = m2
    m3 = m3
    None = None
    Calls = {m1, m2, m3}
    FailureThreshold = 2
    MaxTransportAttempts = 2
    MaxRepairAttempts = 2
    Screened = {"home", "far", "other"}
    Statements <- MCStatements
    AllCriteria <- MCCriteria
    ProfileKeywords = {"dev", "estagio"}
    DayLen = 2
    Unstated = Unstated
    Vacancies <- MCVacancies
    Topics = {"node", "english"}
    TracksOf <- MCTracksOf
    ResumeVariants <- MCVariants
    CourseStart = 3
    Scoring <- MCWeights
    Scale = 60
    Missing = Missing
    Semesters = {2, 3, 4, 5, 11}
    MaxTime = 4
    MaxScreenings = 2
    MaxSightings = 2
INVARIANTS
    BudgetWellSpent CreditNeedsEvidence SectionsHonest
    CachesSound AttemptsBounded BreakerSound
PROPERTIES ScreeningIsStable BetterAnswersNeverHurt PoolDisciplined EveryCallReturns
CHECK_DEADLOCK FALSE

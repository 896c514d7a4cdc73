SPECIFICATION MCSpec
CONSTANTS
    r1 = r1
    r2 = r2
    p1 = p1
    p2 = p2
    Runs = {r1, r2}
    Postings = {p1, p2}
    Dated = {p1}
    Extracted = {p1}
    Sources <- MCSources
    Lists <- MCLists
    Describing = {"gupy"}
    QueryLists <- MCQueryLists
    Pushed = {"catho"}
    NoCollector = {"jooble"}
    Windows <- MCWindows
    MaxDay = 3
    c1 = c1
    c2 = c2
    i1 = i1
    i2 = i2
    NoOwner = NoOwner
    Collectors = {c1, c2}
    Ids = {i1, i2}
    Sitemaps <- MCSitemaps
    MaxAttempts = 2
    MaxPages = 3
    Every = 2
    MaxTroubles = 1
SYMMETRY Symmetry
INVARIANTS
    WindowCoversGap AccountsAddUp CrashCostsLittle
PROPERTIES NothingForgotten OutboxKeeps
CHECK_DEADLOCK FALSE

SPECIFICATION AppSpec
CONSTANTS
    Calls = {c1, c2}
    Texts = {t1, t2}
    Queries = {q1, q2}
    Threads <- TwoThreads
    Page = 2
    MaxRows = 3
    MaxFailures = 1
    Screens = {"thread", "inbox", "jobs", "session", "search", "work"}
    People = {u1, u2}
    Ops = {o1, o2}
    None = None
    Ids <- ThreeIds
    Sorts = {"relevance", "rating", "distance", "responseTime", "feed"}
    Marks <- TwoMarks
    Unknown = 9
    PageSize = 1
    MaxTouched = 1
    e1 = e1
    e2 = e2
    Visits <- EveryVisit
    Rows <- TwoRows
    Entries = {e1, e2}
    Gets = {g1, g2}
    Acts = {a1, a2}
    SavedMax = 1
    Nil = Nil
SYMMETRY Symmetry
CHECK_DEADLOCK FALSE
INVARIANTS ListWhole SentIsShown SessionAgrees WalkWhole PageCurrent SavedAsEntered

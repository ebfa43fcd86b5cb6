SPECIFICATION Spec
CONSTANTS
    Requests = {r1, r2}
    Jobs = {j1, j2}
    Keys = {k1, k2}
    Admins = {a1, a2}
    Posts = {p1, p2}
    None = None
    Window = 2
    JobWindow = 3
    PostWindow = 2
    HideAt = 1
    RestrictAt = 2
    Day = 2
    SpamAt = 1
    Limit = 3
    Tokens = {1, 2}
    MaxMonth = 2
    MaxMessages = 3
    MaxEvents = 4
    MaxTargets = 1
    MaxNow = 3
    MaxFailures = 1
    Mixes <- MCMixes
    Steps <- MCSteps
SYMMETRY Symmetry
CHECK_DEADLOCK FALSE
INVARIANTS ContactGated Escalates ReadExact FilesKept ModerationAccounted BudgetKept

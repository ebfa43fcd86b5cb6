SPECIFICATION NoticesSpec
CONSTANTS
    Providers = {p1, p2}
    Ads = {a1, a2, a3}
    Scenes <- MCScenes
    Workers = {w1, w2}
    Tokens = {t1, t2, t3}
    Devices <- MCDevices
    Bells = {b1, b2}
    Calls = {w1, w2}
    Window = 0
    WindowMax = 1
    RateLimit = 2
    BatchSize = 2
    MaxRetries = 1
    Bodies <- MCBodies
    MaxNow = 1
    MaxFailures = 1
    MaxChanges = 1
    Nil = Nil
\* Workers and Calls are the same values, so that the symmetry is of both.
SYMMETRY Symmetry
CHECK_DEADLOCK FALSE
INVARIANTS NotifiedOnce WindowKept PushAccounted BellAgrees

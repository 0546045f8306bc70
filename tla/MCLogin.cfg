CONSTANTS
    Requests = {r1, r2}
    Sessions = {s1, s2}
    Tokens = {t1, t2}
    Rows = {c1, c2}
    None = None
    MaxWrites = 3
    Buckets <- MCBuckets
    Limit <- MCLimit
    Window <- MCWindow
    Routes <- MCRoutes
    PerSecond = 3
    CsrfTokens = {k1, k2, k3, k4, k5, k6}
    Clients = {a, b}
    Reachable = {a}
SPECIFICATION MCSpec
SYMMETRY Symmetry
INVARIANTS TypesOK SessionsEndWithPassword ResetTokensDie OnePassword AdmittedBounded RetryAfterWithinRounding FormsKeepWorking ClientsTold ResourcesHonourState

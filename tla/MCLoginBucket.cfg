CONSTANTS
  Requests = {r1}
  Buckets <- MCBuckets
  None = None
  Limit <- MCLimit
  Window <- MCWindow
  Routes <- MCRoutes
  PerSecond = 3
SPECIFICATION MCSpec
INVARIANT ValidUserNotLockedOut

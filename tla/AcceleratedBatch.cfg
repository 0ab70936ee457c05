\* Two runs of two attempts over a day of two partitions, and a job of another
\* workflow.
SPECIFICATION FairSpec
CONSTANTS
  r1 = r1  r2 = r2  d1 = d1  p1 = p1  p2 = p2
  Foreign = Foreign  None = None
  Runs = {r1, r2}
  Days = {d1}
  Partitions = {p1, p2}
  Requested <- Requests
  MaxParallel = 1
  PublishLimit = 1
  ForeignLimit = 2
  Retention = 3
  MaxAttempts = 2
  MaxForeign = 1
  MaxBroken = 2
INVARIANTS NeverRefused BundleInTime
PROPERTY DayGetsDurable
CHECK_DEADLOCK FALSE

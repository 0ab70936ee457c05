\* Racing runs of two partitions; answers get lost, nothing else goes wrong.
SPECIFICATION FairSpec
CONSTANTS
  p1 = p1  p2 = p2  r1 = r1  r2 = r2  r3 = r3
  d1 = d1  d2 = d2  m1 = m1  m2 = m2  m3 = m3
  None = None
  Partitions = {p1, p2}
  Runs = {r1, r2}
  Days = {{p1, p2}, {p1}}
  NumFiles = 3
  Manifest = 2
  Digests = {d1, d2, m1, m2, m3}
  Builds <- DriftingBuilds
  MaxAttempts = 2
  Faults = {"lost"}
  LateCommit = FALSE
INVARIANT FailsOnlyWhenExhausted
PROPERTY DayBecomesDurable

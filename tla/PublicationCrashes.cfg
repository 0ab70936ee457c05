\* Runs of two days crash and fail while others queue for the lock; GitHub may
\* commit or drop a POST long after its client, or the client's run, has given it
\* up.  Every recomputation yields another manifest, and may read other payloads.
SPECIFICATION FairSpec
CONSTANTS
  p1 = p1  p2 = p2  r1 = r1  r2 = r2  r3 = r3
  d1 = d1  d2 = d2  m1 = m1  m2 = m2  m3 = m3
  None = None
  Partitions = {p1, p2}
  Runs = {r1, r2}
  Days = {{p1}, {p2}}
  NumFiles = 3
  Manifest = 2
  Digests = {d1, d2, m1, m2, m3}
  Builds <- DriftingBuilds
  MaxAttempts = 1
  Faults = {"crash", "build", "lost", "refused", "delete"}
  LateCommit = TRUE
INVARIANTS ConflictMeansInterruption VerifiedIsOneBuild
PROPERTY EveryRunEnds
\* A late commit may leave an anomaly at which every later run refuses to start.
CHECK_DEADLOCK FALSE

\* Two calls, one after the other or at once; GitHub may list what it creates
\* late.
SPECIFICATION FairSpec
CONSTANTS
  c1 = c1  c2 = c2  r1 = r1  r2 = r2  r3 = r3  None = None
  Calls = {c1, c2}
  Releases = {r1, r2, r3}
  Delays = 2
INVARIANTS Agreement OneRelease
PROPERTY EveryCallEnds
CHECK_DEADLOCK FALSE

\* Three runs over one raw directory, of an object that changes twice.
SPECIFICATION AcqFairSpec
CONSTANTS
  v1 = v1  v2 = v2  v3 = v3  short = short  damaged = damaged  Nothing = Nothing
  Short = short  Damaged = damaged
  Versions = {v1, v2, v3}
  Qualified = Nothing
  Delays = 3
  MaxStarts = 3
  MaxChanges = 2
INVARIANTS ScansTheExpected IdentityMeansChange
PROPERTY EveryRunEnds
CHECK_DEADLOCK FALSE

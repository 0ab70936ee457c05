\* Three runs over one work root, whose sources may have changed meanwhile; the
\* last one is not killed.
SPECIFICATION FairSpec
CONSTANTS
  t1 = t1  t2 = t2  manifest = manifest  i1 = i1  i2 = i2   part = part  whole = whole  None = None
  Part = part  Whole = whole
  Tables = {t1, t2}
  Manifest = manifest
  Identities = {i1, i2}
  MaxRuns = 3
INVARIANTS LedgerIsDurable CheckpointIsBacked NoSelfConflict
PROPERTIES DurableOnce EndsOrIsStuck
CHECK_DEADLOCK FALSE

\* A market of two tokens, the second of which only gets snapshots.
SPECIFICATION Spec
CONSTANTS
  up = up  down = down  coarse = coarse  fine = fine  None = None
  Tokens = {up, down}
  Busy = {up}
  NumPrices = 2
  Ticks = {coarse, fine}
  Messages <- FewMessages
  Opening <- Spread
  Begin = 1
  End = 3
  Interval = 1
  MaxBatch = 2
  MaxLost = 1
SYMMETRY TicksAlike
INVARIANTS GridIsFaithful ConflictMeansDamage UntradedBatchAgrees GapsAreExact
CHECK_DEADLOCK FALSE

\* A row is lost, and a trade follows the next change.
SPECIFICATION Spec
CONSTANTS
  up = up  down = down  coarse = coarse  fine = fine  None = None
  Tokens = {up}
  Busy = {up}
  NumPrices = 2
  Ticks = {coarse, fine}
  Messages <- FewMessages
  Opening <- Spread
  Begin = 1
  End = 3
  Interval = 1
  MaxBatch = 2
  MaxLost = 1
SYMMETRY TicksAlike
INVARIANT BatchAgrees
CHECK_DEADLOCK FALSE

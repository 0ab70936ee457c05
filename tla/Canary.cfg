\* Three assets, prior proofs of four, two and two starts, three rounds of two.
SPECIFICATION Spec
CONSTANTS
  a1 = a1  a2 = a2  a3 = a3
  None = None
  Assets = {a1, a2, a3}
  Rank <- Ranks
  PriorRank <- PriorRanks
  Configured = {a1, a2, a3}
  PriorStarts <- SharedStarts
  PriorAccepted <- SharedAccepted
  PriorExcluded = {a1, a2, a3}
  Rounds <- ThreeRounds
  MaxCandidates = 2
  MaxObjects = 5
  Windows = 2
  Missing <- MissingHours
  Reuses <- SomeReuses
INVARIANTS BudgetsSuffice ReceiptOpensGate CoverIsMinimum
CHECK_DEADLOCK FALSE

\* Two assets, three market windows, five objects of two versions, three runs.
SPECIFICATION FairSpec
CONSTANTS
  Assets = {1, 2}
  Slots = {1, 2, 4}
  Windows = 1
  Horizon = 4
  Gaps = {3}
  Versions = {1, 2}
  Size <- Sizes
  Pinned = 1
  RowCount <- RowCounts
  Late <- LateMarkets
  MarketCap = 3
  AssetCap = 6
  ObjectMarketCap = 3
  ObjectAssetCap = 5
  MaxChanges = 1
  MaxRuns = 3
INVARIANTS ProvenanceIsExact LeftoversAreHarmless CountsAreOfTheSpool
PROPERTIES SourcesAreCountedOnce DayEnds
CHECK_DEADLOCK FALSE

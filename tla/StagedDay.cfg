\* Two assets, four hours of markets of which Gamma knows any subset.
SPECIFICATION FairSpec
CONSTANTS
  a1 = a1  a2 = a2  e1 = e1  e2 = e2  e3 = e3  c1 = c1  c2 = c2  c3 = c3
  Assets = {a1, a2}
  Slots = {2, 3, 5, 6, 9}
  Windows = 2
  Horizon = 10
  Gaps = {6}
  Events = {e1, e2, e3}
  Copies = {c1, c2, c3}
  Archives <- SomeArchives
  RowCap = 2
  Starving = TRUE
INVARIANTS StagedIsComplete PendingIsFuture OnlyRowCapBinds NoAlarm
PROPERTY DayIsStaged
CHECK_DEADLOCK FALSE

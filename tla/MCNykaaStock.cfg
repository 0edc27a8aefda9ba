SPECIFICATION Spec
CONSTANTS
  Worker = {w1, w2}
  w1 = w1
  w2 = w2
  Null = Null
  Says <- MCSays
  MaxInteger = 150000
  Name <- MCName
  Collapsed <- MCCollapsed
  Folded <- MCFolded
  Feeds <- MCUnavailable
  MaxFaults = 1
  BatchSize = 2
INVARIANTS
  StockIsReal
CHECK_DEADLOCK FALSE

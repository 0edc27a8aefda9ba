SPECIFICATION Spec
CONSTANTS
  Worker = {w1, w2}
  w1 = w1
  w2 = w2
  Listing = {l1}
  l1 = l1
  l2 = l2
  LockKey <- MCOneKey
  Scan <- MCScan
  Tap <- MCTwoTaps
  Edges <- MCEdges
  NoEntry = NoEntry
  NoListing = NoListing
  MaxFaults = 0
PROPERTIES
  TerminalIsFinal
CHECK_DEADLOCK FALSE

SPECIFICATION FairSpec
CONSTANTS
  Worker = {w1, w2}
  w1 = w1
  w2 = w2
  Listing = {l1, l2}
  l1 = l1
  l2 = l2
  LockKey <- MCOneKey
  Scan <- MCScan
  Tap <- MCTap
  Edges <- MCEdges
  NoEntry = NoEntry
  NoListing = NoListing
  MaxFaults = 0
PROPERTIES
  ImplementsLifecycle
  PublishedIsHandled
CHECK_DEADLOCK FALSE

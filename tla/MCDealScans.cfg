SPECIFICATION Spec
CONSTANTS
  Worker = {w1, w2}
  w1 = w1
  w2 = w2
  Listing = {l1}
  l1 = l1
  l2 = l2
  LockKey <- MCOneKey
  Scan <- MCScan3
  Tap = {}
  Edges <- MCEdges
  NoEntry = NoEntry
  NoListing = NoListing
  MaxFaults = 1
INVARIANTS
  TypeOK
  OneOpenDealPerListing
  MarkAgreesWithWork
  CommittedDealIsAnnounced
  ListingIsBacked
  NobodyWaitsInACircle
  CopiesAreBounded
CHECK_DEADLOCK FALSE
SYMMETRY Workers

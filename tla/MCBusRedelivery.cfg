SPECIFICATION FairSpec
CONSTANTS
  listing = listing
  tap = tap
  Stream <- MCStream
  Rank <- MCRank
  Worker = {w1, w2}
  BatchSize = 2
  MaxLen <- MCMaxLen
  LossyReply = FALSE
  MaxFaults = 1
PROPERTIES
  PendingIsRetried
CHECK_DEADLOCK FALSE

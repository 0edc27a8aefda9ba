SPECIFICATION FairSpec
CONSTANTS
  listing = listing
  tap = tap
  Stream <- MCStream
  Rank <- MCRank
  Worker = {w1, w2}
  BatchSize = 2
  MaxLen <- MCMaxLen
  LossyReply = TRUE
  MaxFaults = 1
INVARIANTS
  TypeOK
  DeliveredIsAccountedFor
  AckedWasSettled
  LossIsBounded
PROPERTIES
  HandledAtMostOnce
  AbandonedForGood
  PublishedIsSettled
  ImplementsDelivery
CHECK_DEADLOCK FALSE

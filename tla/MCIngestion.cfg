SPECIFICATION FairSpec
CONSTANTS
  Worker = {w1, w2}
  w1 = w1
  w2 = w2
  Null = Null
  Says <- MCSays
  MaxInteger = 150000
  Name <- MCName
  Collapsed <- MCCollapsed
  Folded <- MCFolded
  Feeds <- MCFeeds
  MaxFaults = 1
  BatchSize = 2
INVARIANTS
  TypeOK
  PublishNeverRejects
  SameOfferSameMoney
  StockIsReal
  BatchIsTheGoodPrefix
  BrandsAreSound
  TierIsSeen
  NobodyWaitsInACircle
PROPERTIES
  EveryGoodListingIsCatalogued
CHECK_DEADLOCK FALSE

SPECIFICATION FairSpec
CONSTANTS
  Worker = {w1}
  Deal = {"d1", "d2"}
  Scored <- MCScored
  Request <- MCRequest
  Detected <- MCDetected
  LivePrice <- MCLivePrice
  Budget = 1
  MaxDeals = 1
  BatchSize = 2
  NoEntry = NoEntry
  NoDeal = NoDeal
  MaxTime = 2
  MaxFaults = 1
INVARIANTS
  TypeOK
  AnswersAreFresh
  TwoPercentIsTheLine
  CopiesGetFewAnswers
PROPERTIES
  ImplementsDesk
  OnlyRefusalsLoseRequests
CHECK_DEADLOCK FALSE

SPECIFICATION Spec
CONSTANTS
  Worker = {w1}
  Deal = {"d1"}
  Scored <- MCOneScored
  Request <- MCOneRequest
  Detected <- MCOneDetected
  LivePrice <- MCLivePrice
  Budget = 1
  MaxDeals = 2
  BatchSize = 2
  NoEntry = NoEntry
  NoDeal = NoDeal
  MaxTime = 2
  MaxFaults = 1
INVARIANTS
  KnownDealIsAnswered
CHECK_DEADLOCK FALSE

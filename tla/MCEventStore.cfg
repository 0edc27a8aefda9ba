SPECIFICATION FairSpec
CONSTANTS
  Worker = {w1, w2}
  Entry <- MCEntry
  NoEntry = NoEntry
  MaxFaults = 1
INVARIANTS
  TypeOK
  ReplicaKeepsOrder
PROPERTIES
  ImplementsLog
  PublishedIsStored
CHECK_DEADLOCK FALSE

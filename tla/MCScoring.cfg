SPECIFICATION Spec
CONSTANTS
  MaxPrice = 2147483647
  Price <- MCPrice
  Mrp <- MCMrp
  Appeal <- MCAppeal
  Window = 1
  NoDeal = NoDeal
  MaxDay = 2
  MaxScans = 3
INVARIANTS
  TypeOK
  ReferenceIsReal
  BreakdownInRange
  CheaperIsNeverWorse
CHECK_DEADLOCK FALSE

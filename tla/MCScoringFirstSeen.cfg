SPECIFICATION Spec
CONSTANTS
  MaxPrice = 2147483647
  Price <- MCPrice
  Mrp <- MCMrp
  Appeal <- MCAppeal
  Window = 1
  NoDeal = NoDeal
  MaxDay = 2
  MaxScans = 3
INVARIANT FirstSeenEarnsNoVelocity
CHECK_DEADLOCK FALSE

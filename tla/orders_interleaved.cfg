\* Three overlapping requests of one customer and the admin, with faults.
CONSTANTS
  p1 = p1  p2 = p2  u1 = u1  u2 = u2  r1 = r1  r2 = r2  r3 = r3  r4 = r4  r5 = r5
  Products <- TwoProducts
  Users <- OneUser
  Requests <- ThreeRequests
  Carts <- MixedCarts
  InitialStock <- PairStock
  MaxInFlight = 3
  Faults = TRUE
SPECIFICATION Spec
SYMMETRY RequestSymmetry
INVARIANTS
  TypeOK
  StockLedger
  LoggedOrderIsComplete
  NotifiedIsLogged
  StatusExplained

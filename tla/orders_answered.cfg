\* Two overlapping requests of two customers, no call failing, fair event loop.
CONSTANTS
  p1 = p1  p2 = p2  u1 = u1  u2 = u2  r1 = r1  r2 = r2  r3 = r3  r4 = r4  r5 = r5
  Products <- TwoProducts
  Users <- TwoUsers
  Requests <- TwoRequests
  Carts <- MixedCarts
  InitialStock <- PairStock
  MaxInFlight = 2
  Faults = FALSE
SPECIFICATION FairSpec
INVARIANTS
  AuditIsComplete
PROPERTIES
  PlacedOrderIsAnnounced

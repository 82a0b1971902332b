\* Five requests handled one after the other.
CONSTANTS
  p1 = p1  p2 = p2  u1 = u1  u2 = u2  r1 = r1  r2 = r2  r3 = r3  r4 = r4  r5 = r5
  Products <- OneProduct
  Users <- OneUser
  Requests <- FiveRequests
  Carts <- ScarceCarts
  InitialStock <- ScarceStock
  MaxInFlight = 1
  Faults = FALSE
SPECIFICATION Spec
SYMMETRY RequestSymmetry
INVARIANTS
  AuditReplays
  CustomerIsUpToDate

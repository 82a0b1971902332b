\* Two customers, three overlapping requests, two pincodes and one zone, with faults.
CONSTANTS
  u1 = u1  u2 = u2  r1 = r1  r2 = r2  r3 = r3  p1 = p1  p2 = p2  z1 = z1
  Users <- TwoUsers
  Requests <- ThreeRequests
  Pincodes <- TwoPincodes
  ZoneIds <- OneZone
  MaxInFlight = 2
  Faults = TRUE
SPECIFICATION Spec
SYMMETRY Symmetry
INVARIANTS
  TypeOK
  OneDefault
  DefaultIsKept

----------------------------- MODULE MCAddresses -----------------------------
(* Instances of Addresses for TLC. *)
EXTENDS Addresses, TLC

CONSTANTS u1, u2, r1, r2, r3, p1, p2, z1

OneUser       == {u1}
TwoUsers      == {u1, u2}
ThreeRequests == {r1, r2, r3}
TwoPincodes   == {p1, p2}
OneZone       == {z1}

Symmetry == Permutations(Requests) \cup Permutations(Users) \cup Permutations(Pincodes)
=============================================================================

------------------------------ MODULE MCOrders ------------------------------
(* Instances of Orders for TLC. *)
EXTENDS Orders, TLC

CONSTANTS p1, p2, u1, u2, r1, r2, r3, r4, r5

OneProduct  == {p1}
TwoProducts == {p1, p2}
OneUser     == {u1}
TwoUsers    == {u1, u2}
ThreeRequests == {r1, r2, r3}
FiveRequests  == {r1, r2, r3, r4, r5}
TwoRequests == {r1, r2}

L(p, q) == [product |-> p, quantity |-> q]

\* Two lines, and the empty list the DTO lets through.
MixedCarts  == {<<L(p1, 1), L(p2, 2)>>, << >>}
\* Carts whose sums exceed the stock of p1.
ScarceCarts == {<<L(p1, 1)>>, <<L(p1, 2)>>}
SmallCarts  == {<<L(p1, 1)>>}

ScarceStock == [p \in OneProduct |-> 2]
PairStock   == [p \in TwoProducts |-> 2]

RequestSymmetry == Permutations(Requests)
=============================================================================

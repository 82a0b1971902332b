-------------------------------- MODULE Listing --------------------------------
(***************************************************************************)
(* Two operations on lists that the pages and the service share: ORDER BY  *)
(* a number and Array.filter.  They say where an entry comes from instead  *)
(* of how the list is walked.                                              *)
(***************************************************************************)
EXTENDS Integers, Sequences, FiniteSets

\* The numbers of S in ascending order: the i-th is the one with i - 1 below it.
Ascending(S) ==
    [i \in 1 .. Cardinality(S) |-> CHOOSE x \in S : Cardinality({y \in S : y < x}) = i - 1]

\* The entries of list whose positions are in kept, in their order.
AtPositions(list, kept) ==
    LET position == Ascending(kept) IN [j \in 1 .. Cardinality(kept) |-> list[position[j]]]

\* The list without what has the id.
Without(list, id) == AtPositions(list, {i \in 1 .. Len(list) : list[i].id # id})

================================================================================

-------------------------------- MODULE Orders --------------------------------
(***************************************************************************)
(* Sets of positions in ascending order.                                   *)
(***************************************************************************)
EXTENDS Naturals, FiniteSets

\* The k-th position is the one with k - 1 before it.
Place(positions, k) == CHOOSE p \in positions : Cardinality({q \in positions : q < p}) = k - 1
InOrder(positions) == [k \in 1 .. Cardinality(positions) |-> Place(positions, k)]
================================================================================

------------------------------ MODULE Positions ------------------------------
(* The elements of a list at some of its positions, in the order of the list. *)
EXTENDS Integers, FiniteSets

\* The n-th of some positions.
Nth(positions, n) ==
    CHOOSE i \in positions : Cardinality({j \in positions : j < i}) = n - 1

At(list, positions) ==
    [n \in 1 .. Cardinality(positions) |-> list[Nth(positions, n)]]

=============================================================================

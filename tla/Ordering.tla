------------------------------ MODULE Ordering ------------------------------
(***************************************************************************)
(* Python's sorted() of the elements of a set.  The order is given by the  *)
(* rank of each element, which proofs can count with.                      *)
(***************************************************************************)
EXTENDS Integers, FiniteSets

\* `before' is a strict total order on the finite set S.
InOrder(S, before(_, _)) ==
    [n \in 1 .. Cardinality(S) |->
        CHOOSE x \in S : Cardinality({y \in S : before(y, x)}) = n - 1]

Ascending(numbers) == InOrder(numbers, <)
=============================================================================

------------------------------- MODULE Sorting -------------------------------
(***************************************************************************)
(* A finite set in an order, for the components that sort what they list.  *)
(***************************************************************************)
EXTENDS Integers, FiniteSets

(* The k-th member has k - 1 before it. *)
Sorted(S, Before(_, _)) ==
  [k \in 1..Cardinality(S) |->
     CHOOSE x \in S : Cardinality({y \in S : Before(y, x)}) = k - 1]

===============================================================================

------------------------------ MODULE Sorting ------------------------------
(***************************************************************************)
(* What ORDER BY returns: the members of a finite set in a strict order.   *)
(* The place of a member is the number of those before it.                 *)
(***************************************************************************)
EXTENDS Naturals, FiniteSets

Sorted(S, Before(_, _)) ==
  [n \in 1..Cardinality(S) |->
     CHOOSE i \in S : Cardinality({j \in S : Before(j, i)}) = n - 1]
=============================================================================

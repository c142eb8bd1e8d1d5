----------------------------- MODULE MCFollows -----------------------------
(***************************************************************************)
(* Instances of Follows for TLC. Only the requests are interchangeable: an *)
(* idle one holds a chosen pair of accounts.                               *)
(***************************************************************************)
EXTENDS Follows, TLC

Symmetry == Permutations(Requests)

=============================================================================

--------------------------- MODULE MCPasswordReset ---------------------------
(***************************************************************************)
(* Instances of PasswordReset for TLC. Requests are interchangeable.       *)
(***************************************************************************)
EXTENDS PasswordReset, TLC

Symmetry == Permutations(Requests)

=============================================================================

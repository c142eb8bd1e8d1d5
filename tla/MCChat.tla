------------------------------- MODULE MCChat -------------------------------
(***************************************************************************)
(* Instances of Chat for TLC. Slots, messages and files are interchangeable.*)
(***************************************************************************)
EXTENDS Chat, TLC

CONSTANTS ana, bia

\* bia runs the group, or is in a DIRECT conversation that a block may close,
\* or is gone; ana may be out for a while.
Come == {[u \in Users |-> IF u = bia THEN "ADMIN" ELSE to] :
           to \in {"MEMBER", "OUT"}}

Symmetry ==
    Permutations(Requests) \cup Permutations(Msgs) \cup Permutations(Files)

=============================================================================

------------------------------- MODULE Outbox -------------------------------
(***************************************************************************)
(* What a fan-out promises its audience: a notification is kept before it  *)
(* is sent, and none is sent twice, however often its job is run again.    *)
(***************************************************************************)
EXTENDS Naturals

CONSTANT Pairs          \* <<job, user>>

VARIABLES stored,       \* the pairs whose notification exists
          sent          \* how many times each pair was delivered

Init == stored = {} /\ sent = [p \in Pairs |-> 0]

\* Rows are inserted for pairs that had none.
Store == stored \subseteq stored' /\ stored' \subseteq Pairs /\ UNCHANGED sent

\* Some of the stored notifications that were never sent are delivered.
Send ==
  /\ sent' \in [Pairs -> 0..1] /\ UNCHANGED stored
  /\ \A p \in Pairs : sent'[p] = sent[p] \/ (p \in stored /\ sent[p] = 0)

Next == Store \/ Send

Spec == Init /\ [][Next]_<<stored, sent>>
=============================================================================

----------------------------- MODULE MCBilling -----------------------------
(* Small instances of Billing: one account, one or two subscription slots. *)
EXTENDS Billing, TLC

CONSTANTS ana, s1, s2, w1, w2

OneOwner == [s \in Subs |-> ana]

\* Two requests that swap names behave alike.
WorkerSymmetry == Permutations({w1, w2})

OrderKinds == {"subscription", "invoice"}
SetupKinds == {"subscription", "setup"}
SubscriptionKinds == {"subscription"}

=============================================================================

-------------------------- MODULE MCStripeBilling --------------------------
(* Instances of StripeBilling for TLC. *)
EXTENDS StripeBilling, TLC

\* Every invoice belongs to the same subscription.
OneSub == [i \in Invoices |-> CHOOSE s \in Subs : TRUE]
=============================================================================

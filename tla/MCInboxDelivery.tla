-------------------------- MODULE MCInboxDelivery --------------------------
(* Instances of InboxDelivery for TLC. *)
EXTENDS InboxDelivery, TLC

Symmetry == Permutations(Handlers) \cup Permutations(Texts)
=============================================================================

---------------------------- MODULE Entitlements ----------------------------
(***************************************************************************)
(* What billing promises about one payment, however often and in whatever  *)
(* order its event is delivered, and whatever fails: nothing is granted    *)
(* before it is paid, a grant is given once and never taken back, the      *)
(* event is acknowledged only for what is granted, and what can be spent   *)
(* is credited for a payment alone, at the moment its kind prescribes.     *)
(* Spendable credits may fall back to what was last saved, and never       *)
(* further.                                                                *)
(***************************************************************************)
EXTENDS Naturals

CONSTANTS Purchases, Invoices

VARIABLES
  paid,       \* payments made at Stripe
  granted,    \* payments whose credits are in the table
  settled,    \* purchases whose event was acknowledged as processed
  spendable,  \* entries in the ledger in memory, for each payment
  kept        \* the same in the last snapshot of that ledger

vars == <<paid, granted, settled, spendable, kept>>

Payments == Purchases \cup Invoices

Init ==
  /\ paid = {} /\ granted = {} /\ settled = {}
  /\ spendable = [g \in Payments |-> 0] /\ kept = spendable

Pay(g) ==
  /\ g \notin paid /\ paid' = paid \cup {g}
  /\ UNCHANGED <<granted, settled, spendable, kept>>

\* A purchase is granted before it can be spent, an invoice after.
Grant(g) ==
  /\ g \in paid \ granted /\ granted' = granted \cup {g}
  /\ g \in Invoices => spendable[g] > 0
  /\ UNCHANGED <<paid, settled, spendable, kept>>

Credit(g) ==
  /\ g \in paid
  /\ g \in Purchases <=> g \in granted
  /\ spendable' = [spendable EXCEPT ![g] = @ + 1]
  /\ UNCHANGED <<paid, granted, settled, kept>>

Settle(p) ==
  /\ p \in granted \ settled /\ settled' = settled \cup {p}
  /\ UNCHANGED <<paid, granted, spendable, kept>>

Save ==
  /\ kept' = spendable
  /\ UNCHANGED <<paid, granted, settled, spendable>>

Restart ==
  /\ spendable' = kept
  /\ UNCHANGED <<paid, granted, settled, kept>>

Next ==
  \/ \E g \in Payments : Pay(g) \/ Grant(g) \/ Credit(g)
  \/ \E p \in Purchases : Settle(p)
  \/ Save \/ Restart

Spec == Init /\ [][Next]_vars
=============================================================================

---------------------------- MODULE StripeBilling ----------------------------
(***************************************************************************)
(* Paid entitlements of one tenant: credit purchases and subscriptions are *)
(* opened by checkout calls, paid at Stripe, and granted by webhooks.      *)
(*                                                                         *)
(* Everything is kept twice: in tables, and in the in-memory lists that    *)
(* the rest of the program reads, which a restart refills from snapshots   *)
(* taken store by store.  Checkout calls run on a thread pool; the webhook *)
(* runs on the event loop and holds _lock throughout, so webhooks do not   *)
(* overlap; checkout takes _lock only around its accesses to memory.       *)
(*                                                                         *)
(* Left out: prices, amounts and metadata (checked against the server's    *)
(* own rows), signatures, tenants (no query crosses them), read-only       *)
(* endpoints.  Of the free plan (billing.py), which has a lock of its own, *)
(* only what it does to paid subscriptions is modelled; cancelling it is   *)
(* refused for those.                                                      *)
(***************************************************************************)
EXTENDS Integers, FiniteSets

CONSTANTS
  Purchases,   \* credit purchases, one request id each
  Subs,        \* Stripe subscriptions
  Invoices,    \* Stripe invoices of subscriptions
  SubOf,       \* the subscription of each invoice
  None,        \* no event
  MaxEvents,   \* bound on the number of Stripe events
  FaultKinds,  \* which faults the instance may suffer
  MaxFaults    \* bound on the number of faults

\* db: a transaction fails (grant: that of apply_subscription_credits); stripe:
\* Stripe refuses a checkout session; duplicate: Stripe delivers once more what
\* was acknowledged; crash: the API process dies and restarts; free: no failure, but
\* bounded like one, the tenant takes the free plan.
AllFaults == {"db", "grant", "stripe", "duplicate", "crash", "free"}

\* Events by what they are about; status is the subscription status they imply.
Event == [kind : {"credit"}, of : Purchases, status : {"paid"}]
    \cup [kind : {"checkout"}, of : Subs, status : {"active"}]
    \cup [kind : {"invoice"}, of : Invoices, status : {"active"}]
    \cup [kind : {"subscription"}, of : Subs, status : {"active", "past_due", "cancelled"}]

ASSUME BillingAssumption ==
  /\ SubOf \in [Invoices -> Subs]
  /\ Purchases \cap Invoices = {}
  /\ None \notin Event
  /\ FaultKinds \subseteq AllFaults
  /\ MaxEvents \in Nat /\ MaxFaults \in Nat

VARIABLES
  row,        \* billing_credit_purchases: status of each purchase
  subRow,     \* billing_subscriptions: status of each subscription
  grants,     \* billing_credit_ledger: what credits were granted for
  processed,  \* stripe_webhook_events
  invoice,    \* invoices in memory: status of each purchase
  subMem,     \* subscriptions in memory
  credits,    \* credit_ledger in memory: number of entries for each payment
  saved,      \* the three stores as last flushed to their snapshots
  checkout,   \* create_credit_checkout: where the call for each purchase is
  hook,       \* stripe_webhook: where it is, with which event
  opened,     \* Stripe: subscriptions with an open checkout session
  stripeSub,  \* Stripe: the real status of each subscription
  emitted,    \* Stripe: events that have happened
  unacked,    \* Stripe: events it still has to deliver
  faults,     \* number of faults so far
  suffered    \* history: the kinds among them that part memory from the tables

tables == <<row, subRow, grants, processed>>
memory == <<invoice, subMem, credits>>
stripe == <<opened, stripeSub, emitted>>
vars == <<row, subRow, grants, processed, invoice, subMem, credits, saved, checkout, hook,
          opened, stripeSub, emitted, unacked, faults, suffered>>

\* A purchase has its checkout session id when it is pending or paid, and
\* its credits were applied when it is paid.
PurchaseStatus == {"none", "creating", "failed", "pending", "paid"}
SubStatus == {"none", "active", "past_due", "cancelled", "superseded"}
Grantable == Purchases \cup Invoices

TypeOK ==
  /\ row \in [Purchases -> PurchaseStatus] /\ invoice \in [Purchases -> PurchaseStatus]
  /\ subRow \in [Subs -> SubStatus] /\ subMem \in [Subs -> SubStatus]
  /\ grants \subseteq Grantable
  /\ credits \in [Grantable -> Nat]
  /\ saved \in [invoice : [Purchases -> PurchaseStatus], subMem : [Subs -> SubStatus],
                credits : [Grantable -> Nat]]
  /\ checkout \in [Purchases -> {"idle", "inserted", "listed", "created", "shown", "refused",
                                 "closed"}]
  /\ hook \in [pc : {"idle", "checked", "committed", "credits", "granting", "marking"},
               event : Event \cup {None}]
  /\ hook.pc # "idle" => hook.event \in emitted
  /\ hook.pc \in {"credits", "granting"} => hook.event.kind = "invoice"
  /\ opened \subseteq Subs
  /\ stripeSub \in [Subs -> SubStatus \ {"superseded"}]
  /\ emitted \subseteq Event /\ unacked \subseteq emitted /\ processed \subseteq emitted
  /\ faults \in Nat /\ suffered \subseteq AllFaults

Init ==
  /\ row = [p \in Purchases |-> "none"] /\ invoice = [p \in Purchases |-> "none"]
  /\ subRow = [s \in Subs |-> "none"] /\ subMem = [s \in Subs |-> "none"]
  /\ grants = {} /\ processed = {}
  /\ credits = [g \in Grantable |-> 0]
  /\ saved = [invoice |-> invoice, subMem |-> subMem, credits |-> credits]
  /\ checkout = [p \in Purchases |-> "idle"]
  /\ hook = [pc |-> "idle", event |-> None]
  /\ opened = {} /\ stripeSub = [s \in Subs |-> "none"]
  /\ emitted = {} /\ unacked = {}
  /\ faults = 0 /\ suffered = {}

Fault(k) ==
  /\ k \in FaultKinds /\ faults < MaxFaults
  /\ faults' = faults + 1 /\ suffered' = suffered \cup ({k} \cap {"crash", "grant", "free"})
NoFault == UNCHANGED <<faults, suffered>>

-----------------------------------------------------------------------------
(* Checkout of credits: create_credit_checkout.                            *)

CheckoutGoes(p, from, to) ==
  checkout[p] = from /\ checkout' = [checkout EXCEPT ![p] = to]

SetRow(p, status) == row' = [row EXCEPT ![p] = status]
SetInvoice(p, status) == invoice' = [invoice EXCEPT ![p] = status]
Unlocked == hook.pc = "idle"

\* Mutant of CheckoutInsert: a request id seen before is taken for a new one.
CheckoutInsertAgain(p) ==
  /\ CheckoutGoes(p, "idle", "inserted")
  /\ SetRow(p, "creating") /\ NoFault
  /\ UNCHANGED <<subRow, grants, processed, memory, saved, hook, stripe, unacked>>

\* The purchase row is inserted.  A request id that has a row is answered from
\* that row when it has a session, and refused by the unique column otherwise.
CheckoutInsert(p) ==
  /\ row[p] = "none"
  /\ CheckoutGoes(p, "idle", "inserted")
  /\ SetRow(p, "creating") /\ NoFault
  /\ UNCHANGED <<subRow, grants, processed, memory, saved, hook, stripe, unacked>>

CheckoutList(p) ==
  /\ Unlocked /\ CheckoutGoes(p, "inserted", "listed")
  /\ SetInvoice(p, "creating") /\ NoFault
  /\ UNCHANGED <<tables, subMem, credits, saved, hook, stripe, unacked>>

\* Stripe creates the session or refuses.
CheckoutCreate(p) ==
  /\ \/ CheckoutGoes(p, "listed", "created") /\ NoFault
     \/ CheckoutGoes(p, "listed", "refused") /\ Fault("stripe")
  /\ UNCHANGED <<tables, memory, saved, hook, stripe, unacked>>

\* The session is noted in memory, then in the table; the customer sees the
\* session only when both are done.
CheckoutShow(p) ==
  /\ Unlocked /\ CheckoutGoes(p, "created", "shown")
  /\ SetInvoice(p, "pending") /\ NoFault
  /\ UNCHANGED <<tables, subMem, credits, saved, hook, stripe, unacked>>

CheckoutBind(p) ==
  /\ CheckoutGoes(p, "shown", "idle")
  /\ \/ SetRow(p, "pending") /\ NoFault
     \/ Fault("db") /\ UNCHANGED row
  /\ UNCHANGED <<subRow, grants, processed, memory, saved, hook, stripe, unacked>>

\* A refusal closes the row, then the invoice.
CheckoutRefuse(p) ==
  /\ \/ CheckoutGoes(p, "refused", "closed") /\ SetRow(p, "failed") /\ NoFault
     \/ CheckoutGoes(p, "refused", "idle") /\ Fault("db") /\ UNCHANGED row
  /\ UNCHANGED <<subRow, grants, processed, memory, saved, hook, stripe, unacked>>

CheckoutClose(p) ==
  /\ Unlocked /\ CheckoutGoes(p, "closed", "idle")
  /\ SetInvoice(p, "failed") /\ NoFault
  /\ UNCHANGED <<tables, subMem, credits, saved, hook, stripe, unacked>>

\* create_checkout_session: refused while the tenant has a subscription.
CheckoutSubscription(s) ==
  /\ s \notin opened
  /\ \A other \in Subs : subRow[other] \notin {"active", "past_due"}
  /\ opened' = opened \cup {s}
  /\ UNCHANGED <<tables, memory, saved, checkout, hook, stripeSub, emitted, unacked>> /\ NoFault

-----------------------------------------------------------------------------
(* Stripe: what happens there becomes an event to deliver, in any order and *)
(* until it is acknowledged.  The bounds: an event happens once, and at most *)
(* MaxEvents do.                                                            *)

Emit(e) ==
  /\ e \notin emitted /\ Cardinality(emitted) < MaxEvents
  /\ emitted' = emitted \cup {e} /\ unacked' = unacked \cup {e}
  /\ UNCHANGED <<tables, memory, saved, checkout, hook, opened>> /\ NoFault

Credit(p) == [kind |-> "credit", of |-> p, status |-> "paid"]
Completed(s) == [kind |-> "checkout", of |-> s, status |-> "active"]
InvoicePaid(i) == [kind |-> "invoice", of |-> i, status |-> "active"]
Changed(s, status) == [kind |-> "subscription", of |-> s, status |-> status]

\* The customer pays for credits at the session the checkout returned.
Pay(p) == row[p] = "pending" /\ Emit(Credit(p)) /\ UNCHANGED stripeSub

Subscribe(s) ==
  /\ s \in opened /\ stripeSub[s] = "none"
  /\ stripeSub' = [stripeSub EXCEPT ![s] = "active"]
  /\ Emit(Completed(s))

PayInvoice(i) ==
  /\ stripeSub[SubOf[i]] \in {"active", "past_due"}
  /\ stripeSub' = [stripeSub EXCEPT ![SubOf[i]] = "active"]
  /\ Emit(InvoicePaid(i))

\* A payment fails, or the subscription is paused, resumed, updated or deleted.
Change(s, status) ==
  /\ stripeSub[s] \in {"active", "past_due"} \ {status}
  /\ stripeSub' = [stripeSub EXCEPT ![s] = status]
  /\ Emit(Changed(s, status))

-----------------------------------------------------------------------------
(* The webhook: stripe_webhook under _lock.                                *)

At(pc, kinds) == hook.pc = pc /\ hook.event.kind \in kinds
HookTo(pc) == hook' = [hook EXCEPT !.pc = pc]

\* The webhook answers; Stripe delivers the event again unless it was a 2xx.
Answer == hook' = [pc |-> "idle", event |-> None]
DbFails == Answer /\ Fault("db")

\* event_processed: a duplicate is acknowledged at once.
Deliver(e) ==
  /\ hook.pc = "idle"
  /\ \/ e \in unacked /\ NoFault
     \/ e \in emitted \ unacked /\ Fault("duplicate")
  /\ IF e \in processed
     THEN unacked' = unacked \ {e} /\ UNCHANGED hook
     ELSE hook' = [pc |-> "checked", event |-> e] /\ UNCHANGED unacked
  /\ UNCHANGED <<tables, memory, saved, checkout, stripe>>

\* Mutant of CreditCommit: the purchase is not marked paid.
CreditCommitUnmarked ==
  LET p == hook.event.of
  IN /\ At("checked", {"credit"}) /\ row[p] \in {"pending", "paid"}
     /\ HookTo("committed") /\ NoFault
     /\ grants' = grants \cup {p}
     /\ UNCHANGED <<row, subRow, processed, memory, saved, checkout, stripe, unacked>>

\* Mutant of CreditCommit: a failed transaction is logged and the event marked processed.
CreditCommitSwallowed ==
  LET p == hook.event.of
  IN /\ At("checked", {"credit"})
     /\ \/ /\ row[p] \in {"pending", "paid"} /\ HookTo("committed") /\ NoFault
           /\ SetRow(p, "paid") /\ grants' = grants \cup {p}
        \/ HookTo("marking") /\ Fault("db") /\ UNCHANGED <<row, grants>>
     /\ UNCHANGED <<subRow, processed, memory, saved, checkout, stripe, unacked>>

\* apply_credit_purchase, the tables: a row with this session becomes paid and its
\* grant is added unless it is there; any other row is an error.
CreditCommit ==
  LET p == hook.event.of
  IN /\ At("checked", {"credit"})
     /\ \/ /\ NoFault
           /\ IF row[p] \in {"pending", "paid"}
              THEN SetRow(p, "paid") /\ grants' = grants \cup {p} /\ HookTo("committed")
              ELSE Answer /\ UNCHANGED <<row, grants>>
        \/ DbFails /\ UNCHANGED <<row, grants>>
     /\ UNCHANGED <<subRow, processed, memory, saved, checkout, stripe, unacked>>

\* Mutant of CreditMemory: credits_applied is not looked at.
CreditMemoryUnguarded ==
  LET p == hook.event.of
  IN /\ At("committed", {"credit"}) /\ invoice[p] \in {"pending", "paid"}
     /\ SetInvoice(p, "paid") /\ credits' = [credits EXCEPT ![p] = @ + 1]
     /\ HookTo("marking") /\ NoFault
     /\ UNCHANGED <<tables, subMem, saved, checkout, stripe, unacked>>

\* Mutant of CreditMemory: the invoice is closed, the ledger in memory not credited.
CreditMemoryForgotten ==
  LET p == hook.event.of
  IN /\ At("committed", {"credit"}) /\ invoice[p] \in {"pending", "paid"}
     /\ SetInvoice(p, "paid") /\ HookTo("marking") /\ NoFault
     /\ UNCHANGED <<tables, subMem, credits, saved, checkout, stripe, unacked>>

\* ... and memory: an invoice that is missing, or has another session, is an error
\* after the tables have committed; one that was applied is left alone.
CreditMemory ==
  LET p == hook.event.of
  IN /\ At("committed", {"credit"})
     /\ \/ /\ invoice[p] = "pending" /\ HookTo("marking")
           /\ SetInvoice(p, "paid") /\ credits' = [credits EXCEPT ![p] = @ + 1]
        \/ invoice[p] = "paid" /\ HookTo("marking") /\ UNCHANGED <<invoice, credits>>
        \/ invoice[p] \notin {"pending", "paid"} /\ Answer /\ UNCHANGED <<invoice, credits>>
     /\ UNCHANGED <<tables, subMem, saved, checkout, stripe, unacked>> /\ NoFault

\* activate_subscription on either copy: a new subscription supersedes the active
\* ones; a known one is left alone.
Activated(subs, s) ==
  IF subs[s] # "none" THEN subs
  ELSE [other \in Subs |-> IF other = s THEN "active"
                           ELSE IF subs[other] = "active" THEN "superseded" ELSE subs[other]]

\* update_subscription_status on either copy: a known subscription is overwritten.
Updated(subs, s, status) == IF subs[s] = "none" THEN subs ELSE [subs EXCEPT ![s] = status]

\* What a subscription event does to a copy of the subscriptions.
Applied(subs, e) ==
  IF e.kind = "checkout" THEN Activated(subs, e.of)
  ELSE Updated(subs, IF e.kind = "invoice" THEN SubOf[e.of] ELSE e.of, e.status)

SubEvents == {"checkout", "invoice", "subscription"}

SubCommit ==
  /\ At("checked", SubEvents)
  /\ \/ subRow' = Applied(subRow, hook.event) /\ HookTo("committed") /\ NoFault
     \/ DbFails /\ UNCHANGED subRow
  /\ UNCHANGED <<row, grants, processed, memory, saved, checkout, stripe, unacked>>

\* Mutant of SubMemory: activation does not reach the list in memory.
SubMemoryUpdateOnly ==
  /\ At("committed", SubEvents)
  /\ subMem' = IF hook.event.kind = "checkout" THEN subMem ELSE Applied(subMem, hook.event)
  /\ HookTo(IF hook.event.kind = "invoice" THEN "credits" ELSE "marking")
  /\ UNCHANGED <<tables, invoice, credits, saved, checkout, stripe, unacked>> /\ NoFault

SubMemory ==
  /\ At("committed", SubEvents)
  /\ subMem' = Applied(subMem, hook.event)
  /\ HookTo(IF hook.event.kind = "invoice" THEN "credits" ELSE "marking")
  /\ UNCHANGED <<tables, invoice, credits, saved, checkout, stripe, unacked>> /\ NoFault

\* Mutant of InvoiceCredit: the grant is not looked up.
InvoiceCreditAgain ==
  LET i == hook.event.of
  IN /\ hook.pc = "credits"
     /\ IF subRow[SubOf[i]] = "none"
        THEN HookTo("marking") /\ UNCHANGED credits
        ELSE HookTo("granting") /\ credits' = [credits EXCEPT ![i] = @ + 1]
     /\ UNCHANGED <<tables, invoice, subMem, saved, checkout, stripe, unacked>> /\ NoFault

\* apply_subscription_credits: an unknown subscription or an invoice that has its
\* grant adds nothing; otherwise memory is credited inside the transaction ...
InvoiceCredit ==
  LET i == hook.event.of
  IN /\ hook.pc = "credits"
     /\ IF subRow[SubOf[i]] = "none" \/ i \in grants
        THEN HookTo("marking") /\ UNCHANGED credits
        ELSE HookTo("granting") /\ credits' = [credits EXCEPT ![i] = @ + 1]
     /\ UNCHANGED <<tables, invoice, subMem, saved, checkout, stripe, unacked>> /\ NoFault

\* ... whose commit adds the grant.
InvoiceGrant ==
  /\ hook.pc = "granting"
  /\ \/ grants' = grants \cup {hook.event.of} /\ HookTo("marking") /\ NoFault
     \/ Answer /\ Fault("grant") /\ UNCHANGED grants
  /\ UNCHANGED <<row, subRow, processed, memory, saved, checkout, stripe, unacked>>

\* mark_event, and the 2xx answer.
MarkEvent ==
  /\ hook.pc = "marking"
  /\ \/ /\ processed' = processed \cup {hook.event} /\ unacked' = unacked \ {hook.event}
        /\ Answer /\ NoFault
     \/ DbFails /\ UNCHANGED <<processed, unacked>>
  /\ UNCHANGED <<row, subRow, grants, memory, saved, checkout, stripe>>

-----------------------------------------------------------------------------
\* The flush thread snapshots one store at a time.
Flush ==
  /\ saved' \in {[saved EXCEPT !.invoice = invoice], [saved EXCEPT !.subMem = subMem],
                 [saved EXCEPT !.credits = credits]} \ {saved}
  /\ UNCHANGED <<tables, memory, checkout, hook, stripe, unacked>> /\ NoFault

\* The API process dies and restarts from its snapshots.
Crash ==
  /\ Fault("crash")
  /\ invoice' = saved.invoice /\ subMem' = saved.subMem /\ credits' = saved.credits
  /\ checkout' = [p \in Purchases |-> "idle"] /\ Answer
  /\ UNCHANGED <<tables, saved, stripe, unacked>>

\* The free plan of billing.py: the active subscriptions, if there are any, are cancelled,
\* in memory alone and at any moment, since the webhook holds another lock.
SubscribeFree ==
  /\ Fault("free") /\ \E s \in Subs : subMem[s] = "active"
  /\ subMem' = [s \in Subs |-> IF subMem[s] = "active" THEN "cancelled" ELSE subMem[s]]
  /\ UNCHANGED <<tables, invoice, credits, saved, checkout, hook, stripe, unacked>>

CheckoutStep(p) ==
  \/ CheckoutList(p) \/ CheckoutCreate(p) \/ CheckoutShow(p) \/ CheckoutBind(p)
  \/ CheckoutRefuse(p) \/ CheckoutClose(p)

HookStep ==
  CreditCommit \/ CreditMemory \/ SubCommit \/ SubMemory \/ InvoiceCredit \/ InvoiceGrant
  \/ MarkEvent

Next ==
  \/ \E p \in Purchases : CheckoutInsert(p) \/ CheckoutStep(p) \/ Pay(p)
  \/ \E s \in Subs : \/ CheckoutSubscription(s) \/ Subscribe(s)
                     \/ \E status \in {"active", "past_due", "cancelled"} : Change(s, status)
  \/ \E i \in Invoices : PayInvoice(i)
  \/ \E e \in Event : Deliver(e)
  \/ HookStep \/ Flush \/ Crash \/ SubscribeFree

Spec == Init /\ [][Next]_vars

\* Customers need not act and faults need not happen; a webhook that has begun goes
\* on, and Stripe keeps delivering the event of a purchase until it is acknowledged.
Fairness == WF_vars(HookStep) /\ \A p \in Purchases : SF_vars(Deliver(Credit(p)))
FairSpec == Spec /\ Fairness

-----------------------------------------------------------------------------
(* Properties.                                                             *)

\* What was paid is granted: an acknowledged purchase has its grant and is paid, and
\* nothing is granted or spendable that was not paid at Stripe, whatever fails.
Paid(g) == \E e \in emitted : e.kind \in {"credit", "invoice"} /\ e.of = g
GrantsFollowPayments ==
  /\ \A g \in Grantable : g \in grants \/ credits[g] > 0 => Paid(g)
  /\ \A p \in Purchases : /\ row[p] = "paid" <=> p \in grants
                          /\ Credit(p) \in processed => p \in grants

\* Why: a checkout call under way has a row without a session, a paid session has a
\* row that names it, and a webhook past its commit has left its grant behind.
CheckoutPlaces ==
  \A p \in Purchases :
    /\ checkout[p] \in {"inserted", "listed", "created", "shown", "refused"} => row[p] = "creating"
    /\ checkout[p] = "closed" => row[p] = "failed"
    /\ Credit(p) \in emitted => row[p] \in {"pending", "paid"}
HookPlaces ==
  At("committed", {"credit"}) \/ At("marking", {"credit"}) => hook.event.of \in grants
SavedArePaid == \A g \in Grantable : saved.credits[g] > 0 => Paid(g)
Granting == GrantsFollowPayments /\ CheckoutPlaces /\ HookPlaces /\ SavedArePaid

\* Why an invoice is credited before it is granted: the transaction credits memory first.
InvoiceIsCredited == hook.pc = "granting" => credits[hook.event.of] > 0

\* The whole design implements what billing promises about one payment: each is granted
\* once, for good and only when paid, acknowledged only when granted, credited only for
\* itself and when its kind prescribes, and what can be spent falls back only to what was
\* saved.  A purchase is granted when its row is paid and its ledger row is there.
Entitled == INSTANCE Entitlements WITH
  paid <- {g \in Grantable : Paid(g)},
  granted <- {g \in grants : g \in Purchases => row[g] = "paid"},
  settled <- {p \in Purchases : Credit(p) \in processed},
  spendable <- credits,
  kept <- saved.credits
ImplementsEntitlements == Entitled!Spec

\* Webhook events are processed once: no event, however often and late it comes, credits
\* the spendable ledger twice.
CreditedOnce == \A g \in Grantable : credits[g] <= 1

\* Crashes and grants that fail to commit separate memory from the tables; short of
\* those, failed transactions and repeated or late deliveries credit nothing twice.
Together == suffered \cap {"crash", "grant"} = {}
TogetherCreditedOnce == Together => CreditedOnce

\* A paid purchase is never reopened by the checkout call that created it.
PaidIsFinal == [][\A p \in Purchases : row[p] = "paid" => row'[p] = "paid"]_row

\* A subscription in memory is as the table says, except that who took the free plan may
\* find a paid one cancelled that the table and Stripe go on with, or superseded since.
Matches(inTable, inMemory) ==
  \/ inMemory = inTable
  \/ "free" \in suffered /\ inMemory = "cancelled" /\ inTable \in {"active", "superseded"}
\* Likewise, between webhooks memory shows what the tables say: of the subscriptions, of
\* what was paid, and of what was granted.
CopiesAgree ==
  Together /\ hook.pc = "idle" =>
    /\ \A s \in Subs : Matches(subRow[s], subMem[s])
    /\ \A p \in Purchases : row[p] = "paid" => invoice[p] = "paid"
    /\ \A g \in grants : credits[g] >= 1

\* Why: the two copies change in step.
SubsInStep ==
  LET shown == IF At("committed", SubEvents) THEN Applied(subMem, hook.event) ELSE subMem
  IN \A s \in Subs : Matches(subRow[s], shown[s])
PurchasesInStep ==
  \A p \in Purchases :
    /\ credits[p] = IF invoice[p] = "paid" THEN 1 ELSE 0
    /\ row[p] = "paid" => invoice[p] = "paid" \/ (At("committed", {"credit"}) /\ hook.event.of = p)
    /\ row[p] \in {"pending", "paid"} => invoice[p] \in {"pending", "paid"}
    /\ invoice[p] = "paid" => row[p] = "paid"
    /\ checkout[p] = "shown" => invoice[p] = "pending"
InvoicesInStep ==
  /\ hook.pc = "granting" => hook.event.of \notin grants
  /\ \A i \in Invoices :
       credits[i] = IF i \in grants \/ (hook.pc = "granting" /\ hook.event.of = i) THEN 1 ELSE 0
AllInStep == SubsInStep /\ PurchasesInStep /\ InvoicesInStep
InStep == Together => AllInStep

\* What the customer has paid becomes spendable, unless the process dies.
PurchaseSettles ==
  \A p \in Purchases :
    (Credit(p) \in emitted) ~> ((p \in grants /\ credits[p] >= 1) \/ "crash" \in suffered)
=============================================================================

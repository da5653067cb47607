------------------------- MODULE StripeBillingProofs -------------------------
(* Proofs about StripeBilling, for any payments, faults and bounds. *)
EXTENDS StripeBilling, TLAPS

\* What Activated and Updated make of a copy of the subscriptions is one.
LEMMA AppliedType ==
  ASSUME NEW subs \in [Subs -> SubStatus], NEW e \in Event, e.kind # "credit"
  PROVE  Applied(subs, e) \in [Subs -> SubStatus]
<1>1. CASE e.kind = "checkout"
  BY <1>1 DEF Applied, Activated, SubStatus, Event
<1>2. CASE e.kind = "invoice"
  BY <1>2, BillingAssumption DEF Applied, Updated, SubStatus, Event
<1>3. CASE e.kind = "subscription"
  BY <1>3 DEF Applied, Updated, SubStatus, Event
<1> QED BY <1>1, <1>2, <1>3 DEF Event

\* The kinds of event, and what each is about.
LEMMA EventKinds ==
  ASSUME NEW e \in Event
  PROVE  /\ e.kind \in {"credit", "checkout", "invoice", "subscription"}
         /\ e.kind = "credit" => e.of \in Purchases /\ e = Credit(e.of)
         /\ e.kind = "invoice" => e.of \in Invoices
  BY DEF Event, Credit

\* Events are told apart by their constructors.
LEMMA Constructors ==
  /\ \A p \in Purchases : Credit(p) \in Event /\ Credit(p).kind = "credit" /\ Credit(p).of = p
  /\ \A s \in Subs : Completed(s) \in Event /\ Completed(s).kind = "checkout"
  /\ \A i \in Invoices : InvoicePaid(i) \in Event /\ InvoicePaid(i).kind = "invoice"
                         /\ InvoicePaid(i).of = i
  /\ \A s \in Subs : \A st \in {"active", "past_due", "cancelled"} :
       Changed(s, st) \in Event /\ Changed(s, st).kind = "subscription"
  BY DEF Credit, Completed, InvoicePaid, Changed, Event

LEMMA TypeInit == Init => TypeOK
  BY BillingAssumption DEF Init, TypeOK, Grantable, PurchaseStatus, SubStatus

LEMMA TypeStep == TypeOK /\ [Next]_vars => TypeOK'
<1> SUFFICES ASSUME TypeOK, [Next]_vars PROVE TypeOK'
  OBVIOUS
<1> USE BillingAssumption DEF TypeOK, Fault, NoFault, PurchaseStatus, Grantable
<1>1. ASSUME NEW p \in Purchases, CheckoutInsert(p) \/ CheckoutStep(p) PROVE TypeOK'
  <2>1. CASE CheckoutInsert(p)
    BY <2>1 DEF CheckoutInsert, CheckoutGoes, SetRow, memory, stripe
  <2>2. CASE CheckoutList(p)
    BY <2>2 DEF CheckoutList, CheckoutGoes, SetInvoice, tables, stripe
  <2>3. CASE CheckoutCreate(p)
    BY <2>3 DEF CheckoutCreate, CheckoutGoes, tables, memory, stripe
  <2>4. CASE CheckoutShow(p)
    BY <2>4 DEF CheckoutShow, CheckoutGoes, SetInvoice, tables, stripe
  <2>5. CASE CheckoutBind(p)
    BY <2>5 DEF CheckoutBind, CheckoutGoes, SetRow, memory, stripe
  <2>6. CASE CheckoutRefuse(p)
    BY <2>6 DEF CheckoutRefuse, CheckoutGoes, SetRow, memory, stripe
  <2>7. CASE CheckoutClose(p)
    BY <2>7 DEF CheckoutClose, CheckoutGoes, SetInvoice, tables, stripe
  <2> QED BY <1>1, <2>1, <2>2, <2>3, <2>4, <2>5, <2>6, <2>7 DEF CheckoutStep
<1>2. ASSUME NEW p \in Purchases, Pay(p) PROVE TypeOK'
  BY <1>2, Constructors DEF Pay, Emit, tables, memory
<1>3. ASSUME NEW s \in Subs, CheckoutSubscription(s) \/ Subscribe(s) PROVE TypeOK'
  <2>1. CASE CheckoutSubscription(s)
    BY <2>1 DEF CheckoutSubscription, tables, memory
  <2>2. CASE Subscribe(s)
    BY <2>2, Constructors DEF Subscribe, Emit, tables, memory, SubStatus
  <2> QED BY <1>3, <2>1, <2>2
<1>4. ASSUME NEW s \in Subs, NEW st \in {"active", "past_due", "cancelled"}, Change(s, st)
      PROVE  TypeOK'
  BY <1>4, Constructors DEF Change, Emit, tables, memory, SubStatus
<1>5. ASSUME NEW i \in Invoices, PayInvoice(i) PROVE TypeOK'
  BY <1>5, Constructors DEF PayInvoice, Emit, tables, memory, SubStatus
<1>6. ASSUME NEW e \in Event, Deliver(e) PROVE TypeOK'
  BY <1>6 DEF Deliver, tables, memory, stripe
<1>7. CASE HookStep
  <2>1. CASE CreditCommit
    BY <2>1, EventKinds DEF CreditCommit, At, HookTo, Answer, DbFails, SetRow, memory, stripe
  <2>2. CASE CreditMemory
    BY <2>2, EventKinds DEF CreditMemory, At, HookTo, Answer, SetInvoice, tables, stripe
  <2>3. CASE SubCommit
    <3>1. hook.event \in Event /\ hook.event.kind # "credit"
      BY <2>3 DEF SubCommit, SubEvents, At
    <3>2. Applied(subRow, hook.event) \in [Subs -> SubStatus]
      BY <3>1, AppliedType
    <3> QED BY <2>3, <3>1, <3>2 DEF SubCommit, At, HookTo, Answer, DbFails, memory, stripe
  <2>4. CASE SubMemory
    <3>1. hook.event \in Event /\ hook.event.kind # "credit"
      BY <2>4 DEF SubMemory, SubEvents, At
    <3>2. Applied(subMem, hook.event) \in [Subs -> SubStatus]
      BY <3>1, AppliedType
    <3> QED BY <2>4, <3>1, <3>2 DEF SubMemory, At, HookTo, tables, stripe
  <2>5. CASE InvoiceCredit
    BY <2>5, EventKinds DEF InvoiceCredit, HookTo, tables, stripe
  <2>6. CASE InvoiceGrant
    BY <2>6, EventKinds DEF InvoiceGrant, HookTo, Answer, memory, stripe
  <2>7. CASE MarkEvent
    BY <2>7 DEF MarkEvent, Answer, DbFails, memory, stripe
  <2> QED BY <1>7, <2>1, <2>2, <2>3, <2>4, <2>5, <2>6, <2>7 DEF HookStep
<1>8. CASE Flush
  BY <1>8 DEF Flush, tables, memory, stripe
<1>9. CASE Crash
  BY <1>9 DEF Crash, Answer, tables, stripe
<1>10. CASE SubscribeFree
  BY <1>10 DEF SubscribeFree, SubStatus, tables, stripe
<1>11. CASE UNCHANGED vars
  BY <1>11 DEF vars
<1> QED BY <1>1, <1>2, <1>3, <1>4, <1>5, <1>6, <1>7, <1>8, <1>9, <1>10, <1>11 DEF Next

\* Every step keeps the tables, the lists in memory, the calls under way and Stripe's
\* side in their types, whatever fails; what is delivered or processed has happened.
THEOREM BillingTypeCorrect == Spec => []TypeOK
  BY TypeInit, TypeStep, PTL DEF Spec

\* A payment stays a payment: Stripe forgets no event.
LEMMA PaidGrows ==
  ASSUME emitted \subseteq emitted', NEW g, Paid(g)
  PROVE  Paid(g)'
  BY DEF Paid

LEMMA EmittedGrows == [Next]_vars => emitted \subseteq emitted'
  BY DEF Next, vars, CheckoutInsert, CheckoutStep, CheckoutList, CheckoutCreate, CheckoutShow,
         CheckoutBind, CheckoutRefuse, CheckoutClose, Pay, Emit, CheckoutSubscription, Subscribe,
         PayInvoice, Change, Deliver, HookStep, CreditCommit, CreditMemory, SubCommit, SubMemory,
         InvoiceCredit, InvoiceGrant, MarkEvent, Flush, Crash, SubscribeFree, stripe

LEMMA GrantingInit == Init => Granting
  BY BillingAssumption DEF Init, Granting, GrantsFollowPayments, CheckoutPlaces, HookPlaces,
                           SavedArePaid, At, Grantable

LEMMA GrantingStep == TypeOK /\ Granting /\ [Next]_vars => Granting'
<1> SUFFICES ASSUME TypeOK, Granting, [Next]_vars PROVE Granting'
  OBVIOUS
<1>e. emitted \subseteq emitted'
  BY EmittedGrows
<1>p. \A g \in Grantable : Paid(g) => Paid(g)'
  BY <1>e, PaidGrows
<1>1. ASSUME NEW p \in Purchases, CheckoutInsert(p) \/ CheckoutStep(p) PROVE Granting'
  <2> USE DEF TypeOK, Granting, GrantsFollowPayments, CheckoutPlaces, HookPlaces, SavedArePaid,
              CheckoutGoes, tables, memory, stripe, Paid, At
  <2>1. CASE CheckoutInsert(p)
    BY <2>1 DEF CheckoutInsert, SetRow
  <2>2. CASE CheckoutList(p) \/ CheckoutCreate(p) \/ CheckoutShow(p)
    BY <2>2 DEF CheckoutList, CheckoutCreate, CheckoutShow
  <2>3. CASE CheckoutBind(p)
    BY <2>3 DEF CheckoutBind, SetRow
  <2>4. CASE CheckoutRefuse(p)
    BY <2>4 DEF CheckoutRefuse, SetRow
  <2>5. CASE CheckoutClose(p)
    BY <2>5 DEF CheckoutClose
  <2> QED BY <1>1, <2>1, <2>2, <2>3, <2>4, <2>5 DEF CheckoutStep
<1>2. ASSUME NEW e \in Event, Emit(e), e.kind = "credit" => row[e.of] = "pending"
      PROVE  Granting'
  <2>1. GrantsFollowPayments'
    BY <1>2, <1>p DEF Emit, Granting, GrantsFollowPayments, tables, memory
  <2>2. CheckoutPlaces'
    BY <1>2, Constructors DEF Emit, Granting, CheckoutPlaces, tables
  <2>3. HookPlaces' /\ SavedArePaid'
    BY <1>2, <1>p DEF Emit, Granting, HookPlaces, SavedArePaid, At, tables
  <2> QED BY <2>1, <2>2, <2>3 DEF Granting
<1>3. ASSUME NEW p \in Purchases, Pay(p) PROVE Granting'
  BY <1>3, <1>2, Constructors DEF Pay
<1>4. ASSUME NEW s \in Subs, CheckoutSubscription(s) PROVE Granting'
  BY <1>4 DEF CheckoutSubscription, Granting, GrantsFollowPayments, CheckoutPlaces, HookPlaces,
              SavedArePaid, tables, memory, Paid, At
<1>5. ASSUME NEW s \in Subs, Subscribe(s) PROVE Granting'
  BY <1>5, <1>2, Constructors DEF Subscribe
<1>6. ASSUME NEW s \in Subs, NEW st \in {"active", "past_due", "cancelled"}, Change(s, st)
      PROVE  Granting'
  BY <1>6, <1>2, Constructors DEF Change
<1>7. ASSUME NEW i \in Invoices, PayInvoice(i) PROVE Granting'
  BY <1>7, <1>2, Constructors DEF PayInvoice
<1>8. ASSUME NEW e \in Event, Deliver(e) PROVE Granting'
  BY <1>8 DEF Deliver, Granting, GrantsFollowPayments, CheckoutPlaces, HookPlaces, SavedArePaid,
              tables, memory, stripe, Paid, At, TypeOK
<1>9. CASE HookStep
  <2> USE DEF TypeOK, Granting, GrantsFollowPayments, CheckoutPlaces, HookPlaces, SavedArePaid,
              tables, memory, stripe, Paid, At, Grantable
  <2>1. CASE CreditCommit
    BY <2>1, EventKinds DEF CreditCommit, HookTo, Answer, DbFails, SetRow
  <2>2. CASE CreditMemory
    BY <2>2, EventKinds DEF CreditMemory, HookTo, Answer
  <2>3. CASE SubCommit
    BY <2>3 DEF SubCommit, SubEvents, HookTo, Answer, DbFails
  <2>4. CASE SubMemory
    BY <2>4 DEF SubMemory, SubEvents, HookTo
  <2>5. CASE InvoiceCredit
    BY <2>5, EventKinds DEF InvoiceCredit, HookTo
  <2>6. CASE InvoiceGrant
    BY <2>6, EventKinds, BillingAssumption DEF InvoiceGrant, HookTo, Answer
  <2>7. CASE MarkEvent
    BY <2>7, Constructors DEF MarkEvent, Answer, DbFails
  <2> QED BY <1>9, <2>1, <2>2, <2>3, <2>4, <2>5, <2>6, <2>7 DEF HookStep
<1>10. CASE Flush
  BY <1>10 DEF Flush, Granting, GrantsFollowPayments, CheckoutPlaces, HookPlaces, SavedArePaid,
               tables, memory, stripe, Paid, At, TypeOK
<1>11. CASE Crash
  BY <1>11 DEF Crash, Answer, Granting, GrantsFollowPayments, CheckoutPlaces, HookPlaces,
               SavedArePaid, tables, stripe, Paid, At, TypeOK
<1>12. CASE SubscribeFree \/ UNCHANGED vars
  BY <1>12 DEF SubscribeFree, vars, Granting, GrantsFollowPayments, CheckoutPlaces, HookPlaces,
               SavedArePaid, Paid, At, tables, stripe
<1> QED BY <1>1, <1>3, <1>4, <1>5, <1>6, <1>7, <1>8, <1>9, <1>10, <1>11, <1>12 DEF Next

\* Calls under way, rows, grants and payments fit together in every reachable state.
THEOREM GrantingCorrect == Spec => []Granting
  BY TypeInit, TypeStep, GrantingInit, GrantingStep, PTL DEF Spec

\* Nothing is granted or spendable that was not paid at Stripe, and an acknowledged
\* purchase has its grant, under any faults, duplicates and crashes.
THEOREM PaymentsAreGranted == Spec => []GrantsFollowPayments
<1>1. Granting => GrantsFollowPayments
  BY DEF Granting
<1> QED BY <1>1, GrantingCorrect, PTL

\* A checkout call, however late it goes on, never takes back the paid status that a
\* webhook has written: while it is under way its row has no session to pay.
THEOREM PaidStaysPaid == Spec => PaidIsFinal
<1>1. TypeOK /\ Granting /\ [Next]_vars
        => [\A p \in Purchases : row[p] = "paid" => row'[p] = "paid"]_row
  <2> SUFFICES ASSUME TypeOK, Granting, [Next]_vars, NEW q \in Purchases, row[q] = "paid",
                      row' # row
               PROVE  row'[q] = "paid"
    OBVIOUS
  <2>1. ASSUME NEW p \in Purchases, CheckoutInsert(p) \/ CheckoutStep(p) PROVE row'[q] = "paid"
    BY <2>1 DEF TypeOK, Granting, CheckoutPlaces, CheckoutStep, CheckoutInsert, CheckoutList,
                CheckoutCreate, CheckoutShow, CheckoutBind, CheckoutRefuse, CheckoutClose,
                CheckoutGoes, SetRow, tables
  <2>2. CASE CreditCommit
    BY <2>2 DEF CreditCommit, SetRow, TypeOK
  <2>3. ASSUME NEW p \in Purchases, Pay(p) PROVE row'[q] = "paid"
    BY <2>3 DEF Pay, Emit, tables
  <2>4. ASSUME NEW s \in Subs, CheckoutSubscription(s) \/ Subscribe(s) PROVE row'[q] = "paid"
    BY <2>4 DEF CheckoutSubscription, Subscribe, Emit, tables
  <2>5. ASSUME NEW s \in Subs, NEW st \in {"active", "past_due", "cancelled"}, Change(s, st)
        PROVE  row'[q] = "paid"
    BY <2>5 DEF Change, Emit, tables
  <2>6. ASSUME NEW i \in Invoices, PayInvoice(i) PROVE row'[q] = "paid"
    BY <2>6 DEF PayInvoice, Emit, tables
  <2>7. ASSUME NEW e \in Event, Deliver(e) PROVE row'[q] = "paid"
    BY <2>7 DEF Deliver, tables
  <2>8. CASE CreditMemory \/ SubCommit \/ SubMemory \/ InvoiceCredit \/ InvoiceGrant \/ MarkEvent
    BY <2>8 DEF CreditMemory, SubCommit, SubMemory, InvoiceCredit, InvoiceGrant, MarkEvent, tables
  <2>9. CASE Flush \/ Crash \/ SubscribeFree \/ UNCHANGED vars
    BY <2>9 DEF Flush, Crash, SubscribeFree, vars, tables
  <2> QED BY <2>1, <2>2, <2>3, <2>4, <2>5, <2>6, <2>7, <2>8, <2>9 DEF Next, HookStep
<1> QED BY <1>1, BillingTypeCorrect, GrantingCorrect, PTL DEF Spec, PaidIsFinal

-----------------------------------------------------------------------------
(* The abstract specification of a payment.                                *)

LEMMA CreditedInit == Init => InvoiceIsCredited
  BY DEF Init, InvoiceIsCredited

LEMMA CreditedStep == TypeOK /\ InvoiceIsCredited /\ [Next]_vars => InvoiceIsCredited'
<1> SUFFICES ASSUME TypeOK, InvoiceIsCredited, [Next]_vars PROVE InvoiceIsCredited'
  OBVIOUS
<1> USE DEF InvoiceIsCredited, memory
<1>1. ASSUME NEW p \in Purchases, CheckoutInsert(p) \/ CheckoutStep(p) PROVE InvoiceIsCredited'
  BY <1>1 DEF CheckoutStep, CheckoutInsert, CheckoutList, CheckoutCreate, CheckoutShow, CheckoutBind,
              CheckoutRefuse, CheckoutClose
<1>2. ASSUME NEW e \in Event, Emit(e) PROVE InvoiceIsCredited'
  BY <1>2 DEF Emit
<1>3. ASSUME NEW s \in Subs, CheckoutSubscription(s) PROVE InvoiceIsCredited'
  BY <1>3 DEF CheckoutSubscription
<1>4. ASSUME NEW e \in Event, Deliver(e) PROVE InvoiceIsCredited'
  BY <1>4 DEF Deliver
<1>5. CASE CreditCommit \/ SubCommit
  BY <1>5 DEF CreditCommit, SubCommit, HookTo, Answer, DbFails, TypeOK
<1>6. CASE CreditMemory \/ SubMemory
  BY <1>6 DEF CreditMemory, SubMemory, HookTo, Answer, TypeOK
<1>7. CASE InvoiceCredit
  <2>1. hook.event.of \in Grantable /\ credits[hook.event.of] \in Nat
    BY <1>7, EventKinds, BillingAssumption DEF InvoiceCredit, TypeOK, Grantable
  <2> QED BY <1>7, <2>1 DEF InvoiceCredit, HookTo, TypeOK
<1>8. CASE InvoiceGrant \/ MarkEvent
  BY <1>8 DEF InvoiceGrant, MarkEvent, HookTo, Answer, DbFails, TypeOK
<1>9. CASE Flush \/ SubscribeFree \/ UNCHANGED vars
  BY <1>9 DEF Flush, SubscribeFree, vars
<1>10. CASE Crash
  BY <1>10 DEF Crash, Answer
<1> QED BY <1>1, <1>2, <1>3, <1>4, <1>5, <1>6, <1>7, <1>8, <1>9, <1>10, Constructors
        DEF Next, HookStep, Pay, Subscribe, PayInvoice, Change

\* The three sets of payments that the abstract specification speaks of, and its state.
PaidSet == {g \in Grantable : Paid(g)}
GrantedSet == {g \in grants : g \in Purchases => row[g] = "paid"}
SettledSet == {p \in Purchases : Credit(p) \in processed}
Promised == <<PaidSet, GrantedSet, SettledSet, credits, saved.credits>>

\* Rows and ledger rows agree, so the grants of the abstract specification are those of
\* the table.
LEMMA GrantedIs ==
  /\ TypeOK /\ Granting => GrantedSet = grants
  /\ TypeOK' /\ Granting' => GrantedSet' = grants'
  BY DEF TypeOK, Granting, GrantsFollowPayments, GrantedSet

\* Who touches neither events, grants nor the ledger changes nothing of it.
LEMMA Unpromised ==
  ASSUME TypeOK, Granting, TypeOK', Granting', UNCHANGED <<emitted, grants, processed, credits>>,
         saved'.credits = saved.credits
  PROVE  UNCHANGED Promised
<1>1. UNCHANGED GrantedSet
  BY GrantedIs
<1>2. UNCHANGED PaidSet
  BY DEF PaidSet, Paid
<1>3. UNCHANGED SettledSet
  BY DEF SettledSet
<1> QED BY <1>1, <1>2, <1>3 DEF Promised

\* What happens to one payment is a step of the abstract specification.
LEMMA PaymentMoves ==
  ASSUME NEW p \in Grantable, Entitled!Pay(p) \/ Entitled!Grant(p) \/ Entitled!Credit(p)
  PROVE  Entitled!Next
BY Zenon DEF Entitled!Next, Entitled!Payments, Grantable

\* What happens at Stripe pays for one thing or for none.
LEMMA EmitPays ==
  ASSUME TypeOK, Granting, TypeOK', Granting', NEW e \in Event, Emit(e)
  PROVE  Entitled!Next \/ UNCHANGED Promised
<1>1. UNCHANGED <<grants, processed, credits, saved>> /\ emitted' = emitted \cup {e}
  BY DEF Emit, tables, memory
<1>2. UNCHANGED <<GrantedSet, SettledSet>>
  BY <1>1, GrantedIs DEF SettledSet
<1>3. CASE e.kind \in {"credit", "invoice"}
  <2>1. e.of \in Grantable
    BY <1>3, EventKinds DEF Grantable
  <2>2. PaidSet' = PaidSet \cup {e.of}
    BY <1>1, <1>3, <2>1 DEF PaidSet, Paid, TypeOK
  <2>3. CASE e.of \in PaidSet
    BY <1>1, <1>2, <2>2, <2>3 DEF Promised
  <2>4. CASE e.of \notin PaidSet
    <3>1. Entitled!Pay(e.of)
      BY <1>1, <1>2, <2>2, <2>4 DEF Entitled!Pay, PaidSet, GrantedSet, SettledSet
    <3> QED BY <2>1, <3>1, PaymentMoves
  <2> QED BY <2>3, <2>4
<1>4. CASE e.kind \notin {"credit", "invoice"}
  <2>1. UNCHANGED PaidSet
    BY <1>1, <1>4 DEF PaidSet, Paid
  <2> QED BY <1>1, <1>2, <2>1 DEF Promised
<1> QED BY <1>3, <1>4

\* The webhook, step by step: grants, credits and acknowledgements of one payment.
LEMMA HookKeepsPromises ==
  ASSUME TypeOK, Granting, InvoiceIsCredited, TypeOK', Granting', HookStep
  PROVE  Entitled!Next \/ UNCHANGED Promised
<1> DEFINE Goal == Entitled!Next \/ UNCHANGED Promised
<1> PICK g : g = hook.event.of
  OBVIOUS
<1>e. hook.pc # "idle" => hook.event \in Event
  BY DEF TypeOK
<1>k. At("checked", {"credit"}) \/ At("committed", {"credit"}) =>
        g \in Purchases /\ g \in PaidSet /\ g \notin Invoices
  <2> SUFFICES ASSUME At("checked", {"credit"}) \/ At("committed", {"credit"})
               PROVE  g \in Purchases /\ g \in PaidSet /\ g \notin Invoices
    OBVIOUS
  <2>1. hook.event \in emitted /\ hook.event.kind = "credit"
    BY DEF At, TypeOK
  <2> QED BY <2>1, EventKinds, BillingAssumption DEF TypeOK, PaidSet, Paid, Grantable
<1>i. hook.pc \in {"credits", "granting"} => g \in Invoices /\ g \in PaidSet /\ g \notin Purchases
  <2> SUFFICES ASSUME hook.pc \in {"credits", "granting"}
               PROVE  g \in Invoices /\ g \in PaidSet /\ g \notin Purchases
    OBVIOUS
  <2>1. hook.event \in emitted /\ hook.event.kind = "invoice"
    BY DEF TypeOK
  <2> QED BY <2>1, EventKinds, BillingAssumption DEF TypeOK, PaidSet, Paid, Grantable
<1>g. GrantedSet = grants /\ GrantedSet' = grants'
  BY GrantedIs
<1>u. ASSUME UNCHANGED emitted PROVE UNCHANGED PaidSet
  BY <1>u DEF PaidSet, Paid
<1>1. CASE CreditCommit
  <2>1. UNCHANGED <<emitted, processed, credits, saved>>
    BY <1>1 DEF CreditCommit, memory, stripe
  <2>2. UNCHANGED <<PaidSet, SettledSet>>
    BY <2>1, <1>u DEF SettledSet
  <2>3. CASE UNCHANGED grants
    BY <2>1, <2>3, Unpromised
  <2>4. CASE grants' # grants
    <3>1. grants' = grants \cup {g} /\ g \in Purchases /\ g \in PaidSet /\ g \notin Invoices
      BY <1>1, <1>k, <2>4 DEF CreditCommit
    <3>2. g \in PaidSet \ GrantedSet /\ GrantedSet' = GrantedSet \cup {g}
      BY <3>1, <1>g, <2>4
    <3>3. Entitled!Grant(g)
      BY <3>1, <3>2, <2>1, <2>2 DEF Entitled!Grant, PaidSet, GrantedSet, SettledSet
    <3> QED BY <3>1, <3>3, PaymentMoves DEF Grantable
  <2> QED BY <2>3, <2>4
<1>2. CASE CreditMemory
  <2>1. UNCHANGED <<emitted, grants, processed, saved>>
    BY <1>2 DEF CreditMemory, tables, stripe
  <2>2. UNCHANGED <<PaidSet, GrantedSet, SettledSet>>
    BY <2>1, <1>u, <1>g DEF SettledSet
  <2>3. CASE UNCHANGED credits
    BY <2>1, <2>3, Unpromised
  <2>4. CASE credits' # credits
    <3>1. credits' = [credits EXCEPT ![g] = @ + 1] /\ At("committed", {"credit"})
      BY <1>2, <2>4 DEF CreditMemory
    <3>2. g \in Purchases /\ g \in PaidSet /\ g \in GrantedSet
      BY <3>1, <1>k, <1>g DEF Granting, HookPlaces
    <3>3. Entitled!Credit(g)
      BY <3>1, <3>2, <2>1, <2>2 DEF Entitled!Credit, PaidSet, GrantedSet, SettledSet
    <3> QED BY <3>2, <3>3, PaymentMoves DEF Grantable
  <2> QED BY <2>3, <2>4
<1>3. CASE SubCommit \/ SubMemory
  <2>1. UNCHANGED <<emitted, grants, processed, credits, saved>>
    BY <1>3 DEF SubCommit, SubMemory, tables, memory, stripe
  <2> QED BY <2>1, Unpromised
<1>4. CASE InvoiceCredit
  <2>1. UNCHANGED <<emitted, grants, processed, saved>>
    BY <1>4 DEF InvoiceCredit, tables, stripe
  <2>2. UNCHANGED <<PaidSet, GrantedSet, SettledSet>>
    BY <2>1, <1>u, <1>g DEF SettledSet
  <2>3. CASE UNCHANGED credits
    BY <2>1, <2>3, Unpromised
  <2>4. CASE credits' # credits
    <3>1. credits' = [credits EXCEPT ![g] = @ + 1] /\ g \notin GrantedSet /\ hook.pc = "credits"
      BY <1>4, <1>g, <2>4 DEF InvoiceCredit
    <3>2. g \in Invoices /\ g \in PaidSet /\ g \notin Purchases
      BY <3>1, <1>i
    <3>3. Entitled!Credit(g)
      BY <3>1, <3>2, <2>1, <2>2 DEF Entitled!Credit, PaidSet, GrantedSet, SettledSet
    <3> QED BY <3>2, <3>3, PaymentMoves DEF Grantable
  <2> QED BY <2>3, <2>4
<1>5. CASE InvoiceGrant
  <2>1. UNCHANGED <<emitted, processed, credits, saved>>
    BY <1>5 DEF InvoiceGrant, memory, stripe
  <2>2. UNCHANGED <<PaidSet, SettledSet>>
    BY <2>1, <1>u DEF SettledSet
  <2>3. CASE UNCHANGED grants
    BY <2>1, <2>3, Unpromised
  <2>4. CASE grants' # grants
    <3>1. /\ grants' = grants \cup {g} /\ g \in Invoices /\ g \in PaidSet
          /\ credits[g] > 0 /\ g \notin GrantedSet
      BY <1>5, <1>i, <1>g, <2>4 DEF InvoiceGrant, InvoiceIsCredited
    <3>2. g \in PaidSet \ GrantedSet /\ GrantedSet' = GrantedSet \cup {g}
      BY <3>1, <1>g, <2>4
    <3>3. Entitled!Grant(g)
      BY <3>1, <3>2, <2>1, <2>2 DEF Entitled!Grant, PaidSet, GrantedSet, SettledSet
    <3> QED BY <3>1, <3>3, PaymentMoves DEF Grantable
  <2> QED BY <2>3, <2>4
<1>6. CASE MarkEvent
  <2>1. UNCHANGED <<emitted, grants, credits, saved>>
    BY <1>6 DEF MarkEvent, memory, stripe
  <2>2. UNCHANGED <<PaidSet, GrantedSet>>
    BY <2>1, <1>u, <1>g
  <2>3. CASE UNCHANGED SettledSet
    BY <2>1, <2>2, <2>3 DEF Promised
  <2>4. CASE SettledSet' # SettledSet
    <3>1. processed' = processed \cup {hook.event} /\ hook.pc = "marking"
      BY <1>6, <2>4 DEF MarkEvent, SettledSet
    <3>2. PICK p \in Purchases : hook.event = Credit(p) /\ p \notin SettledSet
      BY <3>1, <2>4 DEF SettledSet
    <3>3. SettledSet' = SettledSet \cup {p}
      BY <3>1, <3>2, Constructors DEF SettledSet
    <3>4. p \in GrantedSet
      BY <3>1, <3>2, <1>g, Constructors DEF Granting, HookPlaces, At
    <3>5. Entitled!Settle(p)
      BY <3>2, <3>3, <3>4, <2>1, <2>2 DEF Entitled!Settle, PaidSet, GrantedSet, SettledSet
    <3> QED BY <3>5 DEF Entitled!Next
  <2> QED BY <2>3, <2>4
<1> QED BY <1>1, <1>2, <1>3, <1>4, <1>5, <1>6 DEF HookStep

\* Checkout, Stripe, the webhook, snapshots, restarts and the free plan together implement
\* what billing promises about a payment, under every fault.
THEOREM EntitlementsImplemented == Spec => ImplementsEntitlements
<1>1. Init => Entitled!Init
  BY DEF Init, Entitled!Init, Entitled!Payments, Grantable, Paid
<1>2. TypeOK /\ Granting /\ InvoiceIsCredited /\ TypeOK' /\ Granting' /\ [Next]_vars
        => [Entitled!Next]_Promised
  <2> SUFFICES ASSUME TypeOK, Granting, InvoiceIsCredited, TypeOK', Granting', [Next]_vars
               PROVE  Entitled!Next \/ UNCHANGED Promised
    OBVIOUS
  <2> DEFINE Goal == Entitled!Next \/ UNCHANGED Promised
  <2>1. ASSUME NEW p \in Purchases, CheckoutInsert(p) \/ CheckoutStep(p) PROVE Goal
    <3>1. UNCHANGED <<emitted, grants, processed, credits, saved>>
      BY <2>1 DEF CheckoutStep, CheckoutInsert, CheckoutList, CheckoutCreate, CheckoutShow,
                  CheckoutBind, CheckoutRefuse, CheckoutClose, tables, memory, stripe
    <3> QED BY <3>1, Unpromised
  <2>2. ASSUME NEW s \in Subs, CheckoutSubscription(s) PROVE Goal
    BY <2>2, Unpromised DEF CheckoutSubscription, tables, memory
  <2>3. ASSUME NEW e \in Event, Emit(e) PROVE Goal
    BY <2>3, EmitPays
  <2>4. ASSUME NEW e \in Event, Deliver(e) PROVE Goal
    BY <2>4, Unpromised DEF Deliver, tables, memory, stripe
  <2>5. CASE HookStep
    BY <2>5, HookKeepsPromises
  <2>6. CASE Flush
    <3>1. UNCHANGED <<emitted, grants, processed, credits>>
      BY <2>6 DEF Flush, tables, memory, stripe
    <3>2. saved'.credits \in {saved.credits, credits}
      BY <2>6 DEF Flush, TypeOK
    <3>3. CASE saved'.credits = saved.credits
      BY <3>1, <3>3, Unpromised
    <3>4. CASE saved'.credits = credits
      <4>1. UNCHANGED <<PaidSet, GrantedSet, SettledSet>>
        BY <3>1, GrantedIs DEF PaidSet, Paid, SettledSet
      <4>2. Entitled!Save
        BY <3>1, <3>4, <4>1 DEF Entitled!Save, PaidSet, GrantedSet, SettledSet
      <4> QED BY <4>2 DEF Entitled!Next
    <3> QED BY <3>2, <3>3, <3>4
  <2>7. CASE Crash
    <3>1. UNCHANGED <<emitted, grants, processed, saved>> /\ credits' = saved.credits
      BY <2>7 DEF Crash, tables, stripe
    <3>2. UNCHANGED <<PaidSet, GrantedSet, SettledSet>>
      BY <3>1, GrantedIs DEF PaidSet, Paid, SettledSet
    <3>3. Entitled!Restart
      BY <3>1, <3>2 DEF Entitled!Restart, PaidSet, GrantedSet, SettledSet
    <3> QED BY <3>3 DEF Entitled!Next
  <2>8. CASE SubscribeFree \/ UNCHANGED vars
    BY <2>8, Unpromised DEF SubscribeFree, vars, tables, stripe
  <2> QED BY <2>1, <2>2, <2>3, <2>4, <2>5, <2>6, <2>7, <2>8, Constructors
          DEF Next, Pay, Subscribe, PayInvoice, Change
<1> QED BY <1>1, <1>2, CreditedInit, CreditedStep, BillingTypeCorrect, GrantingCorrect, PTL
        DEF Spec, ImplementsEntitlements, Entitled!Spec, Entitled!vars, Promised, PaidSet,
            GrantedSet, SettledSet

-----------------------------------------------------------------------------
\* What the promise is worth: what can be spent, now or after a restart, was paid, and of a
\* purchase granted; what is granted was paid, and what is acknowledged granted.
OnlyEntitled ==
  /\ GrantedSet \subseteq PaidSet /\ SettledSet \subseteq GrantedSet
  /\ \A g \in Grantable : credits[g] > 0 \/ saved.credits[g] > 0 =>
       g \in PaidSet /\ (g \in Purchases => g \in GrantedSet)

\* Nothing granted, paid or acknowledged is ever taken back.
GrantsStand ==
  PaidSet \subseteq PaidSet' /\ GrantedSet \subseteq GrantedSet' /\ SettledSet \subseteq SettledSet'

Entitling ==
  /\ credits \in [Grantable -> Nat] /\ saved.credits \in [Grantable -> Nat]
  /\ OnlyEntitled

\* More may be paid, granted and acknowledged.
LEMMA EntitledMore ==
  ASSUME Entitling, UNCHANGED <<credits, saved.credits>>, GrantsStand,
         GrantedSet' \subseteq PaidSet', SettledSet' \subseteq GrantedSet'
  PROVE  Entitling'
BY DEF Entitling, OnlyEntitled, GrantsStand

\* Every step of the promise keeps what it is worth.
LEMMA EntitledStep == Entitling /\ [Entitled!Next]_Promised => Entitling' /\ [GrantsStand]_Promised
<1> SUFFICES ASSUME Entitling, Entitled!Next PROVE Entitling' /\ GrantsStand
  <2>1. UNCHANGED Promised => (Entitling => Entitling')
    BY DEF Promised, Entitling, OnlyEntitled
  <2> QED
    BY <2>1
<1>1. ASSUME NEW g \in Entitled!Payments, Entitled!Pay(g) PROVE Entitling' /\ GrantsStand
  <2>1. PaidSet' = PaidSet \cup {g} /\ UNCHANGED <<GrantedSet, SettledSet, credits, saved.credits>>
    BY <1>1 DEF Entitled!Pay, PaidSet, GrantedSet, SettledSet
  <2> QED
    BY <2>1, EntitledMore DEF GrantsStand, Entitling, OnlyEntitled
<1>2. ASSUME NEW g \in Entitled!Payments, Entitled!Grant(g) PROVE Entitling' /\ GrantsStand
  <2>1. /\ g \in PaidSet /\ GrantedSet' = GrantedSet \cup {g}
        /\ UNCHANGED <<PaidSet, SettledSet, credits, saved.credits>>
    BY <1>2 DEF Entitled!Grant, PaidSet, GrantedSet, SettledSet
  <2> QED
    BY <2>1, EntitledMore DEF GrantsStand, Entitling, OnlyEntitled
<1>3. ASSUME NEW p \in Purchases, Entitled!Settle(p) PROVE Entitling' /\ GrantsStand
  <2>1. /\ p \in GrantedSet /\ SettledSet' = SettledSet \cup {p}
        /\ UNCHANGED <<PaidSet, GrantedSet, credits, saved.credits>>
    BY <1>3 DEF Entitled!Settle, PaidSet, GrantedSet, SettledSet
  <2> QED
    BY <2>1, EntitledMore DEF GrantsStand, Entitling, OnlyEntitled
<1>4. ASSUME NEW g \in Entitled!Payments, Entitled!Credit(g) PROVE Entitling' /\ GrantsStand
  <2>1. /\ g \in PaidSet /\ (g \in Purchases <=> g \in GrantedSet)
        /\ credits' = [credits EXCEPT ![g] = @ + 1]
        /\ UNCHANGED <<PaidSet, GrantedSet, SettledSet, saved.credits>>
    BY <1>4 DEF Entitled!Credit, PaidSet, GrantedSet, SettledSet
  <2>2. credits' \in [Grantable -> Nat]
    BY <2>1 DEF Entitling, Entitled!Payments, Grantable
  <2>3. \A f \in Grantable : f # g => credits'[f] = credits[f]
    BY <2>1 DEF Entitling
  <2> QED
    BY <2>1, <2>2, <2>3 DEF GrantsStand, Entitling, OnlyEntitled
<1>5. ASSUME Entitled!Save \/ Entitled!Restart PROVE Entitling' /\ GrantsStand
  <2>1. /\ UNCHANGED <<PaidSet, GrantedSet, SettledSet>>
        /\ credits' \in {credits, saved.credits} /\ saved'.credits \in {credits, saved.credits}
    BY <1>5 DEF Entitled!Save, Entitled!Restart, PaidSet, GrantedSet, SettledSet
  <2> QED
    BY <2>1 DEF GrantsStand, Entitling, OnlyEntitled
<1> QED
  BY <1>1, <1>2, <1>3, <1>4, <1>5 DEF Entitled!Next

\* Whatever implements Entitlements lets nothing be spent that was not paid, acknowledges no
\* purchase without its grant, and takes back nothing it gave.
THEOREM EntitlementsSuffice ==
  ImplementsEntitlements => []OnlyEntitled /\ [][GrantsStand]_Promised
<1>1. Entitled!Init => Entitling
  BY DEF Entitled!Init, Entitled!Payments, Grantable, Entitling, OnlyEntitled, PaidSet, GrantedSet,
         SettledSet
<1>2. Entitling => OnlyEntitled
  BY DEF Entitling
<1> QED
  BY <1>1, <1>2, EntitledStep, PTL
     DEF ImplementsEntitlements, Entitled!Spec, Entitled!vars, Promised, PaidSet, GrantedSet,
         SettledSet

-----------------------------------------------------------------------------
\* The ledger of credits is what a snapshot promises: payments only add entries to it, and a
\* restart brings back what was saved last.
LedgerEntries(ledger) == UNION {{g} \X (1 .. ledger[g]) : g \in Grantable}
LedgerNow == LedgerEntries(credits)
LedgerKept == LedgerEntries(saved.credits)
CreditLedger == INSTANCE Snapshotting WITH current <- LedgerNow, kept <- LedgerKept

LEMMA LedgerEntriesGrow ==
  ASSUME NEW a \in [Grantable -> Nat], NEW b \in [Grantable -> Nat],
         \A g \in Grantable : a[g] <= b[g]
  PROVE  LedgerEntries(a) \subseteq LedgerEntries(b)
<1>1. ASSUME NEW g \in Grantable PROVE 1 .. a[g] \subseteq 1 .. b[g]
  OBVIOUS
<1> QED
  BY <1>1 DEF LedgerEntries

\* What the steps of the promise do to the ledger and what was saved of it.
LEMMA LedgerMoves ==
  ASSUME Entitling, [Entitled!Next]_Promised
  PROVE  \/ UNCHANGED <<credits, saved.credits>>
         \/ \E g \in Grantable : credits' = [credits EXCEPT ![g] = @ + 1] /\ saved'.credits = saved.credits
         \/ saved'.credits = credits /\ credits' = credits
         \/ credits' = saved.credits /\ saved'.credits = saved.credits
<1>1. ASSUME NEW g \in Entitled!Payments, Entitled!Credit(g)
      PROVE  \E f \in Grantable : credits' = [credits EXCEPT ![f] = @ + 1] /\ saved'.credits = saved.credits
  BY <1>1 DEF Entitled!Credit, Entitled!Payments, Grantable
<1>2. ASSUME NEW g \in Entitled!Payments, Entitled!Pay(g) \/ Entitled!Grant(g)
      PROVE  UNCHANGED <<credits, saved.credits>>
  BY <1>2 DEF Entitled!Pay, Entitled!Grant
<1>3. ASSUME NEW p \in Purchases, Entitled!Settle(p) PROVE UNCHANGED <<credits, saved.credits>>
  BY <1>3 DEF Entitled!Settle
<1>4. CASE UNCHANGED Promised
  BY <1>4 DEF Promised
<1> QED
  BY <1>1, <1>2, <1>3, <1>4 DEF Entitled!Next, Entitled!Save, Entitled!Restart

\* Billing keeps its credits as a snapshot promises, under every fault.
THEOREM CreditsAreSnapshot == Spec => CreditLedger!Spec
<1> DEFINE Inv == Entitling /\ \A g \in Grantable : saved.credits[g] <= credits[g]
<1>1. Entitled!Init => Inv /\ CreditLedger!Init
  BY DEF Entitled!Init, Entitled!Payments, Grantable, Entitling, OnlyEntitled, PaidSet, GrantedSet,
         SettledSet, CreditLedger!Init, LedgerNow, LedgerKept, LedgerEntries
<1>2. Inv /\ [Entitled!Next]_Promised => Inv' /\ [CreditLedger!Next]_(CreditLedger!vars)
  <2> SUFFICES ASSUME Inv, [Entitled!Next]_Promised
               PROVE  Inv' /\ [CreditLedger!Next]_(CreditLedger!vars)
    OBVIOUS
  <2>1. /\ credits \in [Grantable -> Nat] /\ saved.credits \in [Grantable -> Nat]
        /\ credits' \in [Grantable -> Nat] /\ saved'.credits \in [Grantable -> Nat] /\ Entitling'
    BY EntitledStep DEF Entitling
  <2>2. CASE UNCHANGED <<credits, saved.credits>>
    BY <2>1, <2>2 DEF CreditLedger!vars, LedgerNow, LedgerKept
  <2>3. ASSUME NEW g \in Grantable, credits' = [credits EXCEPT ![g] = @ + 1],
               saved'.credits = saved.credits
        PROVE  Inv' /\ CreditLedger!Next
    <3>1. \A f \in Grantable : credits[f] <= credits'[f] /\ saved'.credits[f] <= credits'[f]
      BY <2>1, <2>3
    <3>2. LedgerEntries(credits) \subseteq LedgerEntries(credits')
      BY <2>1, <3>1, LedgerEntriesGrow
    <3>3. CreditLedger!Change
      BY <2>3, <3>2 DEF CreditLedger!Change, LedgerNow, LedgerKept
    <3> QED
      BY <2>1, <3>1, <3>3 DEF CreditLedger!Next
  <2>4. CASE saved'.credits = credits /\ credits' = credits
    <3>1. LedgerEntries(saved.credits) \subseteq LedgerEntries(credits)
      BY <2>1, LedgerEntriesGrow
    <3>2. CreditLedger!Save
      BY <2>4, <3>1 DEF CreditLedger!Save, LedgerNow, LedgerKept
    <3>3. \A f \in Grantable : saved'.credits[f] <= credits'[f]
      BY <2>1, <2>4
    <3> QED
      BY <2>1, <3>2, <3>3 DEF CreditLedger!Next
  <2>5. CASE credits' = saved.credits /\ saved'.credits = saved.credits
    <3>1. CreditLedger!Restart
      BY <2>5 DEF CreditLedger!Restart, LedgerNow, LedgerKept
    <3>2. \A f \in Grantable : saved'.credits[f] <= credits'[f]
      BY <2>1, <2>5
    <3> QED
      BY <2>1, <3>1, <3>2 DEF CreditLedger!Next
  <2> QED
    BY <2>2, <2>3, <2>4, <2>5, LedgerMoves
<1> QED
  BY <1>1, <1>2, EntitlementsImplemented, PTL
     DEF ImplementsEntitlements, Entitled!Spec, Entitled!vars, Promised, PaidSet, GrantedSet,
         SettledSet, CreditLedger!Spec

-----------------------------------------------------------------------------
\* Faults are never unsuffered.
LEMMA SufferedGrows == [Next]_vars => suffered \subseteq suffered'
BY DEF Next, vars, CheckoutInsert, CheckoutStep, CheckoutList, CheckoutCreate, CheckoutShow,
       CheckoutBind, CheckoutRefuse, CheckoutClose, Pay, Emit, CheckoutSubscription, Subscribe,
       PayInvoice, Change, Deliver, HookStep, CreditCommit, CreditMemory, SubCommit, SubMemory,
       InvoiceCredit, InvoiceGrant, MarkEvent, DbFails, Flush, Crash, SubscribeFree, Fault, NoFault

\* A step that leaves memory and tables together is neither a crash nor a failed grant.
LEMMA NoSeparation == Together' => ~Fault("crash") /\ ~Fault("grant")
  BY DEF Together, Fault

\* An event leaves two copies of the subscriptions matching, if it finds them so.
LEMMA AppliedMatches ==
  ASSUME NEW inTable \in [Subs -> SubStatus], NEW inMemory \in [Subs -> SubStatus],
         NEW e \in Event, e.kind # "credit",
         \A s \in Subs : Matches(inTable[s], inMemory[s])
  PROVE  \A s \in Subs : Matches(Applied(inTable, e)[s], Applied(inMemory, e)[s])
<1> USE DEF Matches, SubStatus
<1>1. CASE e.kind = "checkout"
  BY <1>1 DEF Applied, Activated, Event
<1>2. CASE e.kind = "invoice"
  BY <1>2, BillingAssumption DEF Applied, Updated, Event
<1>3. CASE e.kind = "subscription"
  BY <1>3 DEF Applied, Updated, Event
<1> QED BY <1>1, <1>2, <1>3 DEF Event

\* The free plan changes, of what an event leaves in memory, only active subscriptions or
\* ones it superseded, into cancelled ones.
LEMMA FreeApplied ==
  ASSUME NEW before \in [Subs -> SubStatus], NEW after \in [Subs -> SubStatus],
         after = [s \in Subs |-> IF before[s] = "active" THEN "cancelled" ELSE before[s]],
         NEW e \in Event, e.kind # "credit", NEW s \in Subs
  PROVE  \/ Applied(after, e)[s] = Applied(before, e)[s]
         \/ /\ Applied(after, e)[s] = "cancelled"
            /\ Applied(before, e)[s] \in {"active", "superseded"}
<1> USE DEF SubStatus
<1>1. CASE e.kind = "checkout"
  BY <1>1 DEF Applied, Activated, Event
<1>2. CASE e.kind = "invoice"
  BY <1>2, BillingAssumption DEF Applied, Updated, Event
<1>3. CASE e.kind = "subscription"
  BY <1>3 DEF Applied, Updated, Event
<1> QED BY <1>1, <1>2, <1>3 DEF Event

\* The free plan cancels active subscriptions in memory; what matches goes on matching.
LEMMA FreeInStep == TypeOK /\ SubsInStep /\ SubscribeFree => SubsInStep'
<1> SUFFICES ASSUME TypeOK, SubsInStep, SubscribeFree, NEW s \in Subs
             PROVE  /\ At("committed", SubEvents)
                         => Matches(subRow[s], Applied(subMem, hook.event)[s])'
                    /\ ~At("committed", SubEvents) => Matches(subRow[s], subMem[s])'
  BY DEF SubsInStep, SubscribeFree, At
<1>1. /\ UNCHANGED <<subRow, hook>> /\ "free" \in suffered'
      /\ subMem' = [x \in Subs |-> IF subMem[x] = "active" THEN "cancelled" ELSE subMem[x]]
      /\ suffered \subseteq suffered'
  BY DEF SubscribeFree, Fault, tables
<1>2. subMem \in [Subs -> SubStatus] /\ subMem' \in [Subs -> SubStatus]
  BY <1>1 DEF TypeOK, SubStatus
<1>3. CASE At("committed", SubEvents)
  <2>1. hook.event \in Event /\ hook.event.kind # "credit"
    BY <1>3 DEF At, SubEvents, TypeOK
  <2>2. Matches(subRow[s], Applied(subMem, hook.event)[s])
    BY <1>3 DEF SubsInStep
  <2> QED BY <1>1, <1>2, <1>3, <2>1, <2>2, FreeApplied DEF Matches, At
<1>4. CASE ~At("committed", SubEvents)
  <2>1. Matches(subRow[s], subMem[s])
    BY <1>4 DEF SubsInStep
  <2> QED BY <1>1, <1>4, <2>1 DEF Matches, At
<1> QED BY <1>3, <1>4

LEMMA InStepInit == Init => InStep
  BY BillingAssumption DEF Init, InStep, AllInStep, SubsInStep, PurchasesInStep, InvoicesInStep,
                           Matches, At, Grantable

LEMMA InStepStep == TypeOK /\ Granting /\ InStep /\ [Next]_vars => InStep'
<1> SUFFICES ASSUME TypeOK, Granting, AllInStep, [Next]_vars, Together' PROVE AllInStep'
  BY SufferedGrows DEF InStep, Together
<1>s. suffered \subseteq suffered'
  BY SufferedGrows
<1>1. ASSUME NEW p \in Purchases, CheckoutInsert(p) \/ CheckoutStep(p) PROVE AllInStep'
  <2> USE <1>s DEF TypeOK, AllInStep, Matches, SubsInStep, PurchasesInStep, InvoicesInStep, Granting,
              CheckoutPlaces, CheckoutGoes, SetRow, SetInvoice, tables, memory, stripe, At
  <2>1. CASE CheckoutInsert(p)
    BY <2>1 DEF CheckoutInsert
  <2>2. CASE CheckoutList(p)
    BY <2>2 DEF CheckoutList
  <2>3. CASE CheckoutCreate(p)
    BY <2>3 DEF CheckoutCreate
  <2>4. CASE CheckoutShow(p)
    BY <2>4 DEF CheckoutShow
  <2>5. CASE CheckoutBind(p)
    BY <2>5 DEF CheckoutBind
  <2>6. CASE CheckoutRefuse(p)
    BY <2>6 DEF CheckoutRefuse
  <2>7. CASE CheckoutClose(p)
    BY <2>7 DEF CheckoutClose
  <2> QED BY <1>1, <2>1, <2>2, <2>3, <2>4, <2>5, <2>6, <2>7 DEF CheckoutStep
<1>2. ASSUME UNCHANGED <<row, subRow, grants, memory, checkout, hook>> PROVE AllInStep'
  BY <1>2, <1>s DEF AllInStep, Matches, SubsInStep, PurchasesInStep, InvoicesInStep, memory, At
<1>3. ASSUME NEW e \in Event, Deliver(e) PROVE AllInStep'
  BY <1>3, <1>s DEF Deliver, AllInStep, Matches, SubsInStep, PurchasesInStep, InvoicesInStep, tables,
                    memory, stripe, At, SubEvents
<1>4. CASE HookStep
  <2> USE <1>s DEF TypeOK, AllInStep, Matches, tables, memory, stripe, At, SubEvents
  <2>1. CASE CreditCommit
    BY <2>1, EventKinds, BillingAssumption
       DEF CreditCommit, HookTo, Answer, DbFails, SetRow, SubsInStep, PurchasesInStep, InvoicesInStep
  <2>2. CASE CreditMemory
    <3> DEFINE q == hook.event.of
    <3>1. /\ hook.pc = "committed" /\ hook.event.kind = "credit" /\ hook.event \in Event
          /\ hook' \in {[hook EXCEPT !.pc = "marking"], [pc |-> "idle", event |-> None]}
          /\ UNCHANGED <<row, subRow, grants, subMem, checkout>>
      BY <2>2, BillingAssumption DEF CreditMemory, HookTo, Answer
    <3>2. q \in Purchases /\ q \notin Invoices
      BY <3>1, EventKinds, BillingAssumption
    <3>3. row[q] = "paid" /\ invoice[q] \in {"pending", "paid"}
      BY <3>1, <3>2 DEF Granting, HookPlaces, GrantsFollowPayments, PurchasesInStep
    <3>4. /\ invoice' = [invoice EXCEPT ![q] = "paid"]
          /\ credits' = [credits EXCEPT ![q] = IF invoice[q] = "paid" THEN @ ELSE @ + 1]
      BY <2>2, <3>2, <3>3 DEF CreditMemory, SetInvoice, Grantable
    <3>5. hook'.pc \in {"marking", "idle"}
      BY <3>1
    <3>6. SubsInStep'
      BY <3>1, <3>5 DEF SubsInStep
    <3>7. PurchasesInStep'
      <4> SUFFICES ASSUME NEW r \in Purchases
                   PROVE  /\ credits'[r] = IF invoice'[r] = "paid" THEN 1 ELSE 0
                          /\ row'[r] = "paid" => invoice'[r] = "paid"
                          /\ row'[r] \in {"pending", "paid"} => invoice'[r] \in {"pending", "paid"}
                          /\ invoice'[r] = "paid" => row'[r] = "paid"
                          /\ checkout'[r] = "shown" => invoice'[r] = "pending"
        BY DEF PurchasesInStep
      <4>1. CASE r = q
        BY <4>1, <3>1, <3>2, <3>3, <3>4
           DEF PurchasesInStep, Granting, CheckoutPlaces, Grantable
      <4>2. CASE r # q
        BY <4>2, <3>1, <3>2, <3>3, <3>4 DEF PurchasesInStep, Grantable
      <4> QED BY <4>1, <4>2
    <3>8. InvoicesInStep'
      BY <3>1, <3>2, <3>4, <3>5 DEF InvoicesInStep, Grantable
    <3> QED BY <3>6, <3>7, <3>8
  <2>3. CASE SubCommit
    <3>1. hook.event \in Event /\ hook.event.kind # "credit"
      BY <2>3 DEF SubCommit
    <3>2. \A s \in Subs : Matches(Applied(subRow, hook.event)[s], Applied(subMem, hook.event)[s])
      BY <2>3, <3>1, AppliedMatches DEF SubCommit, SubsInStep
    <3>3. SubsInStep'
      BY <2>3, <3>1, <3>2 DEF SubCommit, HookTo, Answer, DbFails, SubsInStep
    <3>4. PurchasesInStep' /\ InvoicesInStep'
      BY <2>3 DEF SubCommit, HookTo, Answer, DbFails, PurchasesInStep, InvoicesInStep
    <3> QED BY <3>3, <3>4
  <2>4. CASE SubMemory
    BY <2>4 DEF SubMemory, HookTo, SubsInStep, PurchasesInStep, InvoicesInStep
  <2>5. CASE InvoiceCredit
    BY <2>5, EventKinds, BillingAssumption
       DEF InvoiceCredit, HookTo, SubsInStep, PurchasesInStep, InvoicesInStep, Grantable
  <2>6. CASE InvoiceGrant
    BY <2>6, EventKinds, BillingAssumption, NoSeparation
       DEF InvoiceGrant, HookTo, Answer, SubsInStep, PurchasesInStep, InvoicesInStep
  <2>7. CASE MarkEvent
    BY <2>7 DEF MarkEvent, Answer, DbFails, SubsInStep, PurchasesInStep, InvoicesInStep
  <2> QED BY <1>4, <2>1, <2>2, <2>3, <2>4, <2>5, <2>6, <2>7 DEF HookStep
<1>5. CASE Flush \/ UNCHANGED vars
  BY <1>5, <1>2 DEF Flush, tables, vars, memory
<1>6. ASSUME NEW p \in Purchases, Pay(p) PROVE AllInStep'
  BY <1>6, <1>2 DEF Pay, Emit, tables
<1>7. ASSUME NEW s \in Subs,
             \/ CheckoutSubscription(s) \/ Subscribe(s)
             \/ \E st \in {"active", "past_due", "cancelled"} : Change(s, st)
      PROVE  AllInStep'
  BY <1>7, <1>2 DEF CheckoutSubscription, Subscribe, Change, Emit, tables
<1>8. ASSUME NEW i \in Invoices, PayInvoice(i) PROVE AllInStep'
  BY <1>8, <1>2 DEF PayInvoice, Emit, tables
<1>9. CASE Crash
  BY <1>9, NoSeparation DEF Crash
<1>10. CASE SubscribeFree
  <2>1. SubsInStep'
    BY <1>10, FreeInStep DEF AllInStep
  <2>2. PurchasesInStep' /\ InvoicesInStep'
    BY <1>10 DEF SubscribeFree, AllInStep, PurchasesInStep, InvoicesInStep, At, tables
  <2> QED BY <2>1, <2>2 DEF AllInStep
<1> QED BY <1>1, <1>3, <1>4, <1>5, <1>6, <1>7, <1>8, <1>9, <1>10 DEF Next

\* The list of credits, the invoices and the subscriptions in memory follow the tables.
THEOREM InStepCorrect == Spec => []InStep
<1>1. TypeOK /\ Granting /\ InStep /\ [Next]_vars => InStep'
  BY InStepStep
<1> QED BY <1>1, InStepInit, BillingTypeCorrect, GrantingCorrect, PTL DEF Spec

\* As long as no crash and no failed grant intervenes, deliveries that repeat, arrive out
\* of order or fail half-way credit no payment twice.
THEOREM PaymentsCreditOnce == Spec => []TogetherCreditedOnce
<1>1. InStep => TogetherCreditedOnce
  BY DEF InStep, AllInStep, PurchasesInStep, InvoicesInStep, TogetherCreditedOnce, CreditedOnce,
         Grantable
<1> QED BY <1>1, InStepCorrect, PTL

\* Under the same faults, memory agrees with the tables between webhooks: on the
\* subscriptions the free plan did not cancel, on what is paid, and on what is granted.
THEOREM CopiesStayInStep == Spec => []CopiesAgree
<1>1. TypeOK /\ Granting /\ InStep => CopiesAgree
  BY DEF TypeOK, Granting, GrantsFollowPayments, InStep, AllInStep, SubsInStep, PurchasesInStep,
         InvoicesInStep, CopiesAgree, At, Grantable
<1> QED BY <1>1, BillingTypeCorrect, GrantingCorrect, InStepCorrect, PTL
=============================================================================

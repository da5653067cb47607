# Verification of the Nuxtron back end

TLA+ models of the parts of the FastAPI back end (`src/backend/fastapi/app`) that keep durable
state across processes, threads and restarts; TLC runs over small instances of them; and proofs,
checked by TLAPS, of the properties that matter most for instances of every size.

    tlc -config JobsProduction.cfg MCDurableJobs.tla     # likewise the other runs
    tlapm DurableJobsProofs.tla                          # likewise the other *Proofs modules

`PROJECT.json` is the index: which definition models which lines, which run checks what, the hazards
of the code and the properties that watch them, the theorems, and the disagreements between the code
and what it says of itself.

## 1. Inventory

The repository is a marketing platform: a FastAPI back end with some hundreds of routers and
services, a small Django project for accounts and administration, and a React front end. Most
routers are CRUD over one table, text and score computation, or calls to external services. The
core whose correctness depends on ordering and failure is small. Modelled:

| Part | State | Operations | Interacts with | Hard because | Correct when |
|---|---|---|---|---|---|
| **Durable AI jobs**: `durable_jobs.py`, `worker.py`, `routers/ai.py` | tables `job_executions`, `job_outbox`; Redis broker; Celery workers; the credit ledger in memory | reserve credits, create the job, send it, mark the outbox row; relay: claim, send, mark; worker: running, completed, failed; in-process runner with refunds | broker, ledger snapshots | the request, overlapping relays, workers and crashes interleave; late acknowledgement delivers twice, or too late; runs are killed; every mark may fail | a committed job is launched, and is forgotten by nothing but a run that dies with its message; otherwise it settles; statuses are earned; nothing uncommitted is delivered; credits are conserved |
| **Content approval**: `routers/content_approval.py` | tables of chains and requests | configure, submit, list (which expires), approve, reject | thread pool, READ COMMITTED sessions | every handler reads without a lock and writes later | what is approved was signed by those who may; one pending request per post; nothing settled reopens; rejections and sign-offs stand |
| **Process store snapshots**: `process_store_persistence.py`, `bootstrap/lifespan.py`, `memory_stores.py` | module-level lists; the snapshot table or a state file; digests of what was written | start: choose a backend, restore; flush thread; final flush of stop | every router that keeps its records in such lists | handlers change a store while it is encoded; writes fail; stop may overtake the flush thread; crashes | what was saved is there after a restart; a clean stop saves everything; no store that starts empty overwrites a snapshot unchanged |
| **Stripe billing**: `routers/stripe_billing.py`, and of `routers/billing.py` the free plan | four tables; three lists in memory, snapshot one by one; Stripe's own state | the two checkouts, the webhook with its six kinds of event; taking the free plan | Stripe, the snapshots | memory and tables commit apart; deliveries repeat, are late and out of order; checkouts run on threads beside the webhook; the free plan has a lock of its own | nothing unpaid is granted; nothing paid is granted twice; it becomes spendable; memory agrees with the tables |
| **Connector reliability**: `domains/workflows/reliability.py`, `incidents.py` and their operations | lists in memory: connectors with statistics and circuit breaker, replay queue, SLA alerts, escalation rules and events | upsert, policies and templates, failures, health checks, replay of the queue or of one item, reconciling the circuits, acknowledging, auto-resolving | thread pool, one lock | a health check reports what it read after it let the lock go; every sighting of an alert evaluates every rule again; retry limits change under pending items | one open alert of a type; one escalation per alert and rule; replays end once and are counted once; a closed alert stays closed and notifies nobody; an alert tells the state of its connector |
| **Rate limiter**: `rate_limiter.py`, `domains/identity/security_redis.py`, `redis_cache.py` | a counter with an expiry in Redis; the samples, the client and the retry time of each process | the shared window; the fallback on local samples; connecting, probing | Redis, the threads of each process, the clock | Redis goes away, forgets, or answers into the void; the clock is read before the lock is taken | the limit holds in every window of a process and in the shared one; refused calls do not prolong it |
| **Smart inbox delivery**: `domains/social/inbox/operations`: `approve_response.py`, `replay_delivery_failure.py`, `replay_delivery_failures_bulk.py`, `audit.py`, `delivery_failure_metrics.py`, `inbox_ops_go_live_gate.py` | messages and the dead-letter list in memory; the network's idempotency keys | stage, approve, reject, update; retries of a call; replay of one failure, of a list, of the pending ones; resolve by hand | social networks, event loop, thread pool | requests wait for the network between two critical sections, and anybody may act meanwhile; answers get lost after the network has published; a request is cancelled, or lost with the process, while it waits | an approved reply is published once; nothing leaves the queue unanswered for; no replay that comes to its end leaves a failure in `replaying` |

Not modelled, with the reason (`PROJECT.json` lists each as a component):

* `event_bus.py` and `llm_pool.py`: nothing in the running back end creates a bus or a pool. The modules that
  take one (`app/modules`) are constructed by tests alone, so no interleaving of them occurs. The
  pool's selection is a score over static tables.
* Workforce missions and their Celery tasks: a capability switch keeps them out of production, and
  their hand-over to workers is the one that `DurableJobs` models.
* Identity and single sign-on: token and cryptography code; the login throttles use the same counter
  as the rate limiter but are not modelled on their own.
* Social posting: calls to platform APIs, and a publication store of one process.
* Assistant, CRM, meetings, notifications, integrations, media, SEO services: CRUD,
  calls to external services, or pure computation. Where they run long work durably they use
  the jobs modelled here.
* Django project and front end: no shared state with the core but the database.

By lines, most of the repository is of the last three kinds. The share that is modelled is
therefore small, and chosen by what can go wrong between two steps rather than by size.

## 2. How the parts interact

    client --> generate_content --> job tables --> relay (every 30 s) --+
                  |    |                                                 v
                  |    +----------- send_task --------------------> Redis broker --> workers --> job tables
                  v
            credit ledger (memory) <---- refunds by the in-process runner
                  |
                  +--> flush thread --> snapshot table --> restore at the next start
                  |
            Stripe webhook --> billing tables, then the same lists in memory

`ProcessStores` models the snapshot mechanism itself. `DurableJobs` and `StripeBilling` each hold
the ledger they use together with its last snapshot (`snapshot`, `saved`): what a crash restores is
what a flush last wrote, store by store in `StripeBilling`, because a crash between two stores
leaves snapshots of different moments. What all three promise of their records is one abstract
specification, `Snapshotting`. `ContentApproval` shares only the session discipline:
commit at the end of a handler, roll back when it raises.

The other three meet the rest at one point each. The free plan edits the list of subscriptions that the
webhook keeps in step with its table; it is an action of `StripeBilling`. The rate limiter stands in front of nearly
every handler and shares no state with them: a call it refuses never happens. The lists of the connectors and
of the inbox are among the stores `ProcessStores` saves. `Connectors` follows one process from start to end.
In `InboxDelivery` the process may die: its requests are gone and its lists come back as they were
written; that a snapshot may be behind them is what `ProcessStores` says of any store.

## 3. Modules

| Module | Models | State and actions against the code |
|---|---|---|
| `Snapshotting` | what a snapshot promises of records in memory | the changes memory includes and those that are kept; `Change`, `Save`, `Restart` |
| `JobLifecycle` | what the outbox promises about one job, whoever runs it | `state` and `launched`; `Submit`, `Launch`, `Progress`, `Reject` |
| `DurableJobs` | durable jobs, relay, workers, the API handler and the in-process runner | one action per transaction or hand-over; `Begin` / `Succeed` / `Fail` for a task, `Kill` and `WorkerLost` for one that dies, `ClaimTenant` / `RelaySend` / `RelayMark...` for a relay execution; implements `JobLifecycle` (`ImplementsLifecycle`, `ImplementsFairLifecycle`), and `Snapshotting` with its ledger (`ImplementsSnapshot`) |
| `Approvals` | what content approval promises, however calls overlap | where each request stands, its chain, who signed it, what is due; `FallDue`, `Submit`, `Expire`, `Sign`, `Reject` |
| `ContentApproval` | all approval endpoints | a call takes the time (`Arrive`), reads (`SubmitRead`, `ListRead`, `DecideRead`), then writes and commits (`SubmitWrite`, `ListWrite`, `Approve`, `RejectRequest`); `Leave` is any refusal; implements `Approvals` (`ImplementsApprovals`) |
| `ProcessStores` | restore, flush thread, shutdown, crash | stores are versions, the items a module fills one with at import being the first; a flush visits, encodes and saves store by store, on the thread (`ticker`) or in `stop` (`main`); implements `Snapshotting` (`ImplementsSnapshots`) |
| `Entitlements` | what billing promises about one payment | what is paid, granted, acknowledged, spendable and saved; `Pay`, `Grant`, `Credit`, `Settle`, `Save`, `Restart` |
| `StripeBilling` | both checkouts and the webhook | the steps of `create_credit_checkout` between its locks; the webhook as check, table commit, memory, mark; Stripe as an environment that emits events and delivers them in any order until acknowledged; implements `Entitlements` (`ImplementsEntitlements`) |
| `Connectors` | statistics, circuit breaker, replay queue, alerts, escalation | a handler under the lock is one action; a failure records and counts in two; a health check is `HealthCheck` (and `CountFailed`), then `ReadPolicy`, `ReadTotal`, `ReadFailed` and `ReadStatus`, the reads it makes without the lock, then `ReportCheck`; availabilities are hundredths of a per cent, rounded as the code rounds them; a batch is one step per item |
| `RateLimiter` | the limiter of one key | `Connect`, then `Increment` or `Unreachable`; the fallback reads the clock (`ReadClock`) before it takes the lock (`Sample`); Redis and the clock are the environment |
| `DeadLetters` | what the inbox promises about its dead-letter queue | the status of each letter and who is replaying it; `File`, `TakeUp`, `GiveBack`, `Close`, `Dismiss`, `Resolve`, `Publish` by the network, and `Drop` when those who replay are gone |
| `InboxDelivery` | staging, approval, delivery with retries, dead letters and their replay | pool handlers are one action each; a request that sends is a critical section, one step per call and per answer, and the critical sections in which it files or closes what came of it; `Cancel` ends one that waits for the network, `Crash` all of them; implements `DeadLetters` (`ImplementsDeadLetters`) |
| `MCDurableJobs`, `MCContentApproval`, `MCProcessStores`, `MCStripeBilling`, `MCConnectors`, `MCRateLimiter`, `MCInboxDelivery` | constants and symmetry for TLC | |
| `DurableJobsProofs`, `ContentApprovalProofs`, `ProcessStoresProofs`, `StripeBillingProofs`, `ConnectorsProofs`, `RateLimiterProofs`, `InboxDeliveryProofs` | theorems and proofs | |

Conventions. A *fault* is anything that goes wrong outside the code's control: a transaction or a
broker call that raises, a process that dies, a duplicate delivery. Each takes its kind from the
constant `FaultKinds`, and `MaxFaults` bounds their number. The history variable `suffered` records
the kinds suffered so far, so a property can say under which faults the code keeps its promise and be
checked while all of them happen; other history variables (`sentBy`, `outcomes`, `signed`, `vetoed`,
`overlapped`, `durable`, `emitted`, `log`, the `news` of a delivery) record what no table remembers. Actions named after a definition plus a
suffix and introduced as a *mutant* are plausible bugs: substituted for that definition they
break a property, which shows that the property depends on it.

Abstractions. Payloads, prices, signatures, names and wording are left out; a job, a request, a store
or a payment is an identifier. Durations are left out: a backoff, an expiry or a join that
times out is a step that may happen. One comparison of durations does matter: with the timeouts the code defaults to, a message
the API sent has expired (`routers/ai.py:399`, 3600 s at most) when the broker returns it from a lost worker (`worker.py:62`,
7200 s), so `WorkerLost` discards it and requeues only what the relay sent. Only `RateLimiter`, whose subject is
time, has a clock. Tenants appear only where code relates them (the balance and the relay's claim limit). Queue priorities and rate limits of Celery are left out. What is
read-only is left out.

## 4. Runs

The passing runs:

| Run | Instance | Shows |
|---|---|---|
| `JobsProduction` | 1 job, 2 relays, 2 workers, 3 faults among broker outage, API crash, lost worker, killed run; fair | `NoForgottenJob`, `StatusIsEarned`, `ClaimsExclusive`, `Settles`, `ImplementsFairLifecycle` |
| `JobsAllFaults` | 2 jobs of one tenant with credits for one, Celery there or not from request to request, a relay with claim limit 1, a worker, the in-process runner, any 1 fault | `PublishedWasSent`, `DeliveredIsCommitted`, `CreditsConserved`, `LocalSettlement`, `ImplementsLifecycle`, `ImplementsSnapshot` |
| `ApprovalOverlap` | 2 requests of 1 post, 2 levels, an admin and a reviewer with overlapping calls | `TypeOK`, `ApprovedWasSigned`, `OnePendingPerPost`, `ImplementsApprovals`, `OnlyOverlapsLose` |
| `Stores` | 2 stores, one filled at import, 2 versions each, any 2 faults; fair | `ImplementsSnapshots`, `ShutdownSaves`, `EmptyNeverWritten`, `EventuallySaved` |
| `Billing` | a purchase, 2 subscriptions, an invoice of one of them, 3 events, any 2 faults, the free plan counted as one; fair | `GrantsFollowPayments`, `CopiesAgree`, `TogetherCreditedOnce`, `ImplementsEntitlements`, `PurchaseSettles` |
| `Connectors` | a connector, 2 calls, 2 policies, 3 requests, 2 items, 3 alerts, a rule | `TypeOK`, `OneOpenAlert`, `EscalatedOnce`, `ReplaysAccounted`, `ClosedForGood`, `OnlyChecksMislead` |
| `RateLimits` | a process with 2 threads, limit 1, window 2, time up to 4, 3 admissions | `LocalLimit`, `SharedLimit`, `WindowEnds` |
| `Inbox` | a message, 2 replies, 2 requests at once, 2 calls per delivery, 2 failures, cancellations and crashes at any moment | `TypeOK`, `PublishedOnce`, `NothingDropped`, `NoneAbandoned`, `ImplementsDeadLetters`, `OnlyBetweenSections` |

The types of `DurableJobs`, `ProcessStores`, `StripeBilling` and `RateLimiter`, `Survives`, and the action properties `PaidIsFinal`,
`NeverReopened` and `ResolvedStays`, are theorems (section 5) and are not checked again here.

The runs that find a statement of the repository violated by its code (section 6):
`JobsRelayStuck`, `ApprovalVetoLost`, `BillingTwice`, `InboxReplyLost`.

Why the bounds are enough to be interesting. *Jobs*: two relays and two workers are what an overlap needs;
three faults let an outage, a crash and a lost worker or a kill hit the same job. Two jobs with credits for one
would show a charge too many; a claim limit of one leaves the second row for the next execution; and
since Celery comes and goes, jobs of the runner and of workers share the ledger. *Approval*: two callers and two
levels are the least that can lose a sign-off or a veto, two requests of one post the least that can both be
pending. *Stores*: two stores make a flush that a crash cuts in half, two versions make a payload stale.
*Billing*: two subscriptions are what superseding needs; three events are a subscription completed,
changed or paid, and a second one completed, or a purchase among them. *Connectors*: two calls overlap a health check with a
failure, a replay or another check; three alerts let one be closed and opened again, of either type (a call begins only while each call under way still has room for one alert of each connector); counts stand still
at two, since no threshold is higher. *Limiter*: an admission, a full window and a second one fit in time
four; two threads are what an overtaking needs, and with a limit of one every call too many shows. *Inbox*: two
requests replay one failure at once or cross an approval; two calls are a retry after a lost answer; two replies make a
stale key; two failures make a batch, and agents stage and update as long as there is room for a failure of what they stage. `MaxVersion` bounds changes, `MaxEvents` Stripe's events (each
happens once), `MaxFaults` faults, `MaxFailures` dead letters, `MaxRequests`, `MaxItems`, `MaxAlerts` and `MaxRules` the lists
of a connector; requests in `ContentApproval` are bounded by the identifiers. The theorems of
section 5 hold for all bounds.

Symmetry is declared over jobs, relays and workers in `JobsAllFaults`, over approval requests, over the calls of
connectors, over the limiter's threads and over requests and replies in `Inbox`; never in a run with a liveness
property. `CHECK_DEADLOCK FALSE` stands where the system may stop: in the two billing runs, where customers
have no more to pay.

Fairness. *Jobs*: the request that has begun, each worker, the beat-driven relay and the passing
of a backoff are weakly fair: the event loop, Celery and beat run them as long as they can run.
New requests, results of a given kind and faults are not: the provider may always fail.
*Stores*: the flush thread keeps ticking and finishing its steps while the process is up; handlers,
stop and start are not fair. *Billing*: a webhook that has begun goes on (weak: it runs on the event
loop to its end), and Stripe keeps delivering the event of a purchase that is not acknowledged (strong, because while
another webhook holds the lock a delivery has to wait, again and again). Customers need not act, and
checkout calls may stop anywhere. The connectors, the limiter and the inbox promise nothing in time: their
handlers act when somebody calls, so no liveness is claimed of them.

## 5. Proofs

Seven components are proved safe for every value of their constants: any number of
jobs, relays, workers, callers, stores, payments, connectors, threads and replies, any faults in any number: the types
and every invariant and action property that a passing run checks is a theorem.
The only assumptions are those the modules declare (`JobsAssumption`, `NobodyIsNoMessage`,
`ApprovalAssumption`, `StoresAssumption`, `BillingAssumption`, `ConnectorsAssumption`, `RateAssumption`,
`InboxAssumption`): types of constants, limits that are not zero, policies within the ranges the request models validate, and null values that are no members of the sets they
complement.

| Theorem | Says | Inductive invariant |
|---|---|---|
| `TypeCorrect`, `ApprovalTypeCorrect`, `StoresTypeCorrect`, `BillingTypeCorrect` | types, and the parts of the control state that must agree | `TypeOK` |
| `PublishedRowsWereSent`, `DeliveriesAreCommitted` | an outbox row is retired only when the broker had the job; whatever is queued, run or claimed is committed | `Bookkeeping`: rows come in pairs, and the handler, each message, each run and each claim is about a job whose rows are there and, past the send, that was sent. None of these holds alone: a row is published by a relay that is past its send |
| `JobsNotForgotten` | under outages, API crashes, kills and lost workers a production job has somebody to act for it, or it is running and a run of it died with its message, which takes a kill, or a lost worker and a message the API sent | `Accounted`: a sent job has a final status, a message or a worker, or is stranded, and a publishing row is held by a relay; needed because the property says nothing of the terminal jobs a duplicate delivery reopens. `RunsTraced` (a theorem of its own, `RunsTracedCorrect`): every message and run is from somebody who sent the job, and a run has left `queued` for good |
| `ClaimsAreExclusive` | short of a failed send or transaction, overlapping relays never hold the same row | `ClaimsHeld`: a claimed row is publishing or published, so no claim, which takes pending rows, meets it; nobody is about to mark a row failed, the only step that makes it pending again |
| `StatusesAreEarned` | short of a failed transaction, completed means a generation succeeded, failed that one failed or that the API, which never sent the job, refused it | `Earned`: the in-process runner has recorded the outcome it is about to write, and a request past its commit refuses only what it has not sent and sends only what nobody failed for another reason |
| `LifecycleImplemented` | every step of `DurableJobs` is one of `JobLifecycle` or a stutter, in every mode, with every fault | `Bookkeeping` |
| `ApprovalsAreSigned` | however calls interleave, an approved request was signed by holders of the levels of its chain | `SignOffs`: what is recorded, and what a call has read or is about to write, was signed |
| `PendingIsUnique`, `SettledStaysSettled` | one pending request per post; no settled request reopens | itself, with `TypeOK` and `SignOffs` |
| `StoresSurvive` | crashes, failed saves and stores that change under the encoder lose nothing saved | `Snapshots`: the digests of a running process are what is saved, only one flush runs, and what it holds is between the saved and the current version |
| `SnapshotsImplemented` | under the same faults, and whichever thread is late, every step of `ProcessStores` is one of `Snapshotting` or a stutter: a write never replaces a snapshot by an older one, and a restart brings back exactly what was kept, to which the import of a module may add | `Snapshots`; a process that has ended has the records of its snapshots, so that its end, however it comes, is the abstract restart and the start itself adds at most what is imported. With a flush that outlasts the join it is false (the mutant of `FinalFlush` shows it) |
| `LedgerIsSnapshot`, `CreditsAreSnapshot` | under every fault the ledgers of `DurableJobs` and `StripeBilling` are kept as `Snapshotting` promises: entries are only added, a flush only adds to what was flushed, a restart brings back charges and refunds together | what was flushed is no more than the ledger holds (`LedgerKept`, checked by TLC first). For billing it follows from `Entitlements` alone |
| `ShutdownWritesAll` | unless a write fails or the join times out, a clean stop leaves the snapshots equal to the stores | `CleanShutdown` over `Snapshots`: each store the final flush has visited is written or in its hands |
| `WritesAreNonEmpty` | under every fault no snapshot is replaced by an empty store (by a store filled at import it may be) | `NonEmpty`: an empty store has no digest to differ from, what is put aside to be saved has at least one change, and a process that has ended flushes nothing |
| `PaymentsAreGranted`, `PaidStaysPaid` | under every fault nothing unpaid is granted or spendable, an acknowledged purchase has its grant, and no late checkout step takes back a paid status | `Granting`: a checkout under way has a row without a session, a paid session a row that names it, and a webhook past its commit has left its grant |
| `PaymentsCreditOnce`, `CopiesStayInStep` | short of a crash and a failed grant, no payment counts twice and memory agrees with the tables between webhooks, up to what the free plan cancelled | `InStep`: the two copies differ exactly by what the webhook in progress has done to one of them, and by cancellations of the free plan. It is kept because applying an event to two copies that match leaves two that match (`AppliedMatches`), and because the free plan commutes with a pending event up to such a cancellation (`FreeApplied`) |
| `EntitlementsImplemented` | under every fault every step of `StripeBilling` is one of `Entitlements` or a stutter: a payment is granted once, for good, and only when paid; an event is acknowledged only for what is granted; nothing but a payment becomes spendable, a purchase after its grant and an invoice before it; a restart loses no more than what was not saved | `Granting` with `InvoiceIsCredited`: a webhook about to commit the grant of an invoice has credited it. Steps of subscriptions and of the free plan change nothing promised (`Unpromised`). The abstract specification lets a payment be credited more than once, because crashes do (`BillingTwice`); that without them it is not is `PaymentsCreditOnce` |
| `RunnerSettlesJobs` | short of a crash and a failed transaction, a job the in-process runner settled is charged exactly when it completed | `RunnerSettles`: the places of the handler and of the runner fix a job's debit, refunds and status, whatever other jobs and workers do |
| `ApprovalsImplemented` | every step of `ContentApproval` is one of `Approvals` or a stutter, whoever calls: a request is submitted when its post has none pending that is not expired with it, decided only by holders of a role of its chain, approved by a sign-off with which there are enough, expired only when due, and never pending again | `SignOffs` with `StaleIsDue`: a call marks as expired only what was due when it took the time. That a decision is final is not promised, since the code does not keep it (`ApprovalVetoLost`); that nothing but an overlap changes one is `OverlapsAloneLose` |
| `OverlapsAloneLose` | as long as no call has read a request between another's read and its commit, its row holds every sign-off and rejection that was answered with success, and it is approved exactly when enough levels have signed | `InTurn`: with the property, one call at most has such a request in hand, what it read is still so, and the request is still pending. The checks of `decide_approval` on what it read are what keeps it (the mutant of `DecideRead` drops one) |
| `LedgerConserved` | under every fault a tenant's ledger stays between zero and its grant, and only charges are refunded | `CreditsHeld`: the ledger *and its snapshot*, which a restart brings back, hold at most one refund per charge and are solvent, and whoever may yet refund (the request past its charge, the runner) has a charge that was not refunded. The balance is a count of entries, so that lemmas on cardinalities carry it from step to step |
| `ConnectorsTypeCorrect` | types; failures never exceed requests, which two steps count; references stay inside the lists; an item is tried at most once more than a policy retries | `IInv`, its `CallsOK` and `QueueOK`: one call holds the lock; who has counted a request but not its failure is that call; a batch holds distinct pending items in the order of the queue, which no other call can settle meanwhile; a pending item has a try left under some policy |
| `OneAlertOpen`, `RulesNotifyOnce` | a connector has one open alert of a type; a rule notifies once per alert and only when reached | `AlertsOK`: with the property, `Remembered` (what an alert remembers is exactly what was emitted for it). A report closes, counts or appends; what it emits is an enumeration of the rules newly reached, which exists because a finite set of numbers has one in increasing order (`OrderExists`, by taking least elements) |
| `ReplaysBalance` | the replay counters of a connector count its items by status | `Accounts`: the property itself, which needs `QueueOK` for a batch step, since an item settled twice would be counted twice; the lemmas say how a filtered list's cardinality moves when one item is settled or appended |
| `ClosedStaysClosed` | a closed alert is never changed or notified of again, by a late report, a rule added since or a sweep, and an event is resolved only with its alert | `IInv` with `EventsFollow` (the event of an open alert is not resolved): a report looks for open alerts only, notifies of the one it holds, and the lock keeps both together |
| `AlertsTellTheState` | an alert that a step opens, counts, escalates or closes then tells the state of its connector by its status and its type, unless the step is the report of a health check that read another one | the same `IInv`; reports under the lock compute what they report in the same step, whichever handler makes them |
| `LimiterTypeCorrect`, `OutageKeepsLimit`, `DeploymentLimit`, `CountersEnd` | in no window does a process, or Redis, admit more than it may; refused calls prolong nothing | `IInv`: `SamplesKept` (no sample is dropped before its window is over, although an overtaken thread judges with an old time), `WindowsFollow` (the counter bounds what was admitted under it, and windows do not overlap), `NowIsPast` |
| `InboxTypeCorrect`, `ReplyPublishedOnce`, `QueueAnswersForAll`, `ReplaysEnd` | nothing is published twice or dropped, and nothing but a cancelled replay or the loss of the process leaves a failure in `replaying` with nobody replaying it, with any number of requests at once | `IInv`: besides the first two, `Engaged` (a request is where its kind leads, and works on a failure with its message and key), `Counted` (while nothing is published under a key, nothing of that key counts as published) and `Answering` (a request that was answered has its key published). `ReplaysEnd` goes over the steps of `DeadLetters`, which those of the design are: each that lets go of a letter takes it out of `replaying` |
| `DeadLettersImplemented` | every step of `InboxDelivery` is one of `DeadLetters` or a stutter, with any number of requests at once: a letter is closed as replayed only by a replay whose key the network has published, dismissed only when its message had gone out, resolved by hand only while it is open, and comes back only from a replay that had taken it up | the same `IInv`; `LetterMoves` says what the handover of a letter does to who holds it, `SameHands` when a step leaves that alone |
| `LifecycleSuffices`, `ApprovalsSuffice`, `EntitlementsSuffice`, `DeadLettersSuffice`, `SnapshotSuffices` | what the abstract specifications are worth: whatever implements them runs only launched jobs and forgets none; approves nothing unsigned, has one pending request per post and reopens nothing; spends nothing unpaid and takes back no grant; closes no letter unanswered for; gives up nothing kept | invariants of the abstract specifications, in the variables of the detailed ones. They say that the promises are not hollow: who relies on one need not read the code behind it |
| `ResolutionsStand`, `FailuresAreActionable` | what is resolved comes back only through a replay under way; a failed message names an actionable failure but between two sections of one request | the same `IInv`, step by step |

The conditional invariants are proved from `SufferedGrows`: a step that ends in a behaviour without
a kind of fault started in one.

Only model-checked: everything temporal under fairness (`Settles`, `ImplementsFairLifecycle`, `EventuallySaved`,
`PurchaseSettles`), which is outside the prover. Nothing is assumed in its place.

## 6. What the code does otherwise than it says

* `JobsRelayStuck`: a relay that dies after its claim leaves the row in `publishing`; no query selects such
  rows again, so the job is never sent, although the docstring (`worker.py:173`) says it relays what the API has not published.
* `ApprovalVetoLost`: decisions read without a lock and write by primary key, so a
  rejection that was answered with success can be overwritten by an approval or an expiry.
* `BillingTwice`: the ledger in memory is credited before the event is marked and, for invoices, before
  the grant commits; a crash or a failed commit in between lets the next delivery credit it again.
* `InboxReplyLost`: approving prefers the key a message kept from an earlier reply (`approve_response.py:47`), so
  a second reply goes out under the key of the first; a network that honours the key answers with the first one, and the
  second is marked sent without being published, while `README.md:749` promises no message loss.

Read from the same steps, without a run of their own:

* The outbox row is ready from the commit on, so a relay may send the job the API is about to send
  (`routers/ai.py:379-394`, `worker.py:173`); the job then runs twice, and `_run_ai_task` does not look at its status first.
* Two sign-offs at once can leave one unrecorded and the request pending (`content_approval.py:448`);
  `OnlyOverlapsLose` says that nothing else loses one.
* The free plan cancels a paid subscription in memory (`routers/billing.py:269-274`), which the table and Stripe go on with,
  although `cancel` (`routers/billing.py:341-345`) says such subscriptions must be cancelled in the portal. Only the next event about it
  puts memory right. `CopiesAgree` excepts exactly this.
* A health check may open or close an alert for a state the connector has left (`OnlyChecksMislead`).
* Two ingests of one external id may both append (`audit.py:304`), although the docstring says they are deduplicated
  (`audit.py:288`); ingest is the initial state of `InboxDelivery`.
* An automatic reply that needs no approval is answered as delivered, and nothing is sent
  (`inbox_ops_go_live_gate.py:324`).

The models also show, and the properties therefore except: a hard time limit, or a lost worker whose message the API had sent, leaves
a job `running`, and a message that expires before any worker has it leaves it `queued`, because nothing retries them;
a replay that is cancelled, or lost with the process, while it waits for the network leaves its failure `replaying`, which the
sweep of pending failures passes over (`delivery_failure_metrics.py:240`) although it can still be replayed by its id
(`replay_delivery_failure.py:69`); a crash between the mark of a Stripe event and the
next flush loses the spendable credits; `invoice.paid` that overtakes its subscription is acknowledged
without credits; the last subscription event to arrive wins whatever Stripe's order was; a start that
cannot read its snapshots runs without them, and writes over those of the stores that changed since, or that their module
fills at import (`routers/predis_features.py:39`); a background flush that outlasts the join of five seconds may
write over the final snapshot; a replay that fails late marks failed a message that another one has sent; judged by the time
they read instead of the time they decide, overtaken threads of the limiter may admit one more, which nothing
promises otherwise. The gravest are hazards in `PROJECT.json`, at their lines.

## 7. Plan

Done, in this order: `DurableJobs` over `JobLifecycle`; `ContentApproval`; `ProcessStores`;
`StripeBilling`; their proofs; `Connectors`, `RateLimiter`, `InboxDelivery` and their proofs; the free plan in
`StripeBilling`; the abstract `Approvals`, `Entitlements` and `DeadLetters`, and the proofs that they are
implemented; the abstract `Snapshotting`, which `ProcessStores` and the two ledgers implement; and what follows from
the abstract specifications alone.

Next, by weight:

1. Ingest of the inbox, with its deduplication, and the records of replay runs.
2. Refresh-token rotation and login lock-out (`domains/identity`), over the counter that `RateLimiter` models.
3. Workforce missions, once they are enabled in production: the mission state machine composed with the
   at-least-once delivery that `DurableJobs` describes.

----------------------------- MODULE Connectors -----------------------------
(***************************************************************************)
(* Reliability of workflow connectors: request statistics, the circuit     *)
(* breaker, the queue of failed operations to replay, SLA alerts and their *)
(* escalation.                                                             *)
(*                                                                         *)
(* The lists live in one process, and the handlers are plain functions on  *)
(* a thread pool that take one lock for their changes.  The health check   *)
(* lets the lock go before it computes the snapshot it reports, so it      *)
(* reads what other calls are changing; the counting half of a failure and *)
(* the items of a batch are therefore steps of their own.                  *)
(*                                                                         *)
(* Left out: audit entries, names, channels and recipients, runbooks,      *)
(* disabled rules (they do nothing), and tenants.  Connectors are never    *)
(* deleted.  Clocks are choices: which items are due, which circuits have  *)
(* cooled down, which connectors are inside a maintenance window.          *)
(***************************************************************************)
EXTENDS Integers, Sequences, FiniteSets

CONSTANTS
  Connector,     \* workflow connectors
  Calls,         \* threads that run a call of more than one step
  Policies,      \* reliability policies and templates
  DefaultPolicy, \* default_reliability_policy
  Minimums,      \* min_breach_count of escalation rules
  MaxRequests, MaxItems, MaxAlerts, MaxRules,  \* bounds on the lists and counters
  MaxCount,      \* a count nothing distinguishes from the next one
  None

\* What a policy may ask: availability in hundredths of a per cent, since that is what it
\* is compared with, and latency in milliseconds.
AvailabilityTarget == 5000..10000
LatencyTarget == 50..60000
PolicySpace == [retries : 0..10, threshold : 1..100, availability : AvailabilityTarget,
                latency : LatencyTarget, replay : BOOLEAN]

ASSUME ConnectorsAssumption ==
  /\ Policies \subseteq PolicySpace /\ DefaultPolicy \in Policies
  /\ MaxCount \in Nat /\ Minimums \subseteq 1..MaxCount
  /\ \A p \in Policies : p.threshold <= MaxCount
  /\ None \notin Connector \cup Policies

VARIABLES
  status,   \* of each connector; "none" until it is first upserted
  policy,   \* its reliability_policy
  stats,    \* its reliability_stats
  circuit,  \* its circuit_breaker
  queue,    \* connector_replay_queue
  alerts,   \* connector_sla_alerts
  rules,    \* connector_escalation_rules: the min_breach_count of each
  events,   \* connector_escalation_events
  pc,       \* what each call is doing
  target,   \* the connector it is about
  batch,    \* the items it has yet to process
  force,    \* its force_success
  view      \* the policy, total and breaches its snapshot has read so far

lists == <<queue, alerts, rules, events>>
locals == <<target, batch, force, view>>
vars == <<status, policy, stats, circuit, lists, pc, locals>>

Types == {"availability", "latency"}
\* What a call is doing: without the lock or a call at hand, holding the lock, or between
\* the reads of a snapshot.
Reading == {"read_policy", "read_total", "read_failed"}
Places == {"idle", "failing", "checking", "processing", "checked", "read"} \cup Reading
BlankView == [policy |-> None, total |-> 0, breach |-> {}]

Stats == [total : Nat, failed : Nat, enqueued : Nat, succeeded : Nat, failures : Nat]
Circuit == [state : {"closed", "open", "half_open"}, failures : 0..MaxCount]
Item == [connector : Connector, attempts : 0..11, status : {"pending", "succeeded", "failed"}]
Alert == [connector : Connector, type : Types, status : {"open", "resolved"},
          breaches : 1..MaxCount, escalated : SUBSET Nat]
Event == [alert : Nat, rule : Nat, status : {"triggered", "acknowledged", "resolved"}]
View == [policy : Policies \cup {None}, total : Nat, breach : SUBSET Types]

TypeOK ==
  /\ status \in [Connector -> {"none", "unknown", "healthy", "degraded"}]
  /\ policy \in [Connector -> Policies]
  /\ stats \in [Connector -> Stats] /\ circuit \in [Connector -> Circuit]
  /\ queue \in Seq(Item) /\ alerts \in Seq(Alert) /\ rules \in Seq(Minimums) /\ events \in Seq(Event)
  /\ pc \in [Calls -> Places]
  /\ target \in [Calls -> Connector \cup {None}]
  /\ batch \in [Calls -> Seq(Nat)] /\ force \in [Calls -> BOOLEAN]
  /\ view \in [Calls -> View]
  \* The lists refer to one another.
  /\ \A a \in DOMAIN alerts : alerts[a].escalated \subseteq DOMAIN rules
  /\ \A e \in DOMAIN events : events[e].alert \in DOMAIN alerts /\ events[e].rule \in DOMAIN rules
  /\ \A c \in Calls : \A n \in DOMAIN batch[c] : batch[c][n] \in DOMAIN queue
  \* No connector has more failures than requests, whichever call is between the two counts.
  /\ \A k \in Connector : stats[k].failed <= stats[k].total
  \* An item is tried at most once more than the most generous policy retries.
  /\ \A i \in DOMAIN queue : \E p \in Policies : queue[i].attempts <= p.retries + 1

Init ==
  /\ status = [k \in Connector |-> "none"]
  /\ policy = [k \in Connector |-> DefaultPolicy]
  /\ stats = [k \in Connector |->
               [total |-> 0, failed |-> 0, enqueued |-> 0, succeeded |-> 0, failures |-> 0]]
  /\ circuit = [k \in Connector |-> [state |-> "closed", failures |-> 0]]
  /\ queue = <<>> /\ alerts = <<>> /\ rules = <<>> /\ events = <<>>
  /\ pc = [c \in Calls |-> "idle"]
  /\ target = [c \in Calls |-> None]
  /\ batch = [c \in Calls |-> <<>>]
  /\ force = [c \in Calls |-> FALSE]
  /\ view = [c \in Calls |-> BlankView]

-----------------------------------------------------------------------------
(* Snapshots and alerts.                                                   *)

Latency(s) == IF s = "healthy" THEN 120 ELSE 480

\* n / d to the nearest integer, and to the even one of two.
Rounded(n, d) ==
  LET q == n \div d
      r == 2 * (n % d)
  IN IF r > d \/ (r = d /\ q % 2 = 1) THEN q + 1 ELSE q

\* Availability is rounded to two decimals before it is compared.
Unavailable(total, failed, p) ==
  total > 0 /\ Rounded((total - failed) * 10000, total) < p.availability

Slow(s, p) == Latency(s) > p.latency

\* The targets a snapshot misses.
Breach(total, failed, s, p) ==
  {t \in Types : \/ t = "availability" /\ Unavailable(total, failed, p)
                 \/ t = "latency" /\ Slow(s, p)}

\* Breaches and consecutive failures are only compared with bounds up to MaxCount:
\* there they stand still.
Increment(n) == IF n < MaxCount THEN n + 1 ELSE n

\* Mutant of OpenAlerts: a resolved alert of the type is taken up again.
OpenAlertsAny(k, type) ==
  {a \in DOMAIN alerts : alerts[a].connector = k /\ alerts[a].type = type}

\* Mutant of OpenAlerts: only the newest alert is looked at.
OpenAlertsNewest(k, type) ==
  {a \in DOMAIN alerts : /\ alerts[a].connector = k /\ alerts[a].type = type
                         /\ alerts[a].status = "open" /\ a = Len(alerts)}

OpenAlerts(k, type) ==
  {a \in DOMAIN alerts : /\ alerts[a].connector = k /\ alerts[a].type = type
                         /\ alerts[a].status = "open"}

\* The members of a finite set of positions, in increasing order.
InOrder(S) ==
  CHOOSE s \in [1..Cardinality(S) -> S] : \A i, j \in DOMAIN s : i < j => s[i] < s[j]

\* The rules an alert has reached and does not remember.
Newly(alert) == {r \in DOMAIN rules : rules[r] <= alert.breaches /\ r \notin alert.escalated}

Store(alert, a) ==
  alerts' = IF a \in DOMAIN alerts THEN [alerts EXCEPT ![a] = alert] ELSE Append(alerts, alert)

Emit(fired, a) ==
  events' = events \o [i \in 1..Cardinality(fired) |->
              [alert |-> a, rule |-> InOrder(fired)[i], status |-> "triggered"]]

\* Mutant of Escalate: the rules are not remembered on the alert.
EscalateForgetful(alert, a) == Store(alert, a) /\ Emit(Newly(alert), a)

\* The alert is stored, and every rule it has newly reached emits an event.
Escalate(alert, a) ==
  /\ Store([alert EXCEPT !.escalated = @ \cup Newly(alert)], a)
  /\ Emit(Newly(alert), a)

\* One alert stands for both targets when both are missed.
AlertType(breach) == IF "availability" \in breach THEN "availability" ELSE "latency"

\* A breach is counted on the open alert of its type, or opens one.
RecordAlert(k, breach) ==
  LET type == AlertType(breach)
      open == OpenAlerts(k, type)
      first == CHOOSE a \in open : \A b \in open : a <= b
  IN IF breach = {} THEN UNCHANGED <<alerts, events>>
     ELSE IF open # {}
     THEN Escalate([alerts[first] EXCEPT !.breaches = Increment(@)], first)
     ELSE Escalate([connector |-> k, type |-> type, status |-> "open", breaches |-> 1,
                    escalated |-> {}], Len(alerts) + 1)

Resolved(a) == [a EXCEPT !.status = "resolved"]

\* No breach: the open alerts of the connector are resolved, their events are not.
CloseAlerts(k) ==
  /\ alerts' = [a \in DOMAIN alerts |->
       IF alerts[a].connector = k /\ alerts[a].status = "open" THEN Resolved(alerts[a]) ELSE alerts[a]]
  /\ UNCHANGED events

\* record_sla_alert and then close_sla_alerts_if_recovered: only one has effect.
Report(k, breach) == IF breach = {} THEN CloseAlerts(k) ELSE RecordAlert(k, breach)

-----------------------------------------------------------------------------
(* The handlers.                                                           *)

Holds(c) == pc[c] \in {"failing", "checking", "processing"}
LockFree == \A c \in Calls : ~Holds(c)
Known(k) == status[k] # "none"

\* The bound on alerts: a call, this one included, opens at most one for each connector.
Room == Len(alerts) + Cardinality(Connector) * Cardinality({c \in Calls : pc[c] # "idle"})
          + Cardinality(Connector) <= MaxAlerts

Enter(c, to) == pc[c] = "idle" /\ LockFree /\ Room /\ pc' = [pc EXCEPT ![c] = to]
Moves(c, from, to) == pc[c] = from /\ pc' = [pc EXCEPT ![c] = to]

\* A new connector; one that exists keeps the fields modelled here.
Upsert(k) ==
  /\ LockFree /\ ~Known(k)
  /\ status' = [status EXCEPT ![k] = "unknown"]
  /\ UNCHANGED <<policy, stats, circuit, lists, pc, locals>>

UpdatePolicy(k, p) ==
  /\ LockFree /\ Known(k)
  /\ policy' = [policy EXCEPT ![k] = p]
  /\ UNCHANGED <<status, stats, circuit, lists, pc, locals>>

ApplyTemplate(targets, p) ==
  /\ LockFree /\ \A k \in targets : Known(k)
  /\ policy' = [k \in Connector |-> IF k \in targets THEN p ELSE policy[k]]
  /\ UNCHANGED <<status, stats, circuit, lists, pc, locals>>

CreateRule(minimum) ==
  /\ LockFree /\ Len(rules) < MaxRules
  /\ rules' = Append(rules, minimum)
  /\ UNCHANGED <<status, policy, stats, circuit, queue, alerts, events, pc, locals>>

Count(k) ==
  /\ stats[k].total < MaxRequests
  /\ stats' = [stats EXCEPT ![k].total = @ + 1]

\* A failure: under the lock it is counted in total ...
SimulateFailure(c, k) ==
  /\ Enter(c, "failing") /\ Known(k) /\ Count(k)
  /\ Len(queue) < MaxItems
  /\ target' = [target EXCEPT ![c] = k]
  /\ UNCHANGED <<status, policy, circuit, lists, batch, force, view>>

\* The circuit after one more failure.
Failing(k) ==
  LET n == Increment(circuit[k].failures)
  IN [state |-> IF n >= policy[k].threshold THEN "open" ELSE circuit[k].state, failures |-> n]

\* ... then in failed, and the operation is queued for replay.
RecordFailure(c) ==
  LET k == target[c]
      p == policy[k]
  IN /\ Moves(c, "failing", "idle")
     /\ status' = [status EXCEPT ![k] = "degraded"]
     /\ circuit' = [circuit EXCEPT ![k] = Failing(k)]
     /\ stats' = [stats EXCEPT ![k].failed = @ + 1,
                               ![k].enqueued = IF p.replay THEN @ + 1 ELSE @]
     /\ queue' = IF p.replay
                 THEN Append(queue, [connector |-> k, attempts |-> 0, status |-> "pending"])
                 ELSE queue
     /\ RecordAlert(k, Breach(stats'[k].total, stats'[k].failed, "degraded", p))
     /\ target' = [target EXCEPT ![c] = None]
     /\ UNCHANGED <<policy, rules, batch, force, view>>

\* The health check: its result depends on the names alone, which an upsert may
\* change.  Under the lock it sets the status, counts the request ...
HealthCheck(c, k, healthy) ==
  /\ Enter(c, IF healthy THEN "checked" ELSE "checking") /\ Known(k) /\ Count(k)
  /\ status' = [status EXCEPT ![k] = IF healthy THEN "healthy" ELSE "degraded"]
  /\ target' = [target EXCEPT ![c] = k]
  /\ UNCHANGED <<policy, circuit, lists, batch, force, view>>

\* ... and, when degraded, the failure.
CountFailed(c) ==
  /\ Moves(c, "checking", "checked")
  /\ stats' = [stats EXCEPT ![target[c]].failed = @ + 1]
  /\ UNCHANGED <<status, policy, circuit, lists, locals>>

\* Without the lock it then reads, one after the other, the policy ...
ReadPolicy(c) ==
  /\ Moves(c, "checked", "read_policy")
  /\ view' = [view EXCEPT ![c].policy = policy[target[c]]]
  /\ UNCHANGED <<status, policy, stats, circuit, lists, target, batch, force>>

\* ... the requests ...
ReadTotal(c) ==
  /\ Moves(c, "read_policy", "read_total")
  /\ view' = [view EXCEPT ![c].total = stats[target[c]].total]
  /\ UNCHANGED <<status, policy, stats, circuit, lists, target, batch, force>>

\* ... the failures, which make the availability ...
ReadFailed(c) ==
  LET seen == view[c]
  IN /\ Moves(c, "read_total", "read_failed")
     /\ view' = [view EXCEPT ![c] = [policy |-> seen.policy, total |-> 0, breach |->
                   {t \in {"availability"} : Unavailable(seen.total, stats[target[c]].failed, seen.policy)}]]
     /\ UNCHANGED <<status, policy, stats, circuit, lists, target, batch, force>>

\* ... and the status, which makes the latency.
ReadStatus(c) ==
  LET seen == view[c]
  IN /\ Moves(c, "read_failed", "read")
     /\ view' = [view EXCEPT ![c] = [policy |-> None, total |-> 0, breach |->
                   seen.breach \cup {t \in {"latency"} : Slow(status[target[c]], seen.policy)}]]
     /\ UNCHANGED <<status, policy, stats, circuit, lists, target, batch, force>>

\* It takes the lock again to report what it saw.
ReportCheck(c) ==
  /\ LockFree /\ Moves(c, "read", "idle")
  /\ Report(target[c], view[c].breach)
  /\ view' = [view EXCEPT ![c] = BlankView]
  /\ target' = [target EXCEPT ![c] = None]
  /\ UNCHANGED <<status, policy, stats, circuit, queue, rules, batch, force>>

Current(k) == Breach(stats[k].total, stats[k].failed, status[k], policy[k])

\* Reading a connector's reliability reports it too, all under the lock.
GetReliability(k) ==
  /\ LockFree /\ Room /\ Known(k)
  /\ Report(k, Current(k))
  /\ UNCHANGED <<status, policy, stats, circuit, queue, rules, pc, locals>>

\* Mutant of Pending: any item may be replayed.
PendingAny == DOMAIN queue

Pending == {i \in DOMAIN queue : queue[i].status = "pending"}

\* Mutant of GivenUp: one retry too many.
GivenUpLate(k, tries) == tries > policy[k].retries + 1

GivenUp(k, tries) == tries > policy[k].retries

\* Mutant of SnapshotAfter: the snapshot is taken before the replay.
SnapshotBefore(k, s) == Current(k)

\* The snapshot once the replay has set the status.
SnapshotAfter(k, s) == Breach(stats[k].total, stats[k].failed, s, policy[k])

\* process_replay_item_locked and the report that follows it.
ReplayItem(i, forced) ==
  LET k == queue[i].connector
      tries == queue[i].attempts + 1
      success == forced \/ status[k] = "healthy"
      gone == GivenUp(k, tries)
  IN /\ queue' = [queue EXCEPT ![i].attempts = tries,
                    ![i].status = IF success THEN "succeeded" ELSE IF gone THEN "failed" ELSE "pending"]
     /\ status' = [status EXCEPT ![k] = IF success THEN "healthy" ELSE "degraded"]
     /\ stats' = [stats EXCEPT ![k].succeeded = IF success THEN @ + 1 ELSE @,
                               ![k].failures = IF ~success /\ gone THEN @ + 1 ELSE @]
     /\ circuit' = [circuit EXCEPT ![k] =
          IF success THEN [state |-> "closed", failures |-> 0] ELSE Failing(k)]
     /\ Report(k, SnapshotAfter(k, status'[k]))

\* Replay of one item on request.
ReplayOne(i, forced) ==
  /\ LockFree /\ Room /\ i \in Pending
  /\ ReplayItem(i, forced)
  /\ UNCHANGED <<policy, rules, pc, locals>>

\* The replay of the queue takes the pending items that are due, up to its limit ...
ProcessQueue(c, items, forced) ==
  /\ Enter(c, "processing") /\ items # {} /\ items \subseteq Pending
  /\ batch' = [batch EXCEPT ![c] = InOrder(items)]
  /\ force' = [force EXCEPT ![c] = forced]
  /\ UNCHANGED <<status, policy, stats, circuit, lists, target, view>>

\* ... and replays each, except those in a maintenance window.
ProcessItem(c, windowed) ==
  /\ pc[c] = "processing" /\ batch[c] # <<>>
  /\ IF windowed THEN UNCHANGED <<status, stats, circuit, queue, alerts, events>>
                 ELSE ReplayItem(Head(batch[c]), force[c])
  /\ batch' = [batch EXCEPT ![c] = Tail(@)]
  /\ UNCHANGED <<policy, rules, pc, target, force, view>>

ProcessEnd(c) ==
  /\ batch[c] = <<>> /\ Moves(c, "processing", "idle")
  /\ force' = [force EXCEPT ![c] = FALSE]
  /\ UNCHANGED <<status, policy, stats, circuit, lists, target, batch, view>>

\* The open circuits that have cooled down.
Reconcile(cooled) ==
  /\ LockFree /\ \A k \in cooled : circuit[k].state = "open"
  /\ circuit' = [k \in Connector |->
       IF k \in cooled THEN [state |-> "half_open", failures |-> 0] ELSE circuit[k]]
  /\ status' = [k \in Connector |-> IF k \in cooled THEN "degraded" ELSE status[k]]
  /\ UNCHANGED <<policy, stats, lists, pc, locals>>

\* Whatever its status, a resolved event included.
Acknowledge(e) ==
  /\ LockFree
  /\ events' = [events EXCEPT ![e].status = "acknowledged"]
  /\ UNCHANGED <<status, policy, stats, circuit, queue, alerts, rules, pc, locals>>

Recovered(a) == alerts[a].status = "open" /\ Current(alerts[a].connector) = {}

\* Alerts whose connector has recovered are resolved, then the events of every
\* alert that is not open.
AutoResolve ==
  /\ LockFree
  /\ alerts' = [a \in DOMAIN alerts |-> IF Recovered(a) THEN Resolved(alerts[a]) ELSE alerts[a]]
  /\ events' = [e \in DOMAIN events |->
       IF alerts'[events[e].alert].status # "open" THEN Resolved(events[e]) ELSE events[e]]
  /\ UNCHANGED <<status, policy, stats, circuit, queue, rules, pc, locals>>

Next ==
  \/ \E k \in Connector : Upsert(k) \/ GetReliability(k) \/ \E p \in Policies : UpdatePolicy(k, p)
  \/ \E targets \in (SUBSET Connector) \ {{}}, p \in Policies : ApplyTemplate(targets, p)
  \/ \E minimum \in Minimums : CreateRule(minimum)
  \/ \E c \in Calls :
       \/ \E k \in Connector : SimulateFailure(c, k) \/ \E h \in BOOLEAN : HealthCheck(c, k, h)
       \/ RecordFailure(c) \/ CountFailed(c) \/ ReportCheck(c)
       \/ ReadPolicy(c) \/ ReadTotal(c) \/ ReadFailed(c) \/ ReadStatus(c)
       \/ \E items \in SUBSET Pending, forced \in BOOLEAN : ProcessQueue(c, items, forced)
       \/ \E windowed \in BOOLEAN : ProcessItem(c, windowed)
       \/ ProcessEnd(c)
  \/ \E i \in Pending, forced \in BOOLEAN : ReplayOne(i, forced)
  \/ \E cooled \in (SUBSET Connector) \ {{}} : Reconcile(cooled)
  \/ \E e \in DOMAIN events : Acknowledge(e)
  \/ AutoResolve

Spec == Init /\ [][Next]_vars

-----------------------------------------------------------------------------
(* Properties.                                                             *)

\* However health checks, failures and replays interleave, a connector has at
\* most one open alert of a type: its breaches are counted in one place.
OneOpenAlert ==
  \A a, b \in DOMAIN alerts :
    alerts[a].status = "open" /\ alerts[b].status = "open" /\ a # b
      => <<alerts[a].connector, alerts[a].type>> # <<alerts[b].connector, alerts[b].type>>

\* Every sighting of an alert evaluates every rule again, rules added since
\* included; still a rule notifies once per alert, and only when it was reached.
EscalatedOnce ==
  \A a \in DOMAIN alerts, r \in DOMAIN rules :
    LET raised == {e \in DOMAIN events : events[e].alert = a /\ events[e].rule = r}
    IN /\ Cardinality(raised) = (IF r \in alerts[a].escalated THEN 1 ELSE 0)
       /\ raised # {} => rules[r] <= alerts[a].breaches

\* Why the type invariant holds, part by part: one call at a time holds the lock; a call
\* that has yet to count its failure leaves room for it; the items a batch has yet to
\* process are distinct and still pending; a pending item has a try left under some policy.
OneHolder == \A c, d \in Calls : Holds(c) /\ Holds(d) => c = d
CallPlaces ==
  \A c \in Calls :
    /\ pc[c] \notin {"idle", "processing"} => target[c] \in Connector
    /\ pc[c] \in {"failing", "checking"} => stats[target[c]].failed < stats[target[c]].total
    /\ pc[c] \in Reading => view[c].policy \in Policies
BatchesPending ==
  \A c \in Calls : pc[c] = "processing" =>
    /\ \A n \in DOMAIN batch[c] : batch[c][n] \in Pending
    /\ \A m, n \in DOMAIN batch[c] : m < n => batch[c][m] < batch[c][n]
Retriable == \A i \in Pending : \E p \in Policies : queue[i].attempts <= p.retries

\* Why a rule notifies once: what an alert remembers is what was emitted for it.
Remembered ==
  /\ \A e, f \in DOMAIN events :
       events[e].alert = events[f].alert /\ events[e].rule = events[f].rule => e = f
  /\ \A e \in DOMAIN events : events[e].rule \in alerts[events[e].alert].escalated
  /\ \A a \in DOMAIN alerts : \A r \in alerts[a].escalated :
       /\ rules[r] <= alerts[a].breaches
       /\ \E e \in DOMAIN events : events[e].alert = a /\ events[e].rule = r

\* The replay counters agree with the queue: a failure is replayed to one end,
\* by the queue or by hand, and counted there once.
ReplaysAccounted ==
  \A k \in Connector :
    LET InState(s) == Cardinality({i \in DOMAIN queue : queue[i].connector = k /\ queue[i].status = s})
    IN /\ stats[k].succeeded = InState("succeeded")
       /\ stats[k].failures = InState("failed")
       /\ stats[k].enqueued = InState("pending") + InState("succeeded") + InState("failed")

\* An alert that was closed is never taken up again, not even by a health check that
\* reports what it read before: a later breach opens another alert, with all its rules
\* still to notify.  So a rule notifies of an open alert only, and the event of an alert
\* that is still open is never resolved.
ClosedForGood ==
  [][/\ \A a \in DOMAIN alerts : alerts[a].status = "resolved" => alerts'[a] = alerts[a]
     /\ \A e \in DOMAIN events' \ DOMAIN events : alerts'[events'[e].alert].status = "open"
     /\ \A e \in DOMAIN events' : events'[e].status = "resolved" =>
                                     alerts'[events'[e].alert].status = "resolved"]_vars

\* The health check of k reports something other than the state k is in.
Misreports(k) ==
  \E c \in Calls : /\ pc[c] = "read" /\ pc'[c] = "idle" /\ target[c] = k
                  /\ view[c].breach # Current(k)

\* Whenever a call opens, counts, escalates or closes an alert, the alert then tells the
\* state its connector is in: open, and of the type of the target that is missed, or
\* resolved with all others of the connector.  Only a health check may tell another
\* state, and only if the state changed while it read it without the lock.
OnlyChecksMislead ==
  [][\A k \in Connector :
       LET now == Current(k)'
           mine == {a \in DOMAIN alerts' : alerts'[a].connector = k}
       IN \A a \in mine :
            \/ a \in DOMAIN alerts /\ alerts'[a] = alerts[a]
            \/ Misreports(k)
            \/ now # {} /\ alerts'[a].status = "open" /\ alerts'[a].type = AlertType(now)
            \/ now = {} /\ \A b \in mine : alerts'[b].status = "resolved"]_vars
=============================================================================

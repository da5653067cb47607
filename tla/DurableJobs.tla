----------------------------- MODULE DurableJobs -----------------------------
(***************************************************************************)
(* Durable AI generation jobs: the API request that charges a tenant and   *)
(* creates a job, the transactional outbox, the relay that publishes what  *)
(* the API did not, the Celery workers that run the generation, and the    *)
(* in-process runner that stands in for them outside production.           *)
(*                                                                         *)
(* Processes.  The API is one process with one event loop (WEB_CONCURRENCY *)
(* is 1); its handler holds the loop from the balance check to the reply,  *)
(* so requests do not interleave with each other or with the local runner, *)
(* but every database commit and every broker call interleaves with the    *)
(* relays and the workers, which are processes of their own.               *)
(*                                                                         *)
(* Left out: payloads, signatures, timestamps, queue names, priorities and *)
(* JobOutbox.attempts, which only sets how long a failed row backs off (a  *)
(* pending row whose available_at is still to come is in state backoff).   *)
(***************************************************************************)
EXTENDS Integers, FiniteSets

CONSTANTS
  Jobs,           \* job identifiers (new_job_id / uuid4)
  Tenants,        \* tenants that own jobs
  TenantOf,       \* the tenant of each job
  Relays,         \* concurrent executions of publish_pending_ai_jobs
  Workers,        \* Celery worker slots
  Nobody,         \* no job, no message
  Production,     \* ENVIRONMENT = production
  CeleryModes,    \* what _resolve_celery_runtime may tell a request: Celery is present, absent
  Grant,          \* credits each tenant starts with
  Cost,           \* estimated_credits of a job
  ClaimLimit,     \* limit of claim_pending_outbox
  FaultKinds,     \* which faults the instance may suffer
  MaxFaults       \* bound on the number of faults in a behaviour

AllFaults == {"send", "db", "api_crash", "relay_lost", "worker_lost", "kill", "expire"}

ASSUME JobsAssumption ==
  /\ TenantOf \in [Jobs -> Tenants]
  /\ Nobody \notin Jobs
  /\ Production \in BOOLEAN /\ CeleryModes \in SUBSET {"present", "absent"} \ {{}}
  /\ Grant \in Nat /\ Cost \in Nat
  /\ ClaimLimit \in Nat \ {0}
  /\ FaultKinds \subseteq AllFaults
  /\ MaxFaults \in Nat

Status == {"none", "queued", "running", "completed", "failed"}
Terminal == {"completed", "failed"}

\* A broker message; the API sends it with an expiry, the relay without one.
Message == [job : Jobs, from : {"api", "relay"}]
ASSUME NobodyIsNoMessage == Nobody \notin Message

VARIABLES
  exec,      \* job_executions.status of each job
  outbox,    \* the job_outbox row of each job
  api,       \* the generate_content handler: where it is, and for which job
  local,     \* the background task of each job in the API process
  debited,   \* jobs with an ai_generation_reserved entry in the credit ledger
  refunds,   \* number of ai_generation_refund entries of each job
  snapshot,  \* the credit ledger as last flushed to the snapshot store
  queue,     \* messages waiting in the broker, by kind
  run,       \* the message each worker is executing (unacknowledged)
  relay,     \* what each relay execution is doing
  scan,      \* tenants it has still to claim from
  claimed,   \* claimed jobs it has still to settle
  item,      \* the claimed job it is settling
  sentBy,    \* history: who has handed each job to the broker
  outcomes,  \* history: how generations of each job have ended; lost with their message
  faults,    \* number of faults so far
  suffered   \* history: their kinds

ledger == <<debited, refunds>>
apiVars == <<api, local, debited, refunds, snapshot>>
dbVars == <<exec, outbox>>
relayVars == <<relay, scan, claimed, item>>
vars == <<exec, outbox, api, local, debited, refunds, snapshot, queue, run,
          relay, scan, claimed, item, sentBy, outcomes, faults, suffered>>

OutboxRow == {"none", "pending", "backoff", "publishing", "published"}

TypeOK ==
  /\ exec \in [Jobs -> Status]
  /\ outbox \in [Jobs -> OutboxRow]
  /\ api \in [pc : {"idle", "reserved", "created", "sent", "unsent", "undispatched"},
              job : Jobs \cup {Nobody}]
  /\ local \in [Jobs -> {"none", "scheduled", "running", "ok", "bad", "done"}]
  /\ debited \subseteq Jobs
  /\ refunds \in [Jobs -> Nat]
  /\ snapshot \in [debited : SUBSET Jobs, refunds : [Jobs -> Nat]]
  /\ queue \in [Message -> Nat]
  /\ run \in [Workers -> Message \cup {Nobody}]
  /\ relay \in [Relays -> {"idle", "relaying", "sent", "unsent"}]
  /\ scan \in [Relays -> SUBSET Tenants]
  /\ claimed \in [Relays -> SUBSET Jobs]
  /\ item \in [Relays -> Jobs \cup {Nobody}]
  /\ sentBy \in [Jobs -> SUBSET {"api", "relay"}]
  /\ outcomes \in [Jobs -> SUBSET {"ok", "bad", "lost"}]
  /\ faults \in Nat /\ suffered \subseteq AllFaults

Init ==
  /\ exec = [j \in Jobs |-> "none"]
  /\ outbox = [j \in Jobs |-> "none"]
  /\ api = [pc |-> "idle", job |-> Nobody]
  /\ local = [j \in Jobs |-> "none"]
  /\ debited = {}
  /\ refunds = [j \in Jobs |-> 0]
  /\ snapshot = [debited |-> {}, refunds |-> [j \in Jobs |-> 0]]
  /\ queue = [m \in Message |-> 0]
  /\ run = [w \in Workers |-> Nobody]
  /\ relay = [r \in Relays |-> "idle"]
  /\ scan = [r \in Relays |-> {}]
  /\ claimed = [r \in Relays |-> {}]
  /\ item = [r \in Relays |-> Nobody]
  /\ sentBy = [j \in Jobs |-> {}]
  /\ outcomes = [j \in Jobs |-> {}]
  /\ faults = 0 /\ suffered = {}

\* A fault of kind k happens in this step, within the bound.
Fault(k) ==
  /\ k \in FaultKinds /\ faults < MaxFaults
  /\ faults' = faults + 1 /\ suffered' = suffered \cup {k}
NoFault == UNCHANGED <<faults, suffered>>

-----------------------------------------------------------------------------
(* Row operations, each one committed transaction of durable_jobs.         *)

\* Mutant of InsertJob: the execution row is inserted as already running.
InsertJobRunning(j) ==
  /\ exec' = IF exec[j] = "none" THEN [exec EXCEPT ![j] = "running"] ELSE exec
  /\ outbox' = IF exec[j] = "none" THEN [outbox EXCEPT ![j] = "pending"] ELSE outbox

\* create_job: both rows in one transaction, unless the job already exists.
InsertJob(j) ==
  /\ exec' = IF exec[j] = "none" THEN [exec EXCEPT ![j] = "queued"] ELSE exec
  /\ outbox' = IF exec[j] = "none"
               THEN [outbox EXCEPT ![j] = "pending"]
               ELSE outbox

\* update_job: the status is written whatever it was.
SetStatus(j, s) == exec' = [exec EXCEPT ![j] = s]

\* mark_outbox_published: only a pending or publishing row is marked.
MarkPublished(j) ==
  outbox' = IF outbox[j] \in {"pending", "backoff", "publishing"}
            THEN [outbox EXCEPT ![j] = "published"]
            ELSE outbox

\* Mutants of MarkFailed: a claimed row is left as it is; a failed row is retired.
MarkFailedUnlessClaimed(j) ==
  outbox' = IF outbox[j] = "pending" THEN [outbox EXCEPT ![j] = "backoff"] ELSE outbox
MarkFailedForGood(j) == outbox' = [outbox EXCEPT ![j] = "published"]

\* mark_outbox_failed: any row goes back to pending, ready after its backoff.
MarkFailed(j) ==
  outbox' = IF outbox[j] # "none"
            THEN [outbox EXCEPT ![j] = "backoff"]
            ELSE outbox

\* The backoff of a failed row (available_at) passes.
Elapse(j) ==
  /\ outbox[j] = "backoff"
  /\ outbox' = [outbox EXCEPT ![j] = "pending"]
  /\ UNCHANGED <<exec, apiVars, queue, run, relayVars, sentBy, outcomes>> /\ NoFault

\* send_task: the broker has accepted one more message for the job.
Send(j, who) ==
  /\ queue' = [queue EXCEPT ![[job |-> j, from |-> who]] = @ + 1]
  /\ sentBy' = [sentBy EXCEPT ![j] = @ \cup {who}]

-----------------------------------------------------------------------------
(* The API process: generate_content.                                      *)

JobsOf(t) == {j \in Jobs : TenantOf[j] = t}

\* The ai_generation_refund entries of a tenant: the n-th of a job is <<j, n>>.
RefundEntries(r, t) == UNION {{j} \X (1..r[j]) : j \in JobsOf(t)}

\* _credit_balance: the sum of the tenant's entries, in the ledger with the debits d and
\* the refunds r.
BalanceOf(d, r, t) ==
  Grant - Cost * Cardinality(d \cap JobsOf(t)) + Cost * Cardinality(RefundEntries(r, t))
Balance(t) == BalanceOf(debited, refunds, t)

ApiAt(pc, j) == api' = [pc |-> pc, job |-> j]
Reply == api' = [pc |-> "idle", job |-> Nobody]

\* Mutant of Reserve: the balance is not compared with the estimate.
ReserveUnchecked(j) ==
  /\ api.pc = "idle" /\ exec[j] = "none" /\ j \notin debited
  /\ debited' = debited \cup {j} /\ ApiAt("reserved", j)
  /\ UNCHANGED <<dbVars, local, refunds, snapshot, queue, run, relayVars, sentBy, outcomes>>
  /\ NoFault

\* Enough paid credits: reserve the estimate under a fresh job id.
Reserve(j) ==
  /\ api.pc = "idle"
  /\ exec[j] = "none" /\ j \notin debited
  /\ Balance(TenantOf[j]) >= Cost
  /\ debited' = debited \cup {j}
  /\ ApiAt("reserved", j)
  /\ UNCHANGED <<dbVars, local, refunds, snapshot, queue, run, relayVars, sentBy, outcomes>>
  /\ NoFault

\* Mutant of CreateJob: a failed transaction is swallowed.
CreateJobUnchecked ==
  /\ api.pc = "reserved" /\ ApiAt("created", api.job)
  /\ (InsertJob(api.job) /\ NoFault) \/ (Fault("db") /\ UNCHANGED dbVars)
  /\ UNCHANGED <<local, ledger, snapshot, queue, run, relayVars, sentBy, outcomes>>

\* The execution and outbox rows commit; or the transaction fails and the
\* request answers with an error, its reservation standing.
CreateJob ==
  /\ api.pc = "reserved"
  /\ \/ InsertJob(api.job) /\ ApiAt("created", api.job) /\ NoFault
     \/ Fault("db") /\ Reply /\ UNCHANGED dbVars
  /\ UNCHANGED <<local, ledger, snapshot, queue, run, relayVars, sentBy, outcomes>>

\* send_task, when the request is given a Celery application; it may raise.
Dispatch ==
  /\ api.pc = "created"
  /\ \/ /\ "present" \in CeleryModes
        /\ Send(api.job, "api") /\ ApiAt("sent", api.job) /\ NoFault
     \/ /\ "present" \in CeleryModes
        /\ Fault("send") /\ ApiAt("unsent", api.job) /\ UNCHANGED <<queue, sentBy>>
     \/ /\ "absent" \in CeleryModes
        /\ ApiAt("undispatched", api.job) /\ NoFault /\ UNCHANGED <<queue, sentBy>>
  /\ UNCHANGED <<dbVars, local, ledger, snapshot, run, relayVars, outcomes>>

\* Mutant of ApiMarkPublished: a successful dispatch is not recorded as one.
ApiMarkPublishedUnrecorded ==
  /\ api.pc = "sent"
  /\ MarkPublished(api.job) /\ ApiAt("undispatched", api.job) /\ NoFault
  /\ UNCHANGED <<exec, local, ledger, snapshot, queue, run, relayVars, sentBy, outcomes>>

\* mark_outbox_published, inside the same try as the send: when it raises,
\* the handler takes the dispatch for failed.
ApiMarkPublished ==
  /\ api.pc = "sent"
  /\ \/ MarkPublished(api.job) /\ Reply /\ NoFault
     \/ Fault("db") /\ ApiAt("unsent", api.job) /\ UNCHANGED outbox
  /\ UNCHANGED <<exec, local, ledger, snapshot, queue, run, relayVars, sentBy, outcomes>>

\* mark_outbox_failed in the except branch; if it raises the request dies.
ApiMarkFailed ==
  /\ api.pc = "unsent"
  /\ \/ MarkFailed(api.job) /\ ApiAt("undispatched", api.job) /\ NoFault
     \/ Fault("db") /\ Reply /\ UNCHANGED outbox
  /\ UNCHANGED <<exec, local, ledger, snapshot, queue, run, relayVars, sentBy, outcomes>>

\* Production allows no in-process fallback: the job is marked failed.
Reject ==
  /\ api.pc = "undispatched" /\ Production
  /\ \/ SetStatus(api.job, "failed") /\ NoFault
     \/ Fault("db") /\ UNCHANGED exec
  /\ Reply
  /\ UNCHANGED <<outbox, local, ledger, snapshot, queue, run, relayVars, sentBy, outcomes>>

\* Elsewhere the job becomes a background task of the API process.
ScheduleLocal ==
  /\ api.pc = "undispatched" /\ ~Production
  /\ local' = [local EXCEPT ![api.job] = "scheduled"]
  /\ Reply
  /\ UNCHANGED <<dbVars, ledger, snapshot, queue, run, relayVars, sentBy, outcomes>>
  /\ NoFault

-----------------------------------------------------------------------------
(* The in-process runner: _run_local_and_persist around _run_*_job.  Its   *)
(* steps run on the API's event loop, between requests.                    *)

LocalAt(j, from, to) ==
  api.pc = "idle" /\ local[j] = from /\ local' = [local EXCEPT ![j] = to]

LocalStart(j) ==
  /\ \/ LocalAt(j, "scheduled", "running") /\ SetStatus(j, "running") /\ NoFault
     \/ LocalAt(j, "scheduled", "done") /\ Fault("db") /\ UNCHANGED exec
  /\ UNCHANGED <<outbox, api, ledger, snapshot, queue, run, relayVars, sentBy, outcomes>>

\* Mutant of LocalGenerate: a failure refunds nothing.
LocalGenerateUnrefunded(j) ==
  /\ \E o \in {"ok", "bad"} : /\ LocalAt(j, "running", o)
                              /\ outcomes' = [outcomes EXCEPT ![j] = @ \cup {o}]
  /\ UNCHANGED <<dbVars, api, ledger, snapshot, queue, run, relayVars, sentBy>> /\ NoFault

\* The provider answers, or fails or times out, which refunds the reservation.
LocalGenerate(j) ==
  /\ \/ /\ LocalAt(j, "running", "ok")
        /\ outcomes' = [outcomes EXCEPT ![j] = @ \cup {"ok"}]
        /\ UNCHANGED refunds
     \/ /\ LocalAt(j, "running", "bad")
        /\ outcomes' = [outcomes EXCEPT ![j] = @ \cup {"bad"}]
        /\ refunds' = [refunds EXCEPT ![j] = @ + 1]
  /\ UNCHANGED <<dbVars, api, debited, snapshot, queue, run, relayVars, sentBy>> /\ NoFault

\* The final write; when it raises, the except branch writes failed instead,
\* and that may raise too.
LocalPersist(j) ==
  /\ \/ LocalAt(j, "ok", "done") /\ SetStatus(j, "completed") /\ NoFault
     \/ LocalAt(j, "bad", "done") /\ SetStatus(j, "failed") /\ NoFault
     \/ \E from \in {"ok", "bad"} :
          LocalAt(j, from, "done") /\ Fault("db") /\ (SetStatus(j, "failed") \/ UNCHANGED exec)
  /\ UNCHANGED <<outbox, api, ledger, snapshot, queue, run, relayVars, sentBy, outcomes>>

-----------------------------------------------------------------------------
(* The ledger lives in memory: a thread flushes it, a restart restores it. *)

Flush ==
  /\ snapshot' = [debited |-> debited, refunds |-> refunds]
  /\ snapshot' # snapshot
  /\ UNCHANGED <<dbVars, api, local, ledger, queue, run, relayVars, sentBy, outcomes>> /\ NoFault

\* Mutant of ApiCrash: the restart begins with an empty ledger.
ApiCrashUnrestored ==
  /\ Fault("api_crash")
  /\ Reply
  /\ local' = [j \in Jobs |-> IF local[j] = "none" THEN "none" ELSE "done"]
  /\ debited' = {} /\ refunds' = [j \in Jobs |-> 0]
  /\ UNCHANGED <<dbVars, snapshot, queue, run, relayVars, sentBy, outcomes>>

\* The API dies and restarts: its request and background tasks are gone and
\* the ledger is what was last flushed.
ApiCrash ==
  /\ Fault("api_crash")
  /\ Reply
  /\ local' = [j \in Jobs |-> IF local[j] = "none" THEN "none" ELSE "done"]
  /\ debited' = snapshot.debited /\ refunds' = snapshot.refunds
  /\ UNCHANGED <<dbVars, snapshot, queue, run, relayVars, sentBy, outcomes>>

-----------------------------------------------------------------------------
(* Celery workers: _run_ai_task.  Messages are acknowledged late, so a     *)
(* message is the worker's until the task returns or raises.               *)

Consume(m) == queue[m] > 0 /\ queue' = [queue EXCEPT ![m] = @ - 1]
Ack(w) == run' = [run EXCEPT ![w] = Nobody]

\* Mutant of Begin: a job that is already running is taken for a duplicate.
BeginOnce(w, m) ==
  /\ run[w] = Nobody /\ Consume(m)
  /\ IF exec[m.job] \in {"none", "running"}
     THEN UNCHANGED <<exec, run>>
     ELSE SetStatus(m.job, "running") /\ run' = [run EXCEPT ![w] = m]
  /\ UNCHANGED <<outbox, apiVars, relayVars, sentBy, outcomes>> /\ NoFault

\* load_job and the write of running, before the try: if the job is unknown
\* or the database fails the task raises and its message is acknowledged.
Begin(w, m) ==
  /\ run[w] = Nobody /\ Consume(m)
  /\ IF exec[m.job] = "none"
     THEN NoFault /\ UNCHANGED <<exec, run>>
     ELSE \/ SetStatus(m.job, "running") /\ run' = [run EXCEPT ![w] = m] /\ NoFault
          \/ Fault("db") /\ UNCHANGED <<exec, run>>
  /\ UNCHANGED <<outbox, apiVars, relayVars, sentBy, outcomes>>

\* The generation ends with a result; when it cannot be written as completed,
\* the except branch writes failed, and that may raise too: the message of a task
\* that raises is acknowledged all the same.
Succeed(w) ==
  /\ run[w] # Nobody
  /\ \/ SetStatus(run[w].job, "completed") /\ NoFault
     \/ Fault("db") /\ (SetStatus(run[w].job, "failed") \/ UNCHANGED exec)
  /\ outcomes' = [outcomes EXCEPT ![run[w].job] = @ \cup {"ok"}]
  /\ Ack(w)
  /\ UNCHANGED <<outbox, apiVars, queue, relayVars, sentBy>>

\* The provider fails, or the soft time limit raises inside the task.
Fail(w) ==
  /\ run[w] # Nobody
  /\ \/ SetStatus(run[w].job, "failed") /\ NoFault
     \/ Fault("db") /\ (SetStatus(run[w].job, "failed") \/ UNCHANGED exec)
  /\ outcomes' = [outcomes EXCEPT ![run[w].job] = @ \cup {"bad"}]
  /\ Ack(w)
  /\ UNCHANGED <<outbox, apiVars, queue, relayVars, sentBy>>

\* The run dies, nothing is written, and no message is left for another one.
Perish(w) ==
  /\ Ack(w)
  /\ outcomes' = [outcomes EXCEPT ![run[w].job] = @ \cup {"lost"}]
  /\ UNCHANGED <<dbVars, apiVars, queue, relayVars, sentBy>>

\* The task's process is killed, by the hard time limit or by the system: the parent
\* acknowledges the message (task_acks_on_failure_or_timeout, no reject_on_worker_lost).
Kill(w) == run[w] # Nobody /\ Fault("kill") /\ Perish(w)

\* The whole worker dies.  Its message is redelivered after the visibility timeout
\* (7200 s), by when a message of the API has expired (3600 s at most) and is discarded
\* on receipt; a message of the relay never expires and is run again.
WorkerLost(w) ==
  /\ run[w] # Nobody /\ Fault("worker_lost")
  /\ \/ run[w].from = "api" /\ Perish(w)
     \/ /\ run[w].from = "relay"
        /\ queue' = [queue EXCEPT ![run[w]] = @ + 1] /\ Ack(w)
        /\ UNCHANGED <<dbVars, apiVars, relayVars, sentBy, outcomes>>

\* A message that waited for its first worker longer than its expiry is discarded on receipt.
Expire(m) ==
  /\ m.from = "api" /\ Consume(m) /\ Fault("expire")
  /\ UNCHANGED <<dbVars, apiVars, run, relayVars, sentBy, outcomes>>

-----------------------------------------------------------------------------
(* The relay: publish_pending_ai_jobs over claim_pending_outbox, started   *)
(* by beat every thirty seconds; executions may overlap.                   *)

RelayStart(r) ==
  /\ relay[r] = "idle"
  /\ relay' = [relay EXCEPT ![r] = "relaying"]
  /\ scan' = [scan EXCEPT ![r] = Tenants]
  /\ UNCHANGED <<dbVars, apiVars, queue, run, claimed, item, sentBy, outcomes>> /\ NoFault

\* Mutant of Ready: a row in publishing may be claimed again.
ReadyOrPublishing(t) == {j \in JobsOf(t) : outbox[j] \in {"pending", "publishing"}}

Ready(t) == {j \in JobsOf(t) : outbox[j] = "pending"}
Room(r) == ClaimLimit - Cardinality(claimed[r])

\* One tenant's transaction: its ready rows, up to what the limit leaves,
\* are locked (SKIP LOCKED) and become publishing.
ClaimTenant(r, t) ==
  /\ relay[r] = "relaying" /\ t \in scan[r] /\ Room(r) > 0
  /\ \E rows \in SUBSET Ready(t) :
       /\ Cardinality(rows) = Room(r) \/ (rows = Ready(t) /\ Cardinality(rows) < Room(r))
       /\ outbox' = [j \in Jobs |-> IF j \in rows THEN "publishing" ELSE outbox[j]]
       /\ claimed' = [claimed EXCEPT ![r] = @ \cup rows]
  /\ scan' = [scan EXCEPT ![r] = @ \ {t}]
  /\ UNCHANGED <<exec, apiVars, queue, run, relay, item, sentBy, outcomes>> /\ NoFault

ClaimsDone(r) == relay[r] = "relaying" /\ (scan[r] = {} \/ Room(r) <= 0)

\* The next claimed item is sent; send_task may raise.
RelaySend(r, j) ==
  /\ ClaimsDone(r) /\ j \in claimed[r]
  /\ \/ Send(j, "relay") /\ NoFault /\ relay' = [relay EXCEPT ![r] = "sent"]
     \/ /\ Fault("send") /\ UNCHANGED <<queue, sentBy>>
        /\ relay' = [relay EXCEPT ![r] = "unsent"]
  /\ scan' = [scan EXCEPT ![r] = {}]
  /\ item' = [item EXCEPT ![r] = j]
  /\ UNCHANGED <<dbVars, apiVars, run, claimed, outcomes>>

\* On to the next claimed item.
NextItem(r) ==
  /\ relay' = [relay EXCEPT ![r] = "relaying"]
  /\ claimed' = [claimed EXCEPT ![r] = @ \ {item[r]}]
  /\ item' = [item EXCEPT ![r] = Nobody]

RelayMarkPublished(r) ==
  /\ relay[r] = "sent"
  /\ \/ MarkPublished(item[r]) /\ NextItem(r) /\ NoFault
     \/ /\ Fault("db") /\ relay' = [relay EXCEPT ![r] = "unsent"]
        /\ UNCHANGED <<outbox, claimed, item>>
  /\ UNCHANGED <<exec, apiVars, queue, run, scan, sentBy, outcomes>>

RelayMarkFailed(r) ==
  /\ relay[r] = "unsent"
  /\ MarkFailed(item[r]) /\ NextItem(r)
  /\ UNCHANGED <<exec, apiVars, queue, run, scan, sentBy, outcomes>> /\ NoFault

RelayGone(r) ==
  /\ relay' = [relay EXCEPT ![r] = "idle"]
  /\ scan' = [scan EXCEPT ![r] = {}]
  /\ claimed' = [claimed EXCEPT ![r] = {}]
  /\ item' = [item EXCEPT ![r] = Nobody]

RelayEnd(r) ==
  /\ ClaimsDone(r) /\ claimed[r] = {}
  /\ RelayGone(r)
  /\ UNCHANGED <<dbVars, apiVars, queue, run, sentBy, outcomes>> /\ NoFault

\* The execution dies with its claims unsettled: its process is lost, a later
\* tenant's claim raises, or mark_outbox_failed itself raises.
RelayLost(r) ==
  /\ relay[r] # "idle" /\ Fault("relay_lost")
  /\ RelayGone(r)
  /\ UNCHANGED <<dbVars, apiVars, queue, run, sentBy, outcomes>>

-----------------------------------------------------------------------------
ApiStep == CreateJob \/ Dispatch \/ ApiMarkPublished \/ ApiMarkFailed \/ Reject \/ ScheduleLocal
LocalStep(j) == LocalStart(j) \/ LocalGenerate(j) \/ LocalPersist(j)
WorkerStep(w) == (\E m \in Message : Begin(w, m)) \/ Succeed(w) \/ Fail(w)
RelayStep(r) ==
  \/ RelayStart(r)
  \/ \E t \in Tenants : ClaimTenant(r, t)
  \/ \E j \in Jobs : RelaySend(r, j)
  \/ RelayMarkPublished(r) \/ RelayMarkFailed(r) \/ RelayEnd(r)

Next ==
  \/ \E j \in Jobs : Reserve(j) \/ Elapse(j) \/ LocalStep(j)
  \/ ApiStep
  \/ Flush \/ ApiCrash
  \/ \E w \in Workers : WorkerStep(w) \/ Kill(w) \/ WorkerLost(w)
  \/ \E m \in Message : Expire(m)
  \/ \E r \in Relays : RelayStep(r) \/ RelayLost(r)

Spec == Init /\ [][Next]_vars

\* Requests need not arrive and faults need not happen; everything else that
\* has work keeps being scheduled: the event loop, the beat schedule, workers.
Fairness ==
  /\ WF_vars(ApiStep)
  /\ \A j \in Jobs : WF_vars(LocalStep(j)) /\ WF_vars(Elapse(j))
  /\ \A w \in Workers : WF_vars(WorkerStep(w))
  /\ \A r \in Relays : WF_vars(RelayStep(r))

FairSpec == Spec /\ Fairness

-----------------------------------------------------------------------------
(* Properties.                                                             *)

\* A row is published only once the broker has really been given the job:
\* neither mark_outbox_published nor a failed send may retire an unsent row.
PublishedWasSent == \A j \in Jobs : outbox[j] = "published" => sentBy[j] # {}

\* Nothing is delivered, run or claimed for a job whose rows are not committed:
\* workers reload the request from job_executions and would find nothing.
DeliveredIsCommitted ==
  /\ \A m \in Message : queue[m] > 0 => exec[m.job] # "none"
  /\ \A w \in Workers : run[w] # Nobody => exec[run[w].job] # "none"
  /\ \A r \in Relays : \A j \in claimed[r] : outbox[j] # "none"
  /\ \A j \in Jobs : exec[j] = "none" <=> outbox[j] = "none"

\* Why the two properties above hold, part by part.
RowsPaired == \A j \in Jobs : exec[j] = "none" <=> outbox[j] = "none"

ApiPlaces ==
  /\ IF api.pc = "idle" THEN api.job = Nobody ELSE api.job \in Jobs
  /\ api.pc \in {"created", "sent", "unsent", "undispatched"} => exec[api.job] # "none"
  /\ api.pc = "sent" => sentBy[api.job] # {}

RunsWereSent ==
  /\ \A j \in Jobs : sentBy[j] # {} \/ local[j] # "none" => exec[j] # "none"
  /\ \A m \in Message : queue[m] > 0 => sentBy[m.job] # {}
  /\ \A w \in Workers : run[w] # Nobody => sentBy[run[w].job] # {}

RelayPlaces ==
  \A r \in Relays :
    /\ \A j \in claimed[r] : exec[j] # "none"
    /\ relay[r] = "idle" => claimed[r] = {}
    /\ relay[r] \in {"sent", "unsent"} => item[r] \in claimed[r]
    /\ relay[r] = "sent" => sentBy[item[r]] # {}

Bookkeeping == RowsPaired /\ ApiPlaces /\ RunsWereSent /\ RelayPlaces /\ PublishedWasSent

\* Somebody still has to act for the job: the request that created it, a row the
\* relay will find, a relay holding the claim, a message, a worker, or the
\* in-process runner.
Carried(j) ==
  \/ api.job = j
  \/ outbox[j] \in {"pending", "backoff"}
  \/ \E r \in Relays : j \in claimed[r]
  \/ \E m \in Message : m.job = j /\ queue[m] > 0
  \/ \E w \in Workers : run[w] # Nobody /\ run[w].job = j
  \/ local[j] \in {"scheduled", "running", "ok", "bad"}

\* A run of the job has died with its message, and no later one has finished it.
Stranded(j) == exec[j] = "running" /\ "lost" \in outcomes[j]

\* What may cost a job its message: a killed run, or a lost worker that held the API's.
Blamed(j) == "kill" \in suffered \/ ("worker_lost" \in suffered /\ "api" \in sentBy[j])

\* No job is forgotten: while its status says queued or running, somebody carries it or
\* it is running and the one message of that run died with it.  Broker outages and
\* API crashes never leave a job behind, and a lost worker no job the relay alone sent.
Recoverable == Production /\ suffered \subseteq {"send", "api_crash", "worker_lost", "kill"}
NoForgottenJob ==
  Recoverable => \A j \in Jobs :
    /\ exec[j] \in {"queued", "running"} => Carried(j) \/ Stranded(j)
    /\ "lost" \in outcomes[j] => Blamed(j)

\* Why: a job that was sent has a final status, a message or a worker, or is stranded,
\* and a row in publishing is in the hands of a relay.
Landed(j) ==
  \/ exec[j] \in Terminal
  \/ \E m \in Message : m.job = j /\ queue[m] > 0
  \/ \E w \in Workers : run[w] # Nobody /\ run[w].job = j
  \/ Stranded(j)
AllAccounted ==
  \A j \in Jobs :
    /\ local[j] = "none"
    /\ sentBy[j] # {} => Landed(j)
    /\ outbox[j] = "publishing" => \E r \in Relays : j \in claimed[r]
Accounted == Recoverable => AllAccounted

\* Why: whoever a message is from has sent its job, a run has left queued for good, and
\* only a run takes its message along.
Traceable(m) == m.from \in sentBy[m.job]
RunsTraced ==
  /\ \A m \in Message : queue[m] > 0 => Traceable(m)
  /\ \A w \in Workers : run[w] # Nobody => /\ Traceable(run[w])
                                            /\ exec[run[w].job] \notin {"none", "queued"}
  /\ \A j \in Jobs : "lost" \in outcomes[j] => Blamed(j)

\* Two overlapping relay executions never hold the same row, because the claim is one
\* transaction that moves its rows out of pending; only a failed send or mark may take
\* a row back that is claimed.
ClaimsExclusive ==
  suffered \cap {"send", "db"} = {} =>
    \A r, s \in Relays : r # s => claimed[r] \cap claimed[s] = {}

\* Why: short of such failures nobody is about to mark a row failed, and a claimed row
\* has left pending for good.
ClaimsHeld ==
  suffered \cap {"send", "db"} = {} =>
    /\ api.pc # "unsent"
    /\ \A r \in Relays :
         /\ relay[r] # "unsent"
         /\ \A j \in claimed[r] : outbox[j] \in {"publishing", "published"}
         /\ \A s \in Relays : r # s => claimed[r] \cap claimed[s] = {}

\* A final status is earned, unless a transaction fails: completed means some generation
\* succeeded, failed means one failed or production could not hand the job to the broker.
StatusIsEarned ==
  "db" \notin suffered => \A j \in Jobs :
    /\ exec[j] = "completed" => "ok" \in outcomes[j]
    /\ exec[j] = "failed" => "bad" \in outcomes[j] \/ (Production /\ "api" \notin sentBy[j])

\* Why: the in-process runner has recorded the outcome it is about to write, and the API
\* refuses a job only if it has not sent it, and sends it only if it has not refused it.
OutcomesRecorded ==
  "db" \notin suffered =>
    /\ \A j \in Jobs : local[j] \in {"ok", "bad"} => local[j] \in outcomes[j]
    /\ api.pc \in {"reserved", "created", "unsent"} => "api" \notin sentBy[api.job]
    /\ api.pc = "undispatched" /\ Production => "api" \notin sentBy[api.job]
    /\ api.pc = "reserved" => exec[api.job] = "none"
    /\ api.pc = "created" /\ exec[api.job] = "failed" => "bad" \in outcomes[api.job]
Earned == StatusIsEarned /\ OutcomesRecorded

\* The ledger never lets a tenant spend more than its grant nor earn from
\* refunds, across requests, refunds, flushes and restarts from a snapshot.
CreditsConserved ==
  \A t \in Tenants : /\ Balance(t) \in 0 .. Grant
                     /\ \A j \in JobsOf(t) : refunds[j] > 0 => j \in debited

\* Why: the ledger and its snapshot both hold at most one refund for each charge and stay
\* solvent, and what a request or the runner may yet refund is charged and not refunded.
Solvent(d, r) ==
  /\ IsFiniteSet(d)
  /\ \A j \in Jobs : r[j] \in {0, 1} /\ (r[j] = 1 => j \in d)
  /\ \A t \in Tenants : BalanceOf(d, r, t) >= 0
CreditsHeld ==
  /\ Solvent(debited, refunds) /\ Solvent(snapshot.debited, snapshot.refunds)
  /\ \A j \in Jobs : api.job = j \/ local[j] \in {"scheduled", "running"} =>
       j \in debited /\ refunds[j] = 0

\* Where the in-process runner alone has had a job and at worst a send has failed, the
\* settled job is charged exactly when it completed: every failure has given its
\* reservation back once, whichever way the other jobs went.
LocalSettlement ==
  suffered \subseteq {"send"} =>
    \A j \in Jobs :
      sentBy[j] = {} /\ ~Production =>
        /\ exec[j] = "completed" => j \in debited /\ refunds[j] = 0
        /\ exec[j] = "failed" => j \in debited /\ refunds[j] = 1

\* Why: a job is charged from its request on, its request hands it to the runner once,
\* and the runner gives the reservation back just before the job fails.
LocallySettled(j) ==
  /\ exec[j] # "none" \/ api.job = j => j \in debited
  /\ api.job = j => local[j] = "none"
  /\ sentBy[j] = {} =>
       /\ refunds[j] = IF local[j] = "bad" \/ exec[j] = "failed" THEN 1 ELSE 0
       /\ local[j] \in {"none", "scheduled"} => exec[j] \in {"none", "queued"}
       /\ local[j] \in {"running", "ok", "bad"} => exec[j] = "running"
       /\ local[j] = "done" => exec[j] \in Terminal
RunnerSettles ==
  suffered \subseteq {"send"} /\ ~Production => \A j \in Jobs : LocallySettled(j)

\* The ledger is what a snapshot promises of its entries, the charges and the refunds: whatever
\* requests, the runner and the flush do between them, nothing but a restart takes an entry
\* away, it takes only what was never flushed, and charges and refunds come back together.
Entries(d, r) == (d \X {0}) \cup UNION {{j} \X (1 .. r[j]) : j \in Jobs}
LedgerSnapshot == INSTANCE Snapshotting WITH
  current <- Entries(debited, refunds), kept <- Entries(snapshot.debited, snapshot.refunds)
ImplementsSnapshot == LedgerSnapshot!Spec

\* Why: the last flush saw no more than the ledger holds.
LedgerKept ==
  snapshot.debited \subseteq debited /\ \A j \in Jobs : snapshot.refunds[j] <= refunds[j]

\* Every committed job reaches a final status and keeps it, unless a run of it dies with
\* its message.
Settles == \A j \in Jobs :
  (exec[j] = "queued") ~> ([](exec[j] \in Terminal) \/ "lost" \in outcomes[j])

\* Every committed job is handed to the broker by the API or by the relay.
EveryJobIsSent == \A j \in Jobs : (exec[j] # "none") ~> (sentBy[j] # {})

\* The design implements the lifecycle: launched is what the broker or the
\* in-process runner has been given.
Launched == {j \in Jobs : sentBy[j] # {} \/ local[j] # "none"}
Lifecycle == INSTANCE JobLifecycle WITH state <- exec, launched <- Launched
ImplementsLifecycle == Lifecycle!Spec
ImplementsFairLifecycle == Lifecycle!FairSpec
=============================================================================

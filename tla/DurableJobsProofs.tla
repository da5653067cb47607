-------------------------- MODULE DurableJobsProofs --------------------------
(***************************************************************************)
(* Proofs about DurableJobs for every set of jobs, tenants, relays and     *)
(* workers, every mode, and every bound on the faults.                     *)
(***************************************************************************)
EXTENDS DurableJobs, FiniteSetTheorems, TLAPS

\* Every step keeps the variables in their types, whatever the instance.
THEOREM TypeCorrect == Spec => []TypeOK
<1>1. Init => TypeOK
  BY JobsAssumption DEF Init, TypeOK, Status, OutboxRow
<1>2. TypeOK /\ [Next]_vars => TypeOK'
  <2> SUFFICES ASSUME TypeOK, [Next]_vars PROVE TypeOK'
    OBVIOUS
  <2> USE JobsAssumption DEF TypeOK, Status, OutboxRow, ApiAt, Reply, Fault, NoFault,
                             apiVars, dbVars, ledger, relayVars
  <2>1. ASSUME NEW j \in Jobs, Reserve(j) PROVE TypeOK'
    BY <2>1 DEF Reserve
  <2>2. ASSUME NEW j \in Jobs, Elapse(j) PROVE TypeOK'
    BY <2>2 DEF Elapse
  <2>3. ASSUME NEW j \in Jobs, LocalStart(j) PROVE TypeOK'
    BY <2>3 DEF LocalStart, LocalAt, SetStatus
  <2>4. ASSUME NEW j \in Jobs, LocalGenerate(j) PROVE TypeOK'
    BY <2>4 DEF LocalGenerate, LocalAt
  <2>5. ASSUME NEW j \in Jobs, LocalPersist(j) PROVE TypeOK'
    BY <2>5 DEF LocalPersist, LocalAt, SetStatus
  <2>6. CASE CreateJob
    BY <2>6 DEF CreateJob, InsertJob
  <2>7. CASE Dispatch
    <3>1. queue' \in [Message -> Nat] /\ sentBy' \in [Jobs -> SUBSET {"api", "relay"}]
      BY <2>7 DEF Dispatch, Send
    <3>2. QED
      BY <2>7, <3>1 DEF Dispatch
  <2>8. CASE ApiMarkPublished
    BY <2>8 DEF ApiMarkPublished, MarkPublished
  <2>9. CASE ApiMarkFailed
    BY <2>9 DEF ApiMarkFailed, MarkFailed
  <2>10. CASE Reject
    BY <2>10 DEF Reject, SetStatus
  <2>11. CASE ScheduleLocal
    BY <2>11 DEF ScheduleLocal
  <2>12. CASE Flush
    BY <2>12 DEF Flush
  <2>13. CASE ApiCrash
    BY <2>13 DEF ApiCrash
  <2>14. ASSUME NEW w \in Workers, NEW m \in Message, Begin(w, m) PROVE TypeOK'
    <3>1. queue' \in [Message -> Nat] /\ exec' \in [Jobs -> Status]
      BY <2>14 DEF Begin, Consume, SetStatus
    <3>2. QED
      BY <2>14, <3>1 DEF Begin
  <2>15. ASSUME NEW w \in Workers, Succeed(w) PROVE TypeOK'
    <3>1. exec' \in [Jobs -> Status] /\ run' \in [Workers -> Message \cup {Nobody}]
      BY <2>15 DEF Succeed, SetStatus, Ack
    <3>2. outcomes' \in [Jobs -> SUBSET {"ok", "bad", "lost"}]
      BY <2>15 DEF Succeed
    <3>3. QED
      BY <2>15, <3>1, <3>2 DEF Succeed
  <2>16. ASSUME NEW w \in Workers, Fail(w) PROVE TypeOK'
    <3>1. exec' \in [Jobs -> Status] /\ run' \in [Workers -> Message \cup {Nobody}]
      BY <2>16 DEF Fail, SetStatus, Ack
    <3>2. outcomes' \in [Jobs -> SUBSET {"ok", "bad", "lost"}]
      BY <2>16 DEF Fail
    <3>3. QED
      BY <2>16, <3>1, <3>2 DEF Fail
  <2>17. ASSUME NEW w \in Workers, Kill(w) PROVE TypeOK'
    <3>1. Perish(w)
      BY <2>17 DEF Kill
    <3>2. outcomes' \in [Jobs -> SUBSET {"ok", "bad", "lost"}]
      BY <3>1 DEF Perish
    <3>3. QED
      BY <2>17, <3>1, <3>2 DEF Kill, Perish, Ack
  <2>18. ASSUME NEW w \in Workers, WorkerLost(w) PROVE TypeOK'
    <3>1. CASE Perish(w)
      <4>1. outcomes' \in [Jobs -> SUBSET {"ok", "bad", "lost"}]
        BY <3>1 DEF Perish
      <4>2. QED
        BY <2>18, <3>1, <4>1 DEF WorkerLost, Perish, Ack
    <3>2. CASE ~Perish(w)
      BY <2>18, <3>2 DEF WorkerLost, Ack
    <3>3. QED
      BY <3>1, <3>2
  <2>19. ASSUME NEW m \in Message, Expire(m) PROVE TypeOK'
    BY <2>19 DEF Expire, Consume
  <2>20. ASSUME NEW r \in Relays, RelayStart(r) PROVE TypeOK'
    BY <2>20 DEF RelayStart
  <2>21. ASSUME NEW r \in Relays, NEW t \in Tenants, ClaimTenant(r, t) PROVE TypeOK'
    BY <2>21 DEF ClaimTenant, Ready, JobsOf
  <2>22. ASSUME NEW r \in Relays, NEW j \in Jobs, RelaySend(r, j) PROVE TypeOK'
    <3>1. queue' \in [Message -> Nat] /\ sentBy' \in [Jobs -> SUBSET {"api", "relay"}]
      BY <2>22 DEF RelaySend, Send
    <3>2. QED
      BY <2>22, <3>1 DEF RelaySend
  <2>23. ASSUME NEW r \in Relays, RelayMarkPublished(r) PROVE TypeOK'
    <3>1. outbox' \in [Jobs -> OutboxRow]
      BY <2>23 DEF RelayMarkPublished, MarkPublished
    <3>2. /\ relay' \in [Relays -> {"idle", "relaying", "sent", "unsent"}]
          /\ claimed' \in [Relays -> SUBSET Jobs] /\ item' \in [Relays -> Jobs \cup {Nobody}]
      BY <2>23 DEF RelayMarkPublished, NextItem
    <3>3. QED
      BY <2>23, <3>1, <3>2 DEF RelayMarkPublished
  <2>24. ASSUME NEW r \in Relays, RelayMarkFailed(r) PROVE TypeOK'
    BY <2>24 DEF RelayMarkFailed, MarkFailed, NextItem
  <2>25. ASSUME NEW r \in Relays, RelayEnd(r) PROVE TypeOK'
    BY <2>25 DEF RelayEnd, RelayGone
  <2>26. ASSUME NEW r \in Relays, RelayLost(r) PROVE TypeOK'
    BY <2>26 DEF RelayLost, RelayGone
  <2>27. CASE UNCHANGED vars
    BY <2>27 DEF vars
  <2>28. QED
    BY <2>1, <2>2, <2>3, <2>4, <2>5, <2>6, <2>7, <2>8, <2>9, <2>10, <2>11, <2>12, <2>13,
       <2>14, <2>15, <2>16, <2>17, <2>18, <2>19, <2>20, <2>21, <2>22, <2>23, <2>24, <2>25,
       <2>26, <2>27
       DEF Next, ApiStep, LocalStep, WorkerStep, RelayStep
<1>3. QED
  BY <1>1, <1>2, PTL DEF Spec

\* One accepted message touches one job, and records who sent it.
LEMMA SendFacts ==
  ASSUME TypeOK, NEW j \in Jobs, NEW who \in {"api", "relay"}, Send(j, who)
  PROVE  /\ sentBy'[j] # {}
         /\ \A i \in Jobs : i # j => sentBy'[i] = sentBy[i]
         /\ \A m \in Message : queue'[m] > 0 => queue[m] > 0 \/ m.job = j
<1>1. sentBy'[j] # {} /\ \A i \in Jobs : i # j => sentBy'[i] = sentBy[i]
  BY DEF TypeOK, Send
<1>2. ASSUME NEW m \in Message, queue'[m] > 0, m.job # j PROVE queue[m] > 0
  BY <1>2 DEF TypeOK, Send
<1>3. QED
  BY <1>1, <1>2

\* The in-process runner writes the status of its own job only, and makes nothing new.
LEMMA LocalKeeps ==
  ASSUME TypeOK, RunsWereSent, NEW j \in Jobs, LocalStep(j)
  PROVE  /\ \A i \in Jobs : /\ exec'[i] = "none" <=> exec[i] = "none"
                            /\ local'[i] = "none" <=> local[i] = "none"
         /\ UNCHANGED <<outbox, api, queue, run, relayVars, sentBy>>
<1>1. local[j] # "none" /\ exec[j] # "none"
  BY DEF LocalStep, LocalStart, LocalGenerate, LocalPersist, LocalAt, RunsWereSent
<1>2. PICK to \in {"running", "ok", "bad", "done"} : local' = [local EXCEPT ![j] = to]
  BY DEF LocalStep, LocalStart, LocalGenerate, LocalPersist, LocalAt
<1>3. UNCHANGED exec \/ \E st \in {"running", "completed", "failed"} : exec' = [exec EXCEPT ![j] = st]
  BY DEF LocalStep, LocalStart, LocalGenerate, LocalPersist, LocalAt, SetStatus, dbVars
<1>4. UNCHANGED <<outbox, api, queue, run, relayVars, sentBy>>
  BY DEF LocalStep, LocalStart, LocalGenerate, LocalPersist, LocalAt, SetStatus, dbVars
<1>5. \A i \in Jobs : local'[i] = "none" <=> local[i] = "none"
  BY <1>1, <1>2 DEF TypeOK
<1>6. \A i \in Jobs : exec'[i] = "none" <=> exec[i] = "none"
  BY <1>1, <1>3 DEF TypeOK
<1>7. QED
  BY <1>4, <1>5, <1>6

\* Marking the row of a job that was sent keeps the rows paired and the marks true.
LEMMA MarkingSent ==
  ASSUME TypeOK, RowsPaired, PublishedWasSent, NEW j \in Jobs, sentBy[j] # {}, MarkPublished(j),
         UNCHANGED <<exec, sentBy>>
  PROVE  RowsPaired' /\ PublishedWasSent'
<1>1. \A i \in Jobs : /\ outbox'[i] = "none" <=> outbox[i] = "none"
                      /\ outbox'[i] = "published" => outbox[i] = "published" \/ i = j
  BY DEF TypeOK, MarkPublished
<1>2. QED
  BY <1>1 DEF RowsPaired, PublishedWasSent

\* The rows are paired, and nothing is sent, run, claimed or retired before its
\* time: each part of the bookkeeping survives every step, faults included.
THEOREM BookkeepingCorrect == Spec => []Bookkeeping
<1>1. Init => Bookkeeping
  BY DEF Init, Bookkeeping, RowsPaired, ApiPlaces, RunsWereSent, RelayPlaces, PublishedWasSent
<1>2. TypeOK /\ Bookkeeping /\ [Next]_vars => Bookkeeping'
  <2> SUFFICES ASSUME TypeOK, Bookkeeping, [Next]_vars PROVE Bookkeeping'
    OBVIOUS
  <2> USE JobsAssumption, NobodyIsNoMessage
      DEF TypeOK, Status, OutboxRow, ApiAt, Reply, Fault, NoFault, apiVars, dbVars, ledger,
          relayVars, Bookkeeping, RowsPaired, ApiPlaces, RunsWereSent, RelayPlaces,
          PublishedWasSent
  <2>1. ASSUME NEW j \in Jobs, Reserve(j) PROVE Bookkeeping'
    BY <2>1 DEF Reserve
  <2>2. ASSUME NEW j \in Jobs, Elapse(j) PROVE Bookkeeping'
    BY <2>2 DEF Elapse
  <2>3. ASSUME NEW j \in Jobs, LocalStep(j) PROVE Bookkeeping'
    <3>1. /\ \A i \in Jobs : /\ exec'[i] = "none" <=> exec[i] = "none"
                             /\ local'[i] = "none" <=> local[i] = "none"
          /\ UNCHANGED <<outbox, api, queue, run, relayVars, sentBy>>
      BY <2>3, LocalKeeps
    <3>2. RowsPaired' /\ PublishedWasSent'
      BY <3>1
    <3>3. RunsWereSent'
      BY <3>1
    <3>4. ApiPlaces' /\ RelayPlaces'
      BY <3>1
    <3>5. QED
      BY <3>2, <3>3, <3>4
  <2>6. CASE CreateJob
    <3>1. api.job \in Jobs /\ UNCHANGED <<local, queue, run, relayVars, sentBy>>
      BY <2>6 DEF CreateJob
    <3>2. CASE InsertJob(api.job) /\ ApiAt("created", api.job)
      <4>1. exec'[api.job] # "none" /\ (\A j \in Jobs : exec[j] # "none" => exec'[j] # "none")
        BY <3>1, <3>2 DEF InsertJob
      <4>2. \A j \in Jobs : outbox'[j] = "published" => outbox[j] = "published"
        BY <3>1, <3>2 DEF InsertJob
      <4>3. RowsPaired'
        BY <3>1, <3>2 DEF InsertJob
      <4>4. ApiPlaces'
        BY <3>1, <3>2, <4>1
      <4>5. RunsWereSent' /\ RelayPlaces' /\ PublishedWasSent'
        BY <3>1, <4>1, <4>2
      <4>6. QED
        BY <4>3, <4>4, <4>5
    <3>3. CASE UNCHANGED dbVars /\ Reply
      BY <3>1, <3>3
    <3>4. QED
      BY <2>6, <3>2, <3>3 DEF CreateJob
  <2>7. CASE Dispatch
    <3> DEFINE job == api.job
    <3>1. job \in Jobs /\ exec[job] # "none"
      BY <2>7 DEF Dispatch
    <3>2. CASE Send(job, "api") /\ ApiAt("sent", job)
      <4>1. /\ sentBy'[job] # {} /\ \A i \in Jobs : i # job => sentBy'[i] = sentBy[i]
            /\ \A m \in Message : queue'[m] > 0 => queue[m] > 0 \/ m.job = job
        BY <3>1, <3>2, SendFacts
      <4>2. RunsWereSent'
        <5>1. UNCHANGED <<exec, local, run>>
          BY <2>7 DEF Dispatch
        <5>2. \A i \in Jobs : sentBy[i] # {} => sentBy'[i] # {}
          BY <4>1
        <5>3. \A i \in Jobs : sentBy'[i] # {} \/ local[i] # "none" => exec[i] # "none"
          BY <3>1, <4>1
        <5>4. \A m \in Message : queue'[m] > 0 => sentBy'[m.job] # {}
          BY <4>1, <5>2 DEF Message
        <5>5. ASSUME NEW w \in Workers, run[w] # Nobody PROVE sentBy'[run[w].job] # {}
          <6>1. run[w] \in Message /\ run[w].job \in Jobs
            BY <5>5 DEF Message
          <6>2. QED
            BY <5>2, <5>5, <6>1
        <5>6. QED
          BY <5>1, <5>3, <5>4, <5>5
      <4>3. RelayPlaces' /\ RowsPaired' /\ PublishedWasSent'
        <5>1. UNCHANGED <<exec, outbox, relayVars>>
          BY <2>7 DEF Dispatch
        <5>2. \A i \in Jobs : sentBy[i] # {} => sentBy'[i] # {}
          BY <4>1
        <5>3. RowsPaired' /\ PublishedWasSent'
          BY <5>1, <5>2
        <5>4. RelayPlaces'
          BY <5>1, <5>2
        <5>5. QED
          BY <5>3, <5>4
      <4>4. ApiPlaces'
        BY <2>7, <3>1, <3>2, <4>1 DEF Dispatch
      <4>5. QED
        BY <4>2, <4>3, <4>4
    <3>3. CASE UNCHANGED <<queue, sentBy>> /\ api'.pc \in {"unsent", "undispatched"}
      <4>1. UNCHANGED <<exec, outbox, local, run, relayVars, queue, sentBy>>
        BY <2>7, <3>3 DEF Dispatch
      <4>2. api'.job = job
        BY <2>7 DEF Dispatch
      <4>3. ApiPlaces'
        BY <3>1, <3>3, <4>1, <4>2
      <4>4. QED
        BY <4>1, <4>3
    <3>4. \/ Send(job, "api") /\ ApiAt("sent", job)
          \/ UNCHANGED <<queue, sentBy>> /\ api'.pc \in {"unsent", "undispatched"}
      BY <2>7 DEF Dispatch
    <3>5. QED
      BY <3>2, <3>3, <3>4
  <2>8. CASE ApiMarkPublished
    <3>1. UNCHANGED <<exec, local, queue, run, relayVars, sentBy>> /\ api.pc = "sent"
      BY <2>8 DEF ApiMarkPublished
    <3>2. \/ api' = [pc |-> "idle", job |-> Nobody] /\ MarkPublished(api.job)
          \/ api' = [pc |-> "unsent", job |-> api.job] /\ UNCHANGED outbox
      BY <2>8 DEF ApiMarkPublished
    <3>3. api.job \in Jobs /\ sentBy[api.job] # {}
      BY <3>1
    <3>4. RowsPaired' /\ PublishedWasSent'
      <4>1. CASE MarkPublished(api.job)
        BY <3>1, <3>3, <4>1, MarkingSent
      <4>2. CASE UNCHANGED outbox
        BY <3>1, <4>2
      <4>3. QED
        BY <3>2, <4>1, <4>2
    <3>5. ApiPlaces'
      BY <3>1, <3>2
    <3>6. RunsWereSent'
      BY <3>1
    <3>7. RelayPlaces'
      BY <3>1
    <3>8. QED
      BY <3>4, <3>5, <3>6, <3>7
  <2>9. CASE ApiMarkFailed
    BY <2>9 DEF ApiMarkFailed, MarkFailed
  <2>10. CASE Reject
    BY <2>10 DEF Reject, SetStatus
  <2>11. CASE ScheduleLocal
    BY <2>11 DEF ScheduleLocal
  <2>12. CASE Flush
    BY <2>12 DEF Flush
  <2>13. CASE ApiCrash
    BY <2>13 DEF ApiCrash
  <2>14. ASSUME NEW w \in Workers, NEW m \in Message, Begin(w, m) PROVE Bookkeeping'
    BY <2>14 DEF Begin, Consume, SetStatus, Message
  <2>15. ASSUME NEW w \in Workers, Succeed(w) PROVE Bookkeeping'
    BY <2>15 DEF Succeed, SetStatus, Ack, Message
  <2>16. ASSUME NEW w \in Workers, Fail(w) PROVE Bookkeeping'
    BY <2>16 DEF Fail, SetStatus, Ack, Message
  <2>17. ASSUME NEW w \in Workers, Kill(w) PROVE Bookkeeping'
    <3>1. \A v \in Workers : run'[v] # Nobody => run'[v] = run[v]
      BY <2>17 DEF Kill, Perish, Ack
    <3>2. RunsWereSent'
      BY <2>17, <3>1 DEF Kill, Perish
    <3>3. QED
      BY <2>17, <3>2 DEF Kill, Perish
  <2>18. ASSUME NEW w \in Workers, WorkerLost(w) PROVE Bookkeeping'
    <3>1. \A v \in Workers : run'[v] # Nobody => run'[v] = run[v]
      BY <2>18 DEF WorkerLost, Perish, Ack
    <3>2. \A m \in Message : queue'[m] > 0 => sentBy[m.job] # {}
      BY <2>18 DEF WorkerLost, Perish
    <3>3. /\ relay' = relay /\ claimed' = claimed /\ item' = item
          /\ UNCHANGED <<exec, outbox, api, local, sentBy>>
      BY <2>18 DEF WorkerLost, Perish
    <3>4. RunsWereSent'
      BY <3>1, <3>2, <3>3
    <3>5. QED
      BY <3>3, <3>4
  <2>19. ASSUME NEW m \in Message, Expire(m) PROVE Bookkeeping'
    BY <2>19 DEF Expire, Consume
  <2>20. ASSUME NEW r \in Relays, RelayStart(r) PROVE Bookkeeping'
    BY <2>20 DEF RelayStart
  <2>21. ASSUME NEW r \in Relays, NEW t \in Tenants, ClaimTenant(r, t) PROVE Bookkeeping'
    <3>1. PICK rows \in SUBSET Ready(t) :
            /\ outbox' = [j \in Jobs |-> IF j \in rows THEN "publishing" ELSE outbox[j]]
            /\ claimed' = [claimed EXCEPT ![r] = @ \cup rows]
      BY <2>21 DEF ClaimTenant
    <3>2. \A j \in rows : j \in Jobs /\ outbox[j] = "pending"
      BY DEF Ready, JobsOf
    <3>3. /\ relay[r] = "relaying"
          /\ UNCHANGED <<exec, api, local, queue, run, relay, item, sentBy>>
      BY <2>21 DEF ClaimTenant
    <3>4. RowsPaired' /\ PublishedWasSent'
      BY <3>1, <3>2, <3>3
    <3>5. RelayPlaces'
      BY <3>1, <3>2, <3>3
    <3>6. ApiPlaces' /\ RunsWereSent'
      BY <3>3
    <3>7. QED
      BY <3>4, <3>5, <3>6
  <2>22. ASSUME NEW r \in Relays, NEW j \in Jobs, RelaySend(r, j) PROVE Bookkeeping'
    <3>1. exec[j] # "none"
      BY <2>22 DEF RelaySend
    <3>2. CASE Send(j, "relay") /\ relay' = [relay EXCEPT ![r] = "sent"]
      <4>1. /\ sentBy'[j] # {} /\ \A i \in Jobs : i # j => sentBy'[i] = sentBy[i]
            /\ \A m \in Message : queue'[m] > 0 => queue[m] > 0 \/ m.job = j
        BY <3>1, <3>2, SendFacts
      <4>2. RunsWereSent'
        <5>1. UNCHANGED <<exec, local, run>>
          BY <2>22 DEF RelaySend
        <5>2. \A i \in Jobs : sentBy[i] # {} => sentBy'[i] # {}
          BY <4>1
        <5>3. \A i \in Jobs : sentBy'[i] # {} \/ local[i] # "none" => exec[i] # "none"
          BY <3>1, <4>1
        <5>4. \A m \in Message : queue'[m] > 0 => sentBy'[m.job] # {}
          BY <4>1, <5>2 DEF Message
        <5>5. ASSUME NEW w \in Workers, run[w] # Nobody PROVE sentBy'[run[w].job] # {}
          <6>1. run[w] \in Message /\ run[w].job \in Jobs
            BY <5>5 DEF Message
          <6>2. QED
            BY <5>2, <5>5, <6>1
        <5>6. QED
          BY <5>1, <5>3, <5>4, <5>5
      <4>3. RelayPlaces'
        BY <2>22, <3>2, <4>1 DEF RelaySend, ClaimsDone
      <4>4. ApiPlaces' /\ RowsPaired' /\ PublishedWasSent'
        BY <2>22, <4>1 DEF RelaySend
      <4>5. QED
        BY <4>2, <4>3, <4>4
    <3>3. CASE UNCHANGED <<queue, sentBy>> /\ relay' = [relay EXCEPT ![r] = "unsent"]
      <4>1. UNCHANGED <<exec, outbox, api, local, queue, run, sentBy, claimed>> /\ j \in claimed[r]
        BY <2>22, <3>3 DEF RelaySend
      <4>2. RelayPlaces'
        BY <2>22, <3>1, <3>3, <4>1 DEF RelaySend, ClaimsDone
      <4>3. QED
        BY <4>1, <4>2
    <3>4. QED
      BY <2>22, <3>2, <3>3 DEF RelaySend
  <2>23. ASSUME NEW r \in Relays, RelayMarkPublished(r) PROVE Bookkeeping'
    <3>1. RowsPaired' /\ PublishedWasSent'
      BY <2>23 DEF RelayMarkPublished, MarkPublished
    <3>2. RelayPlaces'
      BY <2>23 DEF RelayMarkPublished, NextItem
    <3>3. ApiPlaces' /\ RunsWereSent'
      BY <2>23 DEF RelayMarkPublished
    <3>4. QED
      BY <3>1, <3>2, <3>3
  <2>24. ASSUME NEW r \in Relays, RelayMarkFailed(r) PROVE Bookkeeping'
    <3>1. RowsPaired' /\ PublishedWasSent'
      BY <2>24 DEF RelayMarkFailed, MarkFailed
    <3>2. RelayPlaces'
      BY <2>24 DEF RelayMarkFailed, NextItem
    <3>3. ApiPlaces' /\ RunsWereSent'
      BY <2>24 DEF RelayMarkFailed
    <3>4. QED
      BY <3>1, <3>2, <3>3
  <2>25. ASSUME NEW r \in Relays, RelayEnd(r) PROVE Bookkeeping'
    BY <2>25 DEF RelayEnd, RelayGone
  <2>26. ASSUME NEW r \in Relays, RelayLost(r) PROVE Bookkeeping'
    BY <2>26 DEF RelayLost, RelayGone
  <2>27. CASE UNCHANGED vars
    BY <2>27 DEF vars
  <2>28. QED
    BY <2>1, <2>2, <2>3, <2>6, <2>7, <2>8, <2>9, <2>10, <2>11, <2>12, <2>13, <2>14, <2>15, <2>16,
       <2>17, <2>18, <2>19, <2>20, <2>21, <2>22, <2>23, <2>24, <2>25, <2>26, <2>27
       DEF Next, ApiStep, WorkerStep, RelayStep
<1>3. QED
  BY <1>1, <1>2, TypeCorrect, PTL DEF Spec

\* A row is marked published only after the broker has accepted the job.
THEOREM PublishedRowsWereSent == Spec => []PublishedWasSent
<1>1. Bookkeeping => PublishedWasSent
  BY DEF Bookkeeping
<1>2. QED
  BY <1>1, BookkeepingCorrect, PTL

\* No message, run or claim is ever about a job whose rows are not committed.
THEOREM DeliveriesAreCommitted == Spec => []DeliveredIsCommitted
<1>1. TypeOK /\ Bookkeeping => DeliveredIsCommitted
  <2> SUFFICES ASSUME TypeOK, Bookkeeping PROVE DeliveredIsCommitted
    OBVIOUS
  <2> USE DEF TypeOK, Bookkeeping, RowsPaired, RunsWereSent, RelayPlaces
  <2>1. \A m \in Message : queue[m] > 0 => exec[m.job] # "none"
    BY DEF Message
  <2>2. ASSUME NEW w \in Workers, run[w] # Nobody PROVE exec[run[w].job] # "none"
    <3>1. run[w].job \in Jobs
      BY <2>2 DEF Message
    <3>2. QED
      BY <2>2, <3>1
  <2>3. \A r \in Relays : \A j \in claimed[r] : outbox[j] # "none"
    OBVIOUS
  <2>4. QED
    BY <2>1, <2>2, <2>3 DEF DeliveredIsCommitted
<1>2. QED
  BY <1>1, TypeCorrect, BookkeepingCorrect, PTL

-----------------------------------------------------------------------------
(* No job is forgotten, in production, by outages, crashes of the API and  *)
(* lost workers.                                                           *)

\* Faults are never unsuffered.
LEMMA SufferedGrows == [Next]_vars => suffered \subseteq suffered'
<1> SUFFICES ASSUME [Next]_vars PROVE suffered \subseteq suffered'
  OBVIOUS
<1> USE DEF Fault, NoFault
<1>1. CASE ApiStep \/ Flush \/ ApiCrash
  BY <1>1 DEF ApiStep, CreateJob, Dispatch, ApiMarkPublished, ApiMarkFailed, Reject, ScheduleLocal,
              Flush, ApiCrash
<1>2. ASSUME NEW j \in Jobs, Reserve(j) \/ Elapse(j) \/ LocalStep(j)
      PROVE  suffered \subseteq suffered'
  BY <1>2 DEF Reserve, Elapse, LocalStep, LocalStart, LocalGenerate, LocalPersist
<1>3. ASSUME NEW w \in Workers, WorkerStep(w) \/ Kill(w) \/ WorkerLost(w)
      PROVE  suffered \subseteq suffered'
  BY <1>3 DEF WorkerStep, Begin, Succeed, Fail, Kill, Perish, WorkerLost
<1>4. ASSUME NEW m \in Message, Expire(m) PROVE suffered \subseteq suffered'
  BY <1>4 DEF Expire
<1>5. ASSUME NEW r \in Relays, RelayStep(r) \/ RelayLost(r) PROVE suffered \subseteq suffered'
  BY <1>5 DEF RelayStep, RelayStart, ClaimTenant, RelaySend, RelayMarkPublished, RelayMarkFailed,
              RelayEnd, RelayLost
<1>6. CASE UNCHANGED vars
  BY <1>6 DEF vars
<1>7. QED
  BY <1>1, <1>2, <1>3, <1>4, <1>5, <1>6 DEF Next

\* A step that takes neither a message nor a worker from a job, and does not
\* reopen its status, leaves the job landed.
LEMMA LandedStays ==
  ASSUME NEW j \in Jobs, Landed(j),
         exec'[j] = exec[j] \/ exec'[j] \in Terminal,
         \A m \in Message : m.job = j /\ queue[m] > 0 => queue'[m] > 0,
         \A w \in Workers : run[w] # Nobody /\ run[w].job = j => run'[w] = run[w],
         outcomes[j] \subseteq outcomes'[j]
  PROVE  Landed(j)'
BY DEF Landed, Stranded, Terminal

\* Accepting one more message for a job keeps the accounts.
LEMMA SendLands ==
  ASSUME TypeOK, TypeOK', AllAccounted, NEW j \in Jobs, NEW who \in {"api", "relay"}, Send(j, who),
         UNCHANGED <<exec, outbox, run, claimed, local, outcomes>>
  PROVE  AllAccounted'
<1> DEFINE msg == [job |-> j, from |-> who]
<1>1. msg \in Message /\ msg.job = j /\ queue'[msg] > 0
  <2>1. msg \in Message /\ msg.job = j
    BY DEF Message
  <2>2. queue' = [queue EXCEPT ![msg] = queue[msg] + 1]
    BY DEF Send
  <2> HIDE DEF msg
  <2>3. QED
    BY <2>1, <2>2 DEF TypeOK
<1>2. \A m \in Message : queue[m] > 0 => queue'[m] > 0
  BY DEF TypeOK, Send
<1>3. ASSUME NEW i \in Jobs, sentBy'[i] # {} PROVE Landed(i)'
  <2>1. CASE i = j
    BY <1>1, <2>1 DEF Landed, Stranded
  <2>2. CASE i # j
    <3>1. sentBy[i] # {}
      BY <1>3, <2>2, SendFacts
    <3>2. Landed(i)
      BY <3>1 DEF AllAccounted
    <3>3. QED
      BY <1>2, <3>2, LandedStays
  <2>3. QED
    BY <2>1, <2>2
<1>4. QED
  BY <1>3 DEF AllAccounted

\* Messages and runs can be traced to whoever sent them, and a lost run to its fault.
THEOREM RunsTracedCorrect == Spec => []RunsTraced
<1>1. Init => RunsTraced
  BY DEF Init, RunsTraced
<1>2. TypeOK /\ Bookkeeping /\ RunsTraced /\ [Next]_vars => RunsTraced'
  <2> SUFFICES ASSUME TypeOK, Bookkeeping, RunsTraced, [Next]_vars PROVE RunsTraced'
    OBVIOUS
  <2> DEFINE Sent == \A j \in Jobs : sentBy[j] \subseteq sentBy'[j]
             Queued == \A m \in Message : queue'[m] > 0 => m.from \in sentBy'[m.job]
             Runs == \A w \in Workers : run'[w] # Nobody =>
                       \/ run'[w] = run[w]
                       \/ /\ run'[w] \in Message /\ queue[run'[w]] > 0
                          /\ exec'[run'[w].job] = "running"
             Started == \A j \in Jobs : exec[j] \notin {"none", "queued"} =>
                          exec'[j] \notin {"none", "queued"}
             Losses == \A j \in Jobs : "lost" \in outcomes'[j] => Blamed(j)'
  <2>1. Sent /\ Queued /\ Runs /\ Started /\ Losses => RunsTraced'
    <3> SUFFICES ASSUME Sent, Queued, Runs, Started, Losses, NEW w \in Workers, run'[w] # Nobody
                 PROVE  Traceable(run[w])' /\ exec'[run'[w].job] \notin {"none", "queued"}
      BY DEF RunsTraced, Traceable
    <3>1. run'[w] = run[w] \/ (run'[w] \in Message /\ queue[run'[w]] > 0 /\ exec'[run'[w].job] = "running")
      OBVIOUS
    <3>2. CASE run'[w] = run[w]
      <4>1. run[w] \in Message /\ run[w].job \in Jobs
        BY <3>2 DEF TypeOK, Message
      <4>2. QED
        BY <3>2, <4>1 DEF RunsTraced, Traceable
    <3>3. CASE run'[w] \in Message /\ queue[run'[w]] > 0 /\ exec'[run'[w].job] = "running"
      <4>1. run'[w].job \in Jobs
        BY <3>3 DEF Message
      <4>2. QED
        BY <3>3, <4>1 DEF RunsTraced, Traceable
    <3>4. QED
      BY <3>1, <3>2, <3>3
  <2> DEFINE Idle == UNCHANGED <<sentBy, queue, run>>
  <2>2. Idle => Sent /\ Queued /\ Runs
    BY DEF RunsTraced, Traceable
  <2>3. \A j \in Jobs : sentBy[j] \subseteq sentBy'[j] /\ Blamed(j) => Blamed(j)'
    BY SufferedGrows DEF Blamed
  <2>4. Sent /\ (\A j \in Jobs : "lost" \in outcomes'[j] => "lost" \in outcomes[j]) => Losses
    BY <2>3 DEF RunsTraced
  <2>5. ASSUME NEW j \in Jobs, NEW s \in Status, s \notin {"none", "queued"},
               exec' = [exec EXCEPT ![j] = s]
        PROVE  Started
    BY <2>5 DEF TypeOK
  <2>6. UNCHANGED exec => Started
    OBVIOUS
  <2>7. \A w \in Workers : run[w] # Nobody => run[w] \in Message /\ run[w].job \in Jobs
                                          /\ run[w].from \in sentBy[run[w].job]
    BY DEF TypeOK, Message, RunsTraced, Traceable
  <2> HIDE DEF Sent, Queued, Runs, Started, Losses, Idle
  <2>8. Sent /\ Queued /\ Runs /\ Started /\ UNCHANGED outcomes => RunsTraced'
    BY <2>1, <2>4
  <2>9. UNCHANGED <<exec, outcomes>> /\ Idle => RunsTraced'
    BY <2>2, <2>6, <2>8
  <2> USE DEF apiVars, dbVars, ledger, relayVars
  <2>10. ASSUME NEW j \in Jobs, Reserve(j) \/ Elapse(j) PROVE RunsTraced'
    BY <2>9, <2>10 DEF Reserve, Elapse, Idle
  <2>11. ASSUME NEW j \in Jobs, LocalStart(j) \/ LocalPersist(j) PROVE RunsTraced'
    <3>1. Idle /\ UNCHANGED outcomes
      BY <2>11 DEF LocalStart, LocalPersist, Idle
    <3>2. UNCHANGED exec \/ exec' = [exec EXCEPT ![j] = "running"]
          \/ exec' = [exec EXCEPT ![j] = "completed"] \/ exec' = [exec EXCEPT ![j] = "failed"]
      BY <2>11 DEF LocalStart, LocalPersist, SetStatus
    <3>3. Started
      BY <2>5, <2>6, <3>2 DEF Status
    <3>4. QED
      BY <2>2, <2>8, <3>1, <3>3
  <2>12. ASSUME NEW j \in Jobs, LocalGenerate(j) PROVE RunsTraced'
    <3>1. UNCHANGED exec /\ Idle
      BY <2>12 DEF LocalGenerate, Idle
    <3>2. PICK o \in {"ok", "bad"} : outcomes' = [outcomes EXCEPT ![j] = @ \cup {o}]
      BY <2>12 DEF LocalGenerate
    <3>3. \A i \in Jobs : "lost" \in outcomes'[i] => "lost" \in outcomes[i]
      BY <3>2 DEF TypeOK
    <3>4. QED
      BY <2>1, <2>2, <2>4, <2>6, <3>1, <3>3
  <2>13. CASE CreateJob
    <3>1. Idle /\ UNCHANGED outcomes
      BY <2>13 DEF CreateJob, Idle
    <3>2. InsertJob(api.job) \/ UNCHANGED exec
      BY <2>13 DEF CreateJob
    <3>3. Started
      BY <3>2, <2>6 DEF InsertJob, TypeOK, Started
    <3>4. QED
      BY <2>2, <2>8, <3>1, <3>3
  <2>14. ASSUME NEW j \in Jobs, NEW who \in {"api", "relay"}, Send(j, who),
                UNCHANGED <<exec, run, outcomes>>
         PROVE  RunsTraced'
    <3>1. Sent
      BY <2>14 DEF Send, TypeOK, Sent
    <3>2. ASSUME NEW m \in Message, queue'[m] > 0 PROVE m.from \in sentBy'[m.job]
      <4>1. m.job \in Jobs /\ m.from \in {"api", "relay"}
        BY DEF Message
      <4>2. CASE m = [job |-> j, from |-> who]
        <5>1. m.job = j /\ m.from = who
          BY <4>2
        <5>2. who \in sentBy'[j]
          BY <2>14 DEF Send, TypeOK
        <5>3. QED
          BY <5>1, <5>2
      <4>3. CASE m # [job |-> j, from |-> who]
        <5>1. queue[m] > 0
          BY <2>14, <3>2, <4>3 DEF Send, TypeOK
        <5>2. m.from \in sentBy[m.job]
          BY <5>1 DEF RunsTraced, Traceable
        <5>3. QED
          BY <3>1, <4>1, <5>2 DEF Sent
      <4>4. QED
        BY <4>2, <4>3
    <3>3. Queued /\ Runs
      BY <2>14, <3>2 DEF Queued, Runs
    <3>4. QED
      BY <2>6, <2>8, <2>14, <3>1, <3>3
  <2>15. CASE Dispatch
    <3>1. api.job \in Jobs /\ UNCHANGED <<exec, run, outcomes>>
      BY <2>15 DEF Dispatch, Bookkeeping, ApiPlaces
    <3>2. Send(api.job, "api") \/ UNCHANGED <<queue, sentBy>>
      BY <2>15 DEF Dispatch
    <3>3. QED
      BY <2>9, <2>14, <3>1, <3>2 DEF Idle
  <2>16. CASE ApiMarkPublished \/ ApiMarkFailed \/ ScheduleLocal \/ Flush \/ ApiCrash
    BY <2>9, <2>16 DEF ApiMarkPublished, ApiMarkFailed, ScheduleLocal, Flush, ApiCrash, Idle
  <2>17. CASE Reject
    <3>1. Idle /\ UNCHANGED outcomes /\ api.job \in Jobs
      BY <2>17 DEF Reject, Idle, Bookkeeping, ApiPlaces
    <3>2. UNCHANGED exec \/ exec' = [exec EXCEPT ![api.job] = "failed"]
      BY <2>17 DEF Reject, SetStatus
    <3>3. Started
      BY <2>5, <2>6, <3>1, <3>2 DEF Status
    <3>4. QED
      BY <2>2, <2>8, <3>1, <3>3
  <2>18. ASSUME NEW w \in Workers, NEW m \in Message, Begin(w, m) PROVE RunsTraced'
    <3>1. UNCHANGED <<sentBy, outcomes>> /\ m.job \in Jobs /\ queue[m] > 0
      BY <2>18 DEF Begin, Consume, Message
    <3>2. Sent
      BY <3>1 DEF Sent
    <3>3. \A n \in Message : queue'[n] > 0 => queue[n] > 0
      BY <2>18 DEF Begin, Consume, TypeOK
    <3>4. Queued
      BY <3>1, <3>3 DEF Queued, RunsTraced, Traceable
    <3>5. UNCHANGED <<exec, run>> \/ (exec' = [exec EXCEPT ![m.job] = "running"] /\ run' = [run EXCEPT ![w] = m])
      BY <2>18 DEF Begin, SetStatus
    <3>6. Started
      BY <2>5, <2>6, <3>1, <3>5 DEF Status
    <3>7. Runs
      BY <3>1, <3>5 DEF Runs, TypeOK
    <3>8. QED
      BY <2>8, <3>1, <3>2, <3>4, <3>6, <3>7
  <2>19. ASSUME NEW w \in Workers, Succeed(w) \/ Fail(w) PROVE RunsTraced'
    <3>1. UNCHANGED <<sentBy, queue>> /\ run' = [run EXCEPT ![w] = Nobody] /\ run[w] # Nobody
      BY <2>19 DEF Succeed, Fail, Ack
    <3>2. Sent /\ Queued /\ Runs
      BY <3>1 DEF Sent, Queued, Runs, RunsTraced, Traceable, TypeOK
    <3>3. run[w].job \in Jobs
      BY <2>7, <3>1
    <3>4. UNCHANGED exec \/ exec' = [exec EXCEPT ![run[w].job] = "completed"]
          \/ exec' = [exec EXCEPT ![run[w].job] = "failed"]
      BY <2>19 DEF Succeed, Fail, SetStatus
    <3>5. Started
      BY <2>5, <2>6, <3>3, <3>4 DEF Status
    <3>6. PICK o \in {"ok", "bad"} : outcomes' = [outcomes EXCEPT ![run[w].job] = @ \cup {o}]
      BY <2>19 DEF Succeed, Fail
    <3>7. \A i \in Jobs : "lost" \in outcomes'[i] => "lost" \in outcomes[i]
      BY <3>6 DEF TypeOK
    <3>8. QED
      BY <2>1, <2>4, <3>2, <3>5, <3>7
  <2>20. ASSUME NEW w \in Workers, Kill(w) \/ WorkerLost(w) PROVE RunsTraced'
    <3>1. /\ UNCHANGED <<exec, sentBy>> /\ run' = [run EXCEPT ![w] = Nobody] /\ run[w] # Nobody
          /\ queue' = queue \/ queue' = [queue EXCEPT ![run[w]] = @ + 1]
      BY <2>20 DEF Kill, WorkerLost, Perish, Ack
    <3>2. run[w] \in Message /\ run[w].job \in Jobs /\ run[w].from \in sentBy[run[w].job]
      BY <2>7, <3>1
    <3>3. Sent /\ Started
      BY <2>6, <3>1 DEF Sent
    <3>4. \A m \in Message : queue'[m] > 0 => queue[m] > 0 \/ m = run[w]
      BY <3>1, <3>2 DEF TypeOK
    <3>5. Queued
      BY <3>1, <3>2, <3>4 DEF Queued, RunsTraced, Traceable
    <3>6. Runs
      BY <3>1 DEF Runs, TypeOK
    <3>7. ASSUME NEW j \in Jobs, "lost" \in outcomes'[j] PROVE Blamed(j)'
      <4>1. CASE "lost" \in outcomes[j]
        BY <2>3, <3>3, <4>1 DEF Sent, RunsTraced
      <4>2. CASE "lost" \notin outcomes[j]
        <5>1. Perish(w)
          BY <2>20, <3>7, <4>2 DEF Kill, WorkerLost
        <5>2. j = run[w].job
          BY <3>7, <4>2, <5>1 DEF Perish, TypeOK
        <5>3. "kill" \in suffered' \/ ("worker_lost" \in suffered' /\ run[w].from = "api")
          BY <2>20, <4>2, <3>7 DEF Kill, WorkerLost, Fault
        <5>4. QED
          BY <3>1, <3>2, <5>2, <5>3 DEF Blamed
      <4>3. QED
        BY <4>1, <4>2
    <3>8. QED
      BY <2>1, <3>3, <3>5, <3>6, <3>7 DEF Losses
  <2>21. ASSUME NEW m \in Message, Expire(m) PROVE RunsTraced'
    <3>1. UNCHANGED <<exec, run, sentBy, outcomes>>
      BY <2>21 DEF Expire
    <3>2. \A n \in Message : queue'[n] > 0 => queue[n] > 0
      BY <2>21 DEF Expire, Consume, TypeOK
    <3>3. Sent /\ Queued /\ Runs
      BY <3>1, <3>2 DEF Sent, Queued, Runs, RunsTraced, Traceable
    <3>4. QED
      BY <2>6, <2>8, <3>1, <3>3
  <2>22. ASSUME NEW r \in Relays, NEW j \in Jobs, RelaySend(r, j) PROVE RunsTraced'
    <3>1. UNCHANGED <<exec, run, outcomes>> /\ (Send(j, "relay") \/ UNCHANGED <<queue, sentBy>>)
      BY <2>22 DEF RelaySend
    <3>2. QED
      BY <2>9, <2>14, <3>1 DEF Idle
  <2>23. ASSUME NEW r \in Relays,
                \/ RelayStart(r) \/ \E t \in Tenants : ClaimTenant(r, t)
                \/ RelayMarkPublished(r) \/ RelayMarkFailed(r) \/ RelayEnd(r) \/ RelayLost(r)
         PROVE  RunsTraced'
    BY <2>9, <2>23 DEF RelayStart, ClaimTenant, RelayMarkPublished, RelayMarkFailed, RelayEnd,
                       RelayLost, Idle
  <2>24. CASE UNCHANGED vars
    BY <2>9, <2>24 DEF vars, Idle
  <2>25. QED
    BY <2>10, <2>11, <2>12, <2>13, <2>15, <2>16, <2>17, <2>18, <2>19, <2>20, <2>21, <2>22, <2>23, <2>24
       DEF Next, ApiStep, LocalStep, WorkerStep, RelayStep
<1>3. QED
  BY <1>1, <1>2, TypeCorrect, BookkeepingCorrect, PTL DEF Spec

\* In production a sent job is landed, and a publishing row is held by a relay.
THEOREM JobsAccounted == Spec => []Accounted
<1>1. Init => Accounted
  BY DEF Init, Accounted, AllAccounted
<1>2. TypeOK /\ TypeOK' /\ Bookkeeping /\ RunsTraced /\ Accounted /\ [Next]_vars => Accounted'
  <2> SUFFICES ASSUME TypeOK, TypeOK', Bookkeeping, RunsTraced, AllAccounted, [Next]_vars, Recoverable'
               PROVE  AllAccounted'
    BY SufferedGrows DEF Accounted, Recoverable
  <2> USE DEF TypeOK, ApiAt, Reply, Fault, NoFault, apiVars, dbVars, ledger, relayVars,
              AllAccounted, Recoverable
  <2>1. ASSUME NEW j \in Jobs, Reserve(j) PROVE AllAccounted'
    BY <2>1 DEF Reserve, Landed, Stranded
  <2>2. ASSUME NEW j \in Jobs, Elapse(j) PROVE AllAccounted'
    BY <2>2 DEF Elapse, Landed, Stranded
  <2>3. ASSUME NEW j \in Jobs, LocalStart(j) PROVE AllAccounted'
    BY <2>3 DEF LocalStart, LocalAt, SetStatus, Landed, Stranded
  <2>4. ASSUME NEW j \in Jobs, LocalGenerate(j) PROVE AllAccounted'
    BY <2>4 DEF LocalGenerate, LocalAt, Landed, Stranded
  <2>5. ASSUME NEW j \in Jobs, LocalPersist(j) PROVE AllAccounted'
    BY <2>5 DEF LocalPersist, LocalAt, SetStatus, Landed, Stranded
  <2>6. CASE CreateJob
    <3> SUFFICES ASSUME NEW j \in Jobs, sentBy[j] # {} PROVE Landed(j)'
      BY <2>6 DEF CreateJob, InsertJob
    <3>1. exec'[j] = exec[j] /\ UNCHANGED <<queue, run, outcomes>>
      BY <2>6 DEF CreateJob, InsertJob, Bookkeeping, RunsWereSent
    <3>2. QED
      BY <3>1, LandedStays
  <2>7. CASE Dispatch
    <3>1. api.job \in Jobs
      BY <2>7 DEF Dispatch, Bookkeeping, ApiPlaces
    <3>2. UNCHANGED <<exec, outbox, run, claimed, local, outcomes>>
      BY <2>7 DEF Dispatch
    <3>3. CASE Send(api.job, "api")
      BY <3>1, <3>2, <3>3, SendLands
    <3>4. CASE UNCHANGED <<queue, sentBy>>
      BY <3>2, <3>4 DEF Landed, Stranded
    <3>5. QED
      BY <2>7, <3>3, <3>4 DEF Dispatch
  <2>8. CASE ApiMarkPublished
    BY <2>8 DEF ApiMarkPublished, MarkPublished, Landed, Stranded, Bookkeeping, ApiPlaces
  <2>9. CASE ApiMarkFailed
    BY <2>9 DEF ApiMarkFailed, MarkFailed, Landed, Stranded, Bookkeeping, ApiPlaces
  <2>10. CASE Reject
    BY <2>10 DEF Reject, SetStatus, Landed, Stranded, Terminal, Bookkeeping, ApiPlaces
  <2>11. CASE ScheduleLocal
    BY <2>11 DEF ScheduleLocal, Landed, Stranded, Bookkeeping, ApiPlaces
  <2>12. CASE Flush
    BY <2>12 DEF Flush, Landed, Stranded
  <2>13. CASE ApiCrash
    BY <2>13 DEF ApiCrash, Landed, Stranded
  <2>14. ASSUME NEW w \in Workers, NEW m \in Message, Begin(w, m) PROVE AllAccounted'
    <3> SUFFICES ASSUME NEW j \in Jobs, sentBy[j] # {} PROVE Landed(j)'
      BY <2>14 DEF Begin
    <3>1. queue[m] > 0 /\ m.job \in Jobs /\ exec[m.job] # "none"
      BY <2>14 DEF Begin, Consume, Message, Bookkeeping, RunsWereSent
    <3>2. exec' = [exec EXCEPT ![m.job] = "running"] /\ run' = [run EXCEPT ![w] = m]
      <4>1. ~Fault("db")
        OBVIOUS
      <4>2. QED
        BY <2>14, <3>1, <4>1 DEF Begin, SetStatus
    <3>3. CASE j = m.job
      <4>1. run'[w] = m /\ m # Nobody
        BY <3>2, NobodyIsNoMessage
      <4>2. QED
        BY <3>3, <4>1 DEF Landed, Stranded
    <3>4. CASE j # m.job
      <4>1. exec'[j] = exec[j]
        BY <3>2, <3>4
      <4>2. \A n \in Message : n.job = j /\ queue[n] > 0 => queue'[n] > 0
        BY <2>14, <3>4 DEF Begin, Consume
      <4>3. \A v \in Workers : run[v] # Nobody /\ run[v].job = j => run'[v] = run[v]
        BY <2>14, <3>2 DEF Begin
      <4>4. UNCHANGED outcomes
        BY <2>14 DEF Begin
      <4>5. QED
        BY <4>1, <4>2, <4>3, <4>4, LandedStays
    <3>5. QED
      BY <3>3, <3>4
  <2>15. ASSUME NEW w \in Workers, Succeed(w) PROVE AllAccounted'
    BY <2>15 DEF Succeed, SetStatus, Ack, Message, Landed, Stranded, Terminal, Bookkeeping, RunsWereSent
  <2>16. ASSUME NEW w \in Workers, Fail(w) PROVE AllAccounted'
    BY <2>16 DEF Fail, SetStatus, Ack, Message, Landed, Stranded, Terminal, Bookkeeping, RunsWereSent
  <2>17. ASSUME NEW w \in Workers, Perish(w), run[w] # Nobody PROVE AllAccounted'
    <3> SUFFICES ASSUME NEW j \in Jobs, sentBy[j] # {} PROVE Landed(j)'
      BY <2>17 DEF Perish
    <3>1. run[w] \in Message /\ run[w].job \in Jobs /\ UNCHANGED <<exec, queue>>
      BY <2>17 DEF Perish, Message
    <3>2. outcomes' = [outcomes EXCEPT ![run[w].job] = @ \cup {"lost"}]
      BY <2>17 DEF Perish
    <3>3. CASE j = run[w].job
      <4>1. "lost" \in outcomes'[j]
        BY <3>1, <3>2, <3>3
      <4>2. exec[j] \notin {"none", "queued"}
        BY <2>17, <3>3 DEF RunsTraced
      <4>3. QED
        BY <3>1, <4>1, <4>2 DEF Landed, Stranded, Status, Terminal
    <3>4. CASE j # run[w].job
      <4>1. \A v \in Workers : run[v] # Nobody /\ run[v].job = j => run'[v] = run[v]
        BY <2>17, <3>4 DEF Perish, Ack
      <4>2. outcomes'[j] = outcomes[j]
        BY <3>2, <3>4
      <4>3. QED
        BY <3>1, <4>1, <4>2, LandedStays
    <3>5. QED
      BY <3>3, <3>4
  <2>18. ASSUME NEW w \in Workers, Kill(w) \/ WorkerLost(w) PROVE AllAccounted'
    <3> SUFFICES ASSUME ~Perish(w) PROVE AllAccounted'
      BY <2>17, <2>18 DEF Kill, WorkerLost
    <3> SUFFICES ASSUME NEW j \in Jobs, sentBy[j] # {} PROVE Landed(j)'
      BY <2>18 DEF Kill, WorkerLost
    <3>1. run[w] \in Message /\ UNCHANGED <<exec, outcomes>>
      BY <2>18 DEF Kill, WorkerLost
    <3>2. queue' = [queue EXCEPT ![run[w]] = @ + 1] /\ Ack(w)
      BY <2>18 DEF Kill, WorkerLost
    <3>3. \A n \in Message : queue[n] > 0 => queue'[n] > 0
      BY <3>1, <3>2
    <3>4. CASE j = run[w].job
      <4>1. queue'[run[w]] > 0
        BY <3>1, <3>2
      <4>2. QED
        BY <3>1, <3>4, <4>1 DEF Landed
    <3>5. CASE j # run[w].job
      <4>1. \A v \in Workers : run[v] # Nobody /\ run[v].job = j => run'[v] = run[v]
        BY <3>2, <3>5 DEF Ack
      <4>2. QED
        BY <3>1, <3>3, <4>1, LandedStays
    <3>6. QED
      BY <3>4, <3>5
  <2>19. ASSUME NEW m \in Message, Expire(m) PROVE AllAccounted'
    BY <2>19 DEF Expire, Consume, Landed, Stranded
  <2>20. ASSUME NEW r \in Relays, RelayStart(r) PROVE AllAccounted'
    BY <2>20 DEF RelayStart, Landed, Stranded
  <2>21. ASSUME NEW r \in Relays, NEW t \in Tenants, ClaimTenant(r, t) PROVE AllAccounted'
    BY <2>21 DEF ClaimTenant, Ready, JobsOf, Landed, Stranded
  <2>22. ASSUME NEW r \in Relays, NEW j \in Jobs, RelaySend(r, j) PROVE AllAccounted'
    <3>1. UNCHANGED <<exec, outbox, run, claimed, local, outcomes>>
      BY <2>22 DEF RelaySend
    <3>2. CASE Send(j, "relay")
      BY <3>1, <3>2, SendLands
    <3>3. CASE UNCHANGED <<queue, sentBy>>
      BY <3>1, <3>3 DEF Landed, Stranded
    <3>4. QED
      BY <2>22, <3>2, <3>3 DEF RelaySend
  <2>23. ASSUME NEW r \in Relays, RelayMarkPublished(r) PROVE AllAccounted'
    <3>1. UNCHANGED <<exec, local, queue, run, sentBy, outcomes>>
      BY <2>23 DEF RelayMarkPublished
    <3>2. ASSUME NEW j \in Jobs, outbox'[j] = "publishing" PROVE \E s \in Relays : j \in claimed'[s]
      <4>1. MarkPublished(item[r]) /\ NextItem(r)
        BY <2>23 DEF RelayMarkPublished
      <4>2. j # item[r] /\ outbox[j] = "publishing"
        BY <3>2, <4>1 DEF MarkPublished
      <4>3. QED
        BY <4>1, <4>2 DEF NextItem
    <3>3. QED
      BY <3>1, <3>2 DEF Landed, Stranded
  <2>24. ASSUME NEW r \in Relays, RelayMarkFailed(r) PROVE AllAccounted'
    BY <2>24 DEF RelayMarkFailed, MarkFailed, NextItem, Landed, Stranded, Bookkeeping, RelayPlaces
  <2>25. ASSUME NEW r \in Relays, RelayEnd(r) PROVE AllAccounted'
    BY <2>25 DEF RelayEnd, RelayGone, Landed, Stranded, Bookkeeping, RelayPlaces
  <2>26. ASSUME NEW r \in Relays, RelayLost(r) PROVE AllAccounted'
    BY <2>26 DEF RelayLost, RelayGone, Landed, Stranded
  <2>27. CASE UNCHANGED vars
    BY <2>27 DEF vars, Landed, Stranded
  <2>28. QED
    BY <2>1, <2>2, <2>3, <2>4, <2>5, <2>6, <2>7, <2>8, <2>9, <2>10, <2>11, <2>12, <2>13, <2>14, <2>15, <2>16, <2>17, <2>18, <2>19, <2>20, <2>21, <2>22, <2>23, <2>24, <2>25, <2>26, <2>27
       DEF Next, ApiStep, LocalStep, WorkerStep, RelayStep
<1>3. QED
  BY <1>1, <1>2, TypeCorrect, BookkeepingCorrect, RunsTracedCorrect, PTL DEF Spec

\* A queued or running job always has somebody left to act for it, or it is running and has
\* lost its message with its run, to a killed process or to a lost worker the API had sent it.
THEOREM JobsNotForgotten == Spec => []NoForgottenJob
<1>1. TypeOK /\ Bookkeeping /\ RunsTraced /\ Accounted => NoForgottenJob
  <2> SUFFICES ASSUME TypeOK, Bookkeeping, AllAccounted, NEW j \in Jobs,
                      exec[j] \in {"queued", "running"}
               PROVE  Carried(j) \/ Stranded(j)
    BY DEF NoForgottenJob, Accounted, RunsTraced
  <2>1. outbox[j] \in {"pending", "backoff", "publishing", "published"}
    BY DEF Bookkeeping, RowsPaired, TypeOK, OutboxRow
  <2>2. CASE outbox[j] \in {"pending", "backoff"}
    BY <2>2 DEF Carried
  <2>3. CASE outbox[j] = "publishing"
    BY <2>3 DEF Carried, AllAccounted
  <2>4. CASE outbox[j] = "published"
    <3>1. Landed(j)
      BY <2>4 DEF AllAccounted, Bookkeeping, PublishedWasSent
    <3>2. QED
      BY <3>1 DEF Carried, Landed, Terminal
  <2>5. QED
    BY <2>1, <2>2, <2>3, <2>4
<1>2. QED
  BY <1>1, TypeCorrect, BookkeepingCorrect, RunsTracedCorrect, JobsAccounted, PTL

-----------------------------------------------------------------------------
(* The design implements the job lifecycle, in every mode and with every   *)
(* fault.                                                                  *)

\* Handing a committed job over launches it, or finds it launched.
LEMMA SendLaunches ==
  ASSUME TypeOK, Bookkeeping, NEW j \in Jobs, NEW who \in {"api", "relay"},
         Send(j, who), exec[j] # "none", UNCHANGED <<exec, local>>
  PROVE  Lifecycle!Launch(j) \/ UNCHANGED <<exec, Launched>>
<1>1. Launched' = Launched \cup {j}
  BY SendFacts DEF Launched
<1>2. QED
  BY <1>1 DEF Lifecycle!Launch

\* Writing a status of a job somebody was given to run is progress.
LEMMA WriteProgresses ==
  ASSUME NEW j \in Jobs, NEW s \in {"running", "completed", "failed"}, j \in Launched,
         SetStatus(j, s), Launched' = Launched
  PROVE  Lifecycle!Progress(j, s)
BY DEF SetStatus, Lifecycle!Progress

\* Every behaviour of the API, relays, workers and local runner is a behaviour of
\* the lifecycle: jobs never vanish and nobody runs one that was not launched.
THEOREM LifecycleImplemented == Spec => ImplementsLifecycle
<1>1. Init => Lifecycle!Init
  BY DEF Init, Lifecycle!Init, Launched
<1>2. TypeOK /\ Bookkeeping /\ [Next]_vars => [Lifecycle!Next]_<<exec, Launched>>
  <2> SUFFICES ASSUME TypeOK, Bookkeeping, [Next]_vars
               PROVE  Lifecycle!Next \/ UNCHANGED <<exec, Launched>>
    OBVIOUS
  <2> DEFINE Goal == Lifecycle!Next \/ UNCHANGED <<exec, Launched>>
  <2> USE DEF ApiAt, Reply, Fault, NoFault, apiVars, dbVars, ledger, relayVars
  <2>1. ASSUME UNCHANGED <<exec, sentBy>>,
               \A j \in Jobs : local'[j] = "none" <=> local[j] = "none"
        PROVE  Goal
    BY <2>1 DEF Launched
  <2>2. ASSUME NEW j \in Jobs, NEW s \in {"running", "completed", "failed"}, SetStatus(j, s),
               sentBy[j] # {} \/ local[j] # "none", UNCHANGED sentBy,
               \A i \in Jobs : local'[i] = "none" <=> local[i] = "none"
        PROVE  Goal
    <3>1. j \in Launched /\ Launched' = Launched
      BY <2>2 DEF Launched
    <3>2. QED
      BY <2>2, <3>1, WriteProgresses DEF Lifecycle!Next
  <2>3. ASSUME NEW j \in Jobs, LocalStep(j) PROVE Goal
    <3>1. UNCHANGED sentBy /\ \A i \in Jobs : local'[i] = "none" <=> local[i] = "none"
      BY <2>3, LocalKeeps DEF Bookkeeping
    <3>2. local[j] # "none"
      BY <2>3 DEF LocalStep, LocalStart, LocalGenerate, LocalPersist, LocalAt
    <3>3. UNCHANGED exec \/ \E s \in {"running", "completed", "failed"} : SetStatus(j, s)
      BY <2>3 DEF LocalStep, LocalStart, LocalGenerate, LocalPersist
    <3>4. QED
      BY <2>1, <2>2, <3>1, <3>2, <3>3
  <2>4. CASE CreateJob
    <3>1. api.job \in Jobs /\ UNCHANGED Launched
      BY <2>4 DEF CreateJob, Bookkeeping, ApiPlaces, Launched
    <3>2. CASE InsertJob(api.job)
      BY <3>1, <3>2 DEF InsertJob, Lifecycle!Next, Lifecycle!Submit
    <3>3. CASE UNCHANGED exec
      BY <3>1, <3>3
    <3>4. QED
      BY <2>4, <3>2, <3>3 DEF CreateJob
  <2>5. CASE Dispatch
    <3>1. api.job \in Jobs /\ exec[api.job] # "none" /\ UNCHANGED <<exec, local>>
      BY <2>5 DEF Dispatch, Bookkeeping, ApiPlaces
    <3>2. CASE Send(api.job, "api")
      BY <3>1, <3>2, SendLaunches DEF Lifecycle!Next
    <3>3. CASE UNCHANGED sentBy
      BY <2>1, <3>1, <3>3
    <3>4. QED
      BY <2>5, <3>2, <3>3 DEF Dispatch
  <2>6. CASE ApiMarkPublished \/ ApiMarkFailed \/ Flush
    BY <2>1, <2>6 DEF ApiMarkPublished, ApiMarkFailed, Flush
  <2>7. CASE Reject
    <3>1. /\ api.job \in Jobs /\ exec[api.job] # "none" /\ Production
          /\ UNCHANGED <<local, sentBy, Launched>>
      BY <2>7 DEF Reject, Bookkeeping, ApiPlaces, Launched
    <3>2. CASE SetStatus(api.job, "failed")
      BY <3>1, <3>2 DEF SetStatus, Lifecycle!Next, Lifecycle!Reject
    <3>3. CASE UNCHANGED exec
      BY <3>1, <3>3
    <3>4. QED
      BY <2>7, <3>2, <3>3 DEF Reject
  <2>8. CASE ScheduleLocal
    <3>1. api.job \in Jobs /\ exec[api.job] # "none" /\ UNCHANGED <<exec, sentBy>>
      BY <2>8 DEF ScheduleLocal, Bookkeeping, ApiPlaces
    <3>2. Launched' = Launched \cup {api.job}
      BY <2>8, <3>1 DEF ScheduleLocal, Launched, TypeOK
    <3>3. QED
      BY <3>1, <3>2 DEF Lifecycle!Next, Lifecycle!Launch
  <2>9. CASE ApiCrash
    BY <2>1, <2>9 DEF ApiCrash
  <2>10. ASSUME NEW w \in Workers, WorkerStep(w) PROVE Goal
    <3>1. UNCHANGED <<sentBy, local>>
      BY <2>10 DEF WorkerStep, Begin, Succeed, Fail
    <3>2. CASE UNCHANGED exec
      BY <2>1, <3>1, <3>2
    <3>3. ASSUME NEW m \in Message, Begin(w, m), SetStatus(m.job, "running") PROVE Goal
      <4>1. m.job \in Jobs /\ sentBy[m.job] # {}
        BY <3>3 DEF Begin, Consume, Message, Bookkeeping, RunsWereSent
      <4>2. QED
        BY <2>2, <3>1, <3>3, <4>1
    <3>4. ASSUME run[w] # Nobody, NEW s \in {"completed", "failed"}, SetStatus(run[w].job, s)
          PROVE  Goal
      <4>1. run[w].job \in Jobs /\ sentBy[run[w].job] # {}
        BY <3>4 DEF TypeOK, Message, Bookkeeping, RunsWereSent
      <4>2. QED
        BY <2>2, <3>1, <3>4, <4>1
    <3>5. QED
      BY <2>10, <3>2, <3>3, <3>4 DEF WorkerStep, Begin, Succeed, Fail
  <2>11. ASSUME NEW r \in Relays, NEW j \in Jobs, RelaySend(r, j) PROVE Goal
    <3>1. exec[j] # "none" /\ UNCHANGED <<exec, local>>
      BY <2>11 DEF RelaySend, Bookkeeping, RelayPlaces
    <3>2. CASE Send(j, "relay")
      BY <3>1, <3>2, SendLaunches DEF Lifecycle!Next
    <3>3. CASE UNCHANGED sentBy
      BY <2>1, <3>1, <3>3
    <3>4. QED
      BY <2>11, <3>2, <3>3 DEF RelaySend
  <2>12. ASSUME NEW j \in Jobs, Reserve(j) \/ Elapse(j) PROVE Goal
    BY <2>1, <2>12 DEF Reserve, Elapse
  <2>13. ASSUME NEW w \in Workers, Kill(w) \/ WorkerLost(w) PROVE Goal
    BY <2>1, <2>13 DEF Kill, Perish, WorkerLost
  <2>14. ASSUME NEW m \in Message, Expire(m) PROVE Goal
    BY <2>1, <2>14 DEF Expire
  <2>15. ASSUME NEW r \in Relays, NEW t \in Tenants, ClaimTenant(r, t) PROVE Goal
    BY <2>1, <2>15 DEF ClaimTenant
  <2>16. ASSUME NEW r \in Relays, \/ RelayStart(r) \/ RelayMarkPublished(r) \/ RelayMarkFailed(r)
                                 \/ RelayEnd(r) \/ RelayLost(r)
         PROVE  Goal
    BY <2>1, <2>16 DEF RelayStart, RelayMarkPublished, RelayMarkFailed, RelayEnd, RelayLost
  <2>17. CASE UNCHANGED vars
    BY <2>1, <2>17 DEF vars
  <2>18. QED
    BY <2>3, <2>4, <2>5, <2>6, <2>7, <2>8, <2>9, <2>10, <2>11, <2>12, <2>13, <2>14, <2>15,
       <2>16, <2>17 DEF Next, ApiStep, RelayStep
<1>3. QED
  BY <1>1, <1>2, TypeCorrect, BookkeepingCorrect, PTL
     DEF Spec, ImplementsLifecycle, Lifecycle!Spec, Lifecycle!vars

-----------------------------------------------------------------------------
(* Overlapping relays and earned statuses.                                 *)

\* Without a failed send or transaction no two relay executions hold the same row.
THEOREM ClaimsAreExclusive == Spec => []ClaimsExclusive
<1> DEFINE Sound == suffered \cap {"send", "db"} = {}
<1>1. Init => ClaimsHeld
  BY DEF Init, ClaimsHeld
<1>2. TypeOK /\ TypeOK' /\ Bookkeeping /\ ClaimsHeld /\ [Next]_vars => ClaimsHeld'
  <2> SUFFICES ASSUME TypeOK, TypeOK', Bookkeeping, ClaimsHeld, [Next]_vars, Sound'
               PROVE  ClaimsHeld'
    BY DEF ClaimsHeld
  <2> DEFINE Alone == \A r, s \in Relays : r # s => claimed[r] \cap claimed[s] = {}
             Held == \A r \in Relays : \A j \in claimed[r] : outbox[j] \in {"publishing", "published"}
             Going == api.pc # "unsent" /\ \A r \in Relays : relay[r] # "unsent"
  <2>1. Alone /\ Held /\ Going
    BY SufferedGrows DEF ClaimsHeld
  <2>2. Alone' /\ Held' /\ Going' => ClaimsHeld'
    BY DEF ClaimsHeld
  <2>3. ~Fault("send") /\ ~Fault("db")
    BY DEF Fault, TypeOK
  <2>4. \A r \in Relays : claimed[r] \subseteq Jobs
    BY DEF TypeOK
  <2> HIDE DEF Alone, Held, Going
  <2>5. UNCHANGED claimed => Alone'
    BY <2>1 DEF Alone
  <2>6. UNCHANGED <<claimed, outbox>> => Held'
    BY <2>1 DEF Held
  <2>7. UNCHANGED relay /\ (UNCHANGED api \/ api'.pc # "unsent") => Going'
    BY <2>1 DEF Going
  <2> USE DEF ApiAt, Reply, apiVars, dbVars, ledger, relayVars
  <2>8. ASSUME NEW j \in Jobs, Reserve(j) PROVE ClaimsHeld'
    BY <2>2, <2>5, <2>6, <2>7, <2>8 DEF Reserve
  <2>9. ASSUME NEW j \in Jobs, Elapse(j) PROVE ClaimsHeld'
    <3>1. Held'
      BY <2>1, <2>9 DEF Elapse, Held, TypeOK
    <3>2. QED
      BY <2>2, <2>5, <2>7, <2>9, <3>1 DEF Elapse
  <2>10. ASSUME NEW j \in Jobs, LocalStep(j) PROVE ClaimsHeld'
    BY <2>2, <2>5, <2>6, <2>7, <2>10 DEF LocalStep, LocalStart, LocalGenerate, LocalPersist
  <2>11. CASE CreateJob
    <3>1. InsertJob(api.job) /\ api.job \in Jobs
      BY <2>3, <2>11 DEF CreateJob, Bookkeeping, ApiPlaces
    <3>2. \A r \in Relays : \A j \in claimed[r] : outbox'[j] = outbox[j]
      BY <2>4, <3>1 DEF InsertJob, Bookkeeping, RelayPlaces, TypeOK
    <3>3. Held'
      BY <2>1, <2>11, <3>2 DEF CreateJob, Held
    <3>4. UNCHANGED <<relay, claimed>> /\ api'.pc # "unsent"
      BY <2>11 DEF CreateJob
    <3>5. QED
      BY <2>2, <2>5, <2>7, <3>3, <3>4
  <2>12. CASE Dispatch
    <3>1. UNCHANGED <<relay, claimed, outbox>> /\ api'.pc # "unsent"
      BY <2>3, <2>12 DEF Dispatch
    <3>2. QED
      BY <2>2, <2>5, <2>6, <2>7, <3>1
  <2>13. CASE ApiMarkPublished
    <3>1. UNCHANGED <<relay, claimed>> /\ api'.pc # "unsent" /\ MarkPublished(api.job)
      BY <2>3, <2>13 DEF ApiMarkPublished
    <3>2. \A r \in Relays : \A j \in claimed[r] : outbox'[j] \in {outbox[j], "published"}
      BY <2>4, <3>1 DEF MarkPublished, TypeOK
    <3>3. Held'
      BY <2>1, <3>1, <3>2 DEF Held
    <3>4. QED
      BY <2>2, <2>5, <2>7, <3>1, <3>3
  <2>14. CASE ApiMarkFailed
    BY <2>1, <2>14 DEF ApiMarkFailed, Going
  <2>15. CASE Reject \/ ScheduleLocal
    <3>1. UNCHANGED <<relay, claimed, outbox>> /\ api'.pc # "unsent"
      BY <2>15 DEF Reject, ScheduleLocal
    <3>2. QED
      BY <2>2, <2>5, <2>6, <2>7, <3>1
  <2>16. CASE Flush \/ ApiCrash
    <3>1. UNCHANGED <<relay, claimed, outbox>> /\ (UNCHANGED api \/ api'.pc # "unsent")
      BY <2>16 DEF Flush, ApiCrash
    <3>2. QED
      BY <2>2, <2>5, <2>6, <2>7, <3>1
  <2>17. ASSUME NEW w \in Workers, WorkerStep(w) \/ Kill(w) \/ WorkerLost(w) PROVE ClaimsHeld'
    <3>1. UNCHANGED <<relay, claimed, outbox, api>>
      BY <2>17 DEF WorkerStep, Begin, Succeed, Fail, Kill, Perish, WorkerLost
    <3>2. QED
      BY <2>2, <2>5, <2>6, <2>7, <3>1
  <2>18. ASSUME NEW m \in Message, Expire(m) PROVE ClaimsHeld'
    BY <2>2, <2>5, <2>6, <2>7, <2>18 DEF Expire
  <2>19. ASSUME NEW r \in Relays, RelayStart(r) PROVE ClaimsHeld'
    <3>1. Going'
      BY <2>1, <2>19 DEF RelayStart, Going, TypeOK
    <3>2. QED
      BY <2>2, <2>5, <2>6, <2>19, <3>1 DEF RelayStart
  <2>20. ASSUME NEW r \in Relays, NEW t \in Tenants, ClaimTenant(r, t) PROVE ClaimsHeld'
    <3>1. PICK rows \in SUBSET Ready(t) :
            /\ outbox' = [j \in Jobs |-> IF j \in rows THEN "publishing" ELSE outbox[j]]
            /\ claimed' = [claimed EXCEPT ![r] = @ \cup rows]
      BY <2>20 DEF ClaimTenant
    <3>2. \A j \in rows : j \in Jobs /\ outbox[j] = "pending"
      BY DEF Ready, JobsOf
    <3>3. \A s \in Relays : claimed'[s] = IF s = r THEN claimed[r] \cup rows ELSE claimed[s]
      BY <3>1 DEF TypeOK
    <3>4. Held'
      BY <2>1, <2>4, <3>1, <3>2, <3>3 DEF Held
    <3>5. \A s \in Relays : claimed[s] \cap rows = {}
      BY <2>1, <3>2 DEF Held
    <3>6. Alone'
      BY <2>1, <3>3, <3>5 DEF Alone
    <3>7. UNCHANGED <<relay, api>>
      BY <2>20 DEF ClaimTenant
    <3>8. QED
      BY <2>2, <2>7, <3>4, <3>6, <3>7
  <2>21. ASSUME NEW r \in Relays, NEW j \in Jobs, RelaySend(r, j) PROVE ClaimsHeld'
    <3>1. UNCHANGED <<claimed, outbox, api>> /\ relay' = [relay EXCEPT ![r] = "sent"]
      BY <2>3, <2>21 DEF RelaySend
    <3>2. Going'
      BY <2>1, <3>1 DEF Going, TypeOK
    <3>3. QED
      BY <2>2, <2>5, <2>6, <3>1, <3>2
  <2>22. ASSUME NEW r \in Relays, NextItem(r), UNCHANGED api,
                \A j \in Jobs : outbox'[j] \in {outbox[j], "published"}
         PROVE  ClaimsHeld'
    <3>1. \A s \in Relays : claimed'[s] \subseteq claimed[s]
      BY <2>22 DEF NextItem, TypeOK
    <3>2. Alone' /\ Held'
      BY <2>1, <2>4, <2>22, <3>1 DEF Alone, Held
    <3>3. Going'
      BY <2>1, <2>22 DEF Going, NextItem, TypeOK
    <3>4. QED
      BY <2>2, <3>2, <3>3
  <2>23. ASSUME NEW r \in Relays, RelayMarkPublished(r) PROVE ClaimsHeld'
    <3>1. MarkPublished(item[r]) /\ NextItem(r) /\ UNCHANGED api
      BY <2>3, <2>23 DEF RelayMarkPublished
    <3>2. \A j \in Jobs : outbox'[j] \in {outbox[j], "published"}
      BY <3>1 DEF MarkPublished, TypeOK
    <3>3. QED
      BY <2>22, <3>1, <3>2
  <2>24. ASSUME NEW r \in Relays, RelayMarkFailed(r) PROVE ClaimsHeld'
    BY <2>1, <2>24 DEF RelayMarkFailed, Going
  <2>25. ASSUME NEW r \in Relays, RelayEnd(r) \/ RelayLost(r) PROVE ClaimsHeld'
    <3>1. RelayGone(r) /\ UNCHANGED <<api, outbox>>
      BY <2>25 DEF RelayEnd, RelayLost
    <3>2. \A s \in Relays : claimed'[s] \subseteq claimed[s]
      BY <3>1 DEF RelayGone, TypeOK
    <3>3. Alone' /\ Held'
      BY <2>1, <3>1, <3>2 DEF Alone, Held
    <3>4. Going'
      BY <2>1, <3>1 DEF Going, RelayGone, TypeOK
    <3>5. QED
      BY <2>2, <3>3, <3>4
  <2>26. CASE UNCHANGED vars
    BY <2>2, <2>5, <2>6, <2>7, <2>26 DEF vars
  <2>27. QED
    BY <2>8, <2>9, <2>10, <2>11, <2>12, <2>13, <2>14, <2>15, <2>16, <2>17, <2>18, <2>19, <2>20,
       <2>21, <2>23, <2>24, <2>25, <2>26
       DEF Next, ApiStep, RelayStep
<1>3. ClaimsHeld => ClaimsExclusive
  BY DEF ClaimsHeld, ClaimsExclusive
<1>4. QED
  BY <1>1, <1>2, <1>3, TypeCorrect, BookkeepingCorrect, PTL DEF Spec

\* A completed job has a successful generation behind it, a failed one a failed
\* generation or a refusal by the API that never sent it, while no transaction fails.
THEOREM StatusesAreEarned == Spec => []StatusIsEarned
<1> DEFINE Sound == "db" \notin suffered
<1>1. Init => Earned
  BY DEF Init, Earned, StatusIsEarned, OutcomesRecorded
<1>2. TypeOK /\ TypeOK' /\ Bookkeeping /\ Bookkeeping' /\ Earned /\ [Next]_vars => Earned'
  <2> SUFFICES ASSUME TypeOK, TypeOK', Bookkeeping, Bookkeeping', Earned, [Next]_vars, Sound'
               PROVE  Earned'
    BY DEF Earned, StatusIsEarned, OutcomesRecorded
  <2> DEFINE Merits == \A j \in Jobs :
               /\ exec[j] = "completed" => "ok" \in outcomes[j]
               /\ exec[j] = "failed" => \/ "bad" \in outcomes[j]
                                        \/ Production /\ "api" \notin sentBy[j]
             Noted == \A j \in Jobs : local[j] \in {"ok", "bad"} => local[j] \in outcomes[j]
             Clean ==
               /\ api.pc \in {"reserved", "created", "unsent"} => "api" \notin sentBy[api.job]
               /\ api.pc = "undispatched" /\ Production => "api" \notin sentBy[api.job]
               /\ api.pc = "reserved" => exec[api.job] = "none"
               /\ api.pc = "created" /\ exec[api.job] = "failed" => "bad" \in outcomes[api.job]
  <2>1. Merits /\ Noted /\ Clean
    BY SufferedGrows DEF Earned, StatusIsEarned, OutcomesRecorded
  <2>2. Merits' /\ Noted' /\ Clean' => Earned'
    BY DEF Earned, StatusIsEarned, OutcomesRecorded
  <2>3. ~Fault("db")
    BY DEF Fault, TypeOK
  <2>4. api.pc # "idle" => api.job \in Jobs
    BY DEF Bookkeeping, ApiPlaces
  <2> DEFINE Kept == \A j \in Jobs : outcomes[j] \subseteq outcomes'[j]
             Silent == \A j \in Jobs : "api" \in sentBy'[j] => "api" \in sentBy[j]
             Due(j, s) == \/ s \in {"queued", "running"}
                          \/ s = "completed" /\ "ok" \in outcomes'[j]
                          \/ s = "failed" /\ "bad" \in outcomes'[j]
             Inert == \A j \in Jobs : local'[j] \in {"ok", "bad"} => local'[j] = local[j]
  <2>5. ASSUME Kept, Silent, \A j \in Jobs : exec'[j] = exec[j] \/ Due(j, exec'[j]) PROVE Merits'
    BY <2>1, <2>5
  <2>6. ASSUME Kept, Inert PROVE Noted'
    BY <2>1, <2>6
  <2>7. api'.pc \in {"idle", "sent"} => Clean'
    OBVIOUS
  <2>8. ASSUME Kept, Silent, UNCHANGED api,
               \A j \in Jobs : \/ exec'[j] = exec[j]
                               \/ exec[j] # "none" /\ exec'[j] # "none" /\ exec'[j] # "failed"
                               \/ exec[j] # "none" /\ exec'[j] # "none" /\ "bad" \in outcomes'[j]
        PROVE  Clean'
    BY <2>1, <2>4, <2>8
  <2>9. UNCHANGED <<exec, local, sentBy, outcomes, api>> => Earned'
    BY <2>1, <2>2
  <2>10. UNCHANGED outcomes => Kept
    OBVIOUS
  <2>11. UNCHANGED sentBy => Silent
    OBVIOUS
  <2>12. UNCHANGED local \/ (\A j \in Jobs : local'[j] \notin {"ok", "bad"}) => Inert
    OBVIOUS
  <2> HIDE DEF Merits, Noted, Clean, Kept, Silent, Inert
  <2> USE DEF ApiAt, Reply, apiVars, dbVars, ledger, relayVars
  <2>13. ASSUME NEW j \in Jobs, Reserve(j) PROVE Earned'
    <3>1. UNCHANGED <<exec, local, sentBy, outcomes>> /\ api' = [pc |-> "reserved", job |-> j]
      BY <2>13 DEF Reserve
    <3>2. exec[j] = "none" /\ sentBy[j] = {}
      BY <2>13 DEF Reserve, Bookkeeping, RunsWereSent
    <3>3. Clean'
      BY <3>1, <3>2 DEF Clean
    <3>4. QED
      BY <2>2, <2>5, <2>6, <2>10, <2>11, <2>12, <3>1, <3>3
  <2>14. ASSUME NEW j \in Jobs, Elapse(j) PROVE Earned'
    BY <2>9, <2>14 DEF Elapse
  <2>15. ASSUME NEW j \in Jobs, LocalStart(j) PROVE Earned'
    <3>1. /\ local' = [local EXCEPT ![j] = "running"] /\ exec' = [exec EXCEPT ![j] = "running"]
          /\ api'.pc = "idle" /\ UNCHANGED <<sentBy, outcomes>>
      BY <2>3, <2>15 DEF LocalStart, LocalAt, SetStatus
    <3>2. Inert
      BY <3>1 DEF TypeOK, Inert
    <3>3. Merits'
      BY <2>5, <2>10, <2>11, <3>1 DEF TypeOK
    <3>4. QED
      BY <2>2, <2>6, <2>7, <2>10, <3>1, <3>2, <3>3
  <2>16. ASSUME NEW j \in Jobs, LocalGenerate(j) PROVE Earned'
    <3>1. PICK o \in {"ok", "bad"} : /\ local' = [local EXCEPT ![j] = o]
                                    /\ outcomes' = [outcomes EXCEPT ![j] = @ \cup {o}]
      BY <2>16 DEF LocalGenerate, LocalAt
    <3>2. UNCHANGED <<exec, sentBy>> /\ api'.pc = "idle"
      BY <2>16 DEF LocalGenerate, LocalAt
    <3>3. Kept
      BY <3>1 DEF TypeOK, Kept
    <3>4. Noted'
      BY <2>1, <3>1, <3>3 DEF TypeOK, Noted, Kept
    <3>5. QED
      BY <2>2, <2>5, <2>7, <2>11, <3>2, <3>3, <3>4
  <2>17. ASSUME NEW j \in Jobs, LocalPersist(j) PROVE Earned'
    <3>1. /\ local' = [local EXCEPT ![j] = "done"]
          /\ api'.pc = "idle" /\ UNCHANGED <<sentBy, outcomes>>
      BY <2>17 DEF LocalPersist, LocalAt
    <3>2. \/ local[j] = "ok" /\ exec' = [exec EXCEPT ![j] = "completed"]
          \/ local[j] = "bad" /\ exec' = [exec EXCEPT ![j] = "failed"]
      BY <2>3, <2>17 DEF LocalPersist, LocalAt, SetStatus
    <3>3. local[j] \in outcomes'[j]
      BY <2>1, <3>1, <3>2 DEF Noted
    <3>4. \A i \in Jobs : exec'[i] = exec[i] \/ Due(i, exec'[i])
      BY <3>2, <3>3 DEF TypeOK
    <3>5. Inert
      BY <3>1 DEF TypeOK, Inert
    <3>6. QED
      BY <2>2, <2>5, <2>6, <2>7, <2>10, <2>11, <3>1, <3>4, <3>5
  <2>18. CASE CreateJob
    <3>1. api.pc = "reserved" /\ InsertJob(api.job) /\ UNCHANGED <<local, sentBy, outcomes>>
      BY <2>3, <2>18 DEF CreateJob
    <3>2. api' = [pc |-> "created", job |-> api.job] /\ api.job \in Jobs
      BY <2>3, <2>4, <2>18, <3>1 DEF CreateJob
    <3>3. exec' = [exec EXCEPT ![api.job] = "queued"] /\ "api" \notin sentBy[api.job]
      BY <2>1, <3>1 DEF InsertJob, Clean
    <3>4. \A j \in Jobs : exec'[j] = exec[j] \/ Due(j, exec'[j])
      BY <3>3 DEF TypeOK
    <3>5. Clean'
      BY <3>1, <3>2, <3>3 DEF Clean, TypeOK
    <3>6. QED
      BY <2>2, <2>5, <2>6, <2>10, <2>11, <2>12, <3>1, <3>4, <3>5
  <2>19. CASE Dispatch
    <3>1. api.pc = "created" /\ api.job \in Jobs /\ UNCHANGED <<exec, local, outcomes>>
      BY <2>4, <2>19 DEF Dispatch
    <3>2. Noted'
      BY <2>6, <2>10, <2>12, <3>1
    <3>3. CASE Send(api.job, "api") /\ api'.pc = "sent"
      <4>1. \A j \in Jobs : j # api.job => sentBy'[j] = sentBy[j]
        BY <3>1, <3>3, SendFacts
      <4>2. exec[api.job] = "failed" => "bad" \in outcomes[api.job]
        BY <2>1, <3>1 DEF Clean
      <4>3. Merits'
        BY <2>1, <3>1, <4>1, <4>2 DEF Merits
      <4>4. QED
        BY <2>2, <2>7, <3>2, <3>3, <4>3
    <3>4. CASE UNCHANGED sentBy /\ api'.pc \in {"unsent", "undispatched"} /\ api'.job = api.job
      <4>1. Clean'
        BY <2>1, <3>1, <3>4 DEF Clean
      <4>2. QED
        BY <2>2, <2>5, <2>10, <2>11, <3>1, <3>2, <3>4, <4>1
    <3>5. QED
      BY <2>19, <3>3, <3>4 DEF Dispatch
  <2>20. CASE ApiMarkPublished
    <3>1. UNCHANGED <<exec, local, sentBy, outcomes>> /\ api'.pc = "idle"
      BY <2>3, <2>20 DEF ApiMarkPublished
    <3>2. QED
      BY <2>2, <2>5, <2>6, <2>7, <2>10, <2>11, <2>12, <3>1
  <2>21. CASE ApiMarkFailed
    <3>1. UNCHANGED <<exec, local, sentBy, outcomes>> /\ api.pc = "unsent"
      BY <2>21 DEF ApiMarkFailed
    <3>2. api' = [pc |-> "undispatched", job |-> api.job]
      BY <2>3, <2>21 DEF ApiMarkFailed
    <3>3. Clean'
      BY <2>1, <3>1, <3>2 DEF Clean
    <3>4. QED
      BY <2>2, <2>5, <2>6, <2>10, <2>11, <2>12, <3>1, <3>3
  <2>22. CASE Reject
    <3>1. UNCHANGED <<local, sentBy, outcomes>> /\ api'.pc = "idle"
      BY <2>22 DEF Reject
    <3>2. /\ Production /\ api.job \in Jobs /\ "api" \notin sentBy[api.job]
          /\ exec' = [exec EXCEPT ![api.job] = "failed"]
      BY <2>1, <2>3, <2>4, <2>22 DEF Reject, SetStatus, Clean
    <3>3. Merits'
      BY <2>1, <3>1, <3>2 DEF Merits, TypeOK
    <3>4. QED
      BY <2>2, <2>6, <2>7, <2>10, <2>12, <3>1, <3>3
  <2>23. CASE ScheduleLocal
    <3>1. /\ UNCHANGED <<exec, sentBy, outcomes>> /\ api'.pc = "idle"
          /\ local' = [local EXCEPT ![api.job] = "scheduled"]
      BY <2>23 DEF ScheduleLocal
    <3>2. Inert
      BY <3>1 DEF TypeOK, Inert
    <3>3. QED
      BY <2>2, <2>5, <2>6, <2>7, <2>10, <2>11, <3>1, <3>2
  <2>24. CASE Flush
    BY <2>9, <2>24 DEF Flush
  <2>25. CASE ApiCrash
    <3>1. UNCHANGED <<exec, sentBy, outcomes>> /\ api'.pc = "idle"
      BY <2>25 DEF ApiCrash
    <3>2. \A j \in Jobs : local'[j] \notin {"ok", "bad"}
      BY <2>25 DEF ApiCrash
    <3>3. QED
      BY <2>2, <2>5, <2>6, <2>7, <2>10, <2>11, <2>12, <3>1, <3>2
  <2>26. ASSUME NEW j \in Jobs, NEW s \in {"running", "completed", "failed"},
                exec' = [exec EXCEPT ![j] = s], exec[j] # "none",
                Kept, Due(j, s), UNCHANGED <<api, local, sentBy>>
         PROVE  Earned'
    <3>1. \A i \in Jobs : exec'[i] = IF i = j THEN s ELSE exec[i]
      BY <2>26 DEF TypeOK
    <3>2. Merits'
      BY <2>5, <2>11, <2>26, <3>1
    <3>3. Clean'
      BY <2>8, <2>11, <2>26, <3>1
    <3>4. Noted'
      BY <2>6, <2>12, <2>26
    <3>5. QED
      BY <2>2, <3>2, <3>3, <3>4
  <2>27. ASSUME NEW w \in Workers, NEW m \in Message, Begin(w, m) PROVE Earned'
    <3>1. UNCHANGED <<local, sentBy, outcomes, api>> /\ m.job \in Jobs
      BY <2>27 DEF Begin, Message
    <3>2. CASE exec[m.job] = "none"
      BY <2>9, <2>27, <3>1, <3>2 DEF Begin
    <3>3. CASE exec[m.job] # "none"
      <4>1. exec' = [exec EXCEPT ![m.job] = "running"]
        BY <2>3, <2>27, <3>3 DEF Begin, SetStatus
      <4>2. QED
        BY <2>10, <2>26, <3>1, <3>3, <4>1
    <3>4. QED
      BY <3>2, <3>3
  <2>28. ASSUME NEW w \in Workers, run[w] # Nobody, NEW o \in {"ok", "bad"},
                outcomes' = [outcomes EXCEPT ![run[w].job] = @ \cup {o}]
         PROVE  /\ run[w].job \in Jobs /\ exec[run[w].job] # "none"
                /\ Kept /\ o \in outcomes'[run[w].job]
    <3>1. run[w].job \in Jobs /\ exec[run[w].job] # "none"
      BY <2>28 DEF TypeOK, Message, Bookkeeping, RunsWereSent
    <3>2. QED
      BY <2>28, <3>1 DEF TypeOK, Kept
  <2>29. ASSUME NEW w \in Workers, Succeed(w) PROVE Earned'
    <3>1. /\ run[w] # Nobody /\ exec' = [exec EXCEPT ![run[w].job] = "completed"]
          /\ outcomes' = [outcomes EXCEPT ![run[w].job] = @ \cup {"ok"}]
          /\ UNCHANGED <<api, local, sentBy>>
      BY <2>3, <2>29 DEF Succeed, SetStatus
    <3>2. QED
      BY <2>26, <2>28, <3>1
  <2>30. ASSUME NEW w \in Workers, Fail(w) PROVE Earned'
    <3>1. /\ run[w] # Nobody /\ exec' = [exec EXCEPT ![run[w].job] = "failed"]
          /\ outcomes' = [outcomes EXCEPT ![run[w].job] = @ \cup {"bad"}]
          /\ UNCHANGED <<api, local, sentBy>>
      BY <2>3, <2>30 DEF Fail, SetStatus
    <3>2. QED
      BY <2>26, <2>28, <3>1
  <2>31. ASSUME NEW w \in Workers, Kill(w) \/ WorkerLost(w) PROVE Earned'
    <3>1. UNCHANGED <<exec, local, sentBy, api>>
      BY <2>31 DEF Kill, Perish, WorkerLost
    <3>2. outcomes' = outcomes \/ outcomes' = [outcomes EXCEPT ![run[w].job] = @ \cup {"lost"}]
      BY <2>31 DEF Kill, Perish, WorkerLost
    <3>3. Kept
      BY <3>2 DEF TypeOK, Kept
    <3>4. Merits'
      BY <2>5, <2>11, <3>1, <3>3
    <3>5. Noted' /\ Clean'
      BY <2>6, <2>8, <2>11, <2>12, <3>1, <3>3
    <3>6. QED
      BY <2>2, <3>4, <3>5
  <2>32. ASSUME NEW m \in Message, Expire(m) PROVE Earned'
    BY <2>9, <2>32 DEF Expire
  <2>33. ASSUME NEW r \in Relays, NEW j \in Jobs, RelaySend(r, j) PROVE Earned'
    <3>1. UNCHANGED <<exec, local, outcomes, api>>
      BY <2>33 DEF RelaySend
    <3>2. Silent
      BY <2>33 DEF RelaySend, Send, TypeOK, Silent
    <3>3. QED
      BY <2>2, <2>5, <2>6, <2>8, <2>10, <2>12, <3>1, <3>2
  <2>34. ASSUME NEW r \in Relays, NEW t \in Tenants, ClaimTenant(r, t) PROVE Earned'
    BY <2>9, <2>34 DEF ClaimTenant
  <2>35. ASSUME NEW r \in Relays, \/ RelayStart(r) \/ RelayMarkPublished(r) \/ RelayMarkFailed(r)
                                 \/ RelayEnd(r) \/ RelayLost(r)
         PROVE  Earned'
    BY <2>9, <2>35 DEF RelayStart, RelayMarkPublished, RelayMarkFailed, RelayEnd, RelayLost
  <2>36. CASE UNCHANGED vars
    BY <2>9, <2>36 DEF vars
  <2>37. QED
    BY <2>13, <2>14, <2>15, <2>16, <2>17, <2>18, <2>19, <2>20, <2>21, <2>22, <2>23, <2>24, <2>25,
       <2>27, <2>29, <2>30, <2>31, <2>32, <2>33, <2>34, <2>35, <2>36
       DEF Next, ApiStep, LocalStep, WorkerStep, RelayStep
<1>3. Earned => StatusIsEarned
  BY DEF Earned
<1>4. QED
  BY <1>1, <1>2, <1>3, TypeCorrect, BookkeepingCorrect, PTL DEF Spec

-----------------------------------------------------------------------------
(* The in-process runner and the ledger.                                    *)

\* Outside production, while at worst sends fail, a settled job that the runner alone
\* has had is charged exactly when it completed.
THEOREM RunnerSettlesJobs == Spec => []LocalSettlement
<1>1. Init => RunnerSettles
  <2> SUFFICES ASSUME Init, NEW j \in Jobs PROVE LocallySettled(j)
    BY DEF RunnerSettles
  <2>1. j # Nobody
    BY JobsAssumption DEF JobsAssumption
  <2>2. /\ exec[j] = "none" /\ local[j] = "none" /\ refunds[j] = 0 /\ sentBy[j] = {}
        /\ api.job = Nobody
    BY DEF Init
  <2>3. QED
    BY <2>1, <2>2 DEF LocallySettled
<1>2. TypeOK /\ TypeOK' /\ Bookkeeping /\ RunnerSettles /\ [Next]_vars => RunnerSettles'
  <2> SUFFICES ASSUME TypeOK, TypeOK', Bookkeeping, RunnerSettles, [Next]_vars,
                      suffered' \subseteq {"send"}, ~Production, NEW j \in Jobs
               PROVE  LocallySettled(j)'
    BY DEF RunnerSettles
  <2>1. LocallySettled(j)
    BY SufferedGrows DEF RunnerSettles
  <2>2. ~Fault("db") /\ ~Fault("api_crash")
    BY DEF Fault, TypeOK
  <2>3. api.pc # "idle" => api.job \in Jobs
    BY DEF Bookkeeping, ApiPlaces
  <2>4. Nobody # j
    BY JobsAssumption DEF JobsAssumption
  <2>5. ASSUME exec'[j] = exec[j], local'[j] = local[j], refunds'[j] = refunds[j],
               j \in debited => j \in debited', sentBy[j] \subseteq sentBy'[j],
               api'.job \in {api.job, Nobody}
        PROVE  LocallySettled(j)'
    BY <2>1, <2>4, <2>5 DEF LocallySettled
  <2>6. ASSUME sentBy[j] # {}, exec[j] # "none", exec'[j] # "none" \/ exec'[j] = exec[j],
               UNCHANGED <<local, api, debited, sentBy>>
        PROVE  LocallySettled(j)'
    BY <2>1, <2>6 DEF LocallySettled
  <2>7. UNCHANGED <<exec, local, refunds, debited, sentBy, api>> => LocallySettled(j)'
    BY <2>5
  <2> USE DEF ApiAt, Reply, apiVars, dbVars, ledger, relayVars
  <2>8. ASSUME NEW i \in Jobs, Reserve(i) PROVE LocallySettled(j)'
    <3>1. /\ UNCHANGED <<exec, local, refunds, sentBy>>
          /\ debited' = debited \cup {i} /\ api' = [pc |-> "reserved", job |-> i]
          /\ exec[i] = "none"
      BY <2>8 DEF Reserve
    <3>2. local[i] = "none"
      BY <3>1 DEF Bookkeeping, RunsWereSent
    <3>3. QED
      BY <2>1, <3>1, <3>2 DEF LocallySettled
  <2>9. ASSUME NEW i \in Jobs, Elapse(i) PROVE LocallySettled(j)'
    BY <2>7, <2>9 DEF Elapse
  <2>10. ASSUME NEW i \in Jobs, LocalStep(i) PROVE LocallySettled(j)'
    <3>1. UNCHANGED <<api, debited, sentBy>> /\ api.job # i
      <4>1. api.pc = "idle" /\ UNCHANGED <<api, debited, sentBy>>
        BY <2>10 DEF LocalStep, LocalStart, LocalGenerate, LocalPersist, LocalAt
      <4>2. QED
        BY <4>1, JobsAssumption DEF Bookkeeping, ApiPlaces, JobsAssumption
    <3>2. CASE i # j
      <4>1. exec'[j] = exec[j] /\ local'[j] = local[j] /\ refunds'[j] = refunds[j]
        BY <2>10, <3>2
           DEF LocalStep, LocalStart, LocalGenerate, LocalPersist, LocalAt, SetStatus, TypeOK
      <4>2. QED
        BY <2>5, <3>1, <4>1
    <3>3. CASE i = j
      <4>1. exec[j] # "none" /\ j \in debited
        BY <2>1, <2>10, <3>3 DEF LocalStep, LocalStart, LocalGenerate, LocalPersist, LocalAt,
                                  Bookkeeping, RunsWereSent, LocallySettled
      <4>2. CASE LocalStart(j)
        <5>1. /\ local[j] = "scheduled" /\ local'[j] = "running" /\ exec'[j] = "running"
              /\ refunds' = refunds
          BY <2>2, <4>2 DEF LocalStart, LocalAt, SetStatus, TypeOK
        <5>2. QED
          BY <2>1, <3>1, <3>3, <4>1, <5>1 DEF LocallySettled
      <4>3. CASE LocalGenerate(j)
        <5>1. /\ local[j] = "running" /\ exec' = exec
              /\ \/ local'[j] = "ok" /\ refunds'[j] = refunds[j]
                 \/ local'[j] = "bad" /\ refunds'[j] = refunds[j] + 1
          BY <4>3 DEF LocalGenerate, LocalAt, TypeOK
        <5>2. QED
          BY <2>1, <3>1, <3>3, <4>1, <5>1 DEF LocallySettled
      <4>4. CASE LocalPersist(j)
        <5>1. /\ local'[j] = "done" /\ refunds' = refunds
              /\ \/ local[j] = "ok" /\ exec'[j] = "completed"
                 \/ local[j] = "bad" /\ exec'[j] = "failed"
          BY <2>2, <4>4 DEF LocalPersist, LocalAt, SetStatus, TypeOK
        <5>2. QED
          BY <2>1, <3>1, <3>3, <4>1, <5>1 DEF LocallySettled, Terminal
      <4>5. QED
        BY <2>10, <3>3, <4>2, <4>3, <4>4 DEF LocalStep
    <3>4. QED
      BY <3>2, <3>3
  <2>11. CASE CreateJob
    <3>1. /\ UNCHANGED <<local, refunds, debited, sentBy>> /\ api.job \in Jobs
          /\ api' = [pc |-> "created", job |-> api.job] /\ InsertJob(api.job)
      BY <2>2, <2>3, <2>11 DEF CreateJob
    <3>2. exec'[j] = exec[j] \/ (api.job = j /\ exec[j] = "none" /\ exec'[j] = "queued")
      BY <3>1 DEF InsertJob, TypeOK
    <3>3. QED
      BY <2>1, <3>1, <3>2 DEF LocallySettled
  <2>12. CASE Dispatch \/ ApiMarkPublished \/ ApiMarkFailed
    <3>1. /\ UNCHANGED <<exec, local, refunds, debited>> /\ api'.job \in {api.job, Nobody}
          /\ sentBy' = sentBy \/ (Dispatch /\ Send(api.job, "api"))
      BY <2>12 DEF Dispatch, ApiMarkPublished, ApiMarkFailed
    <3>2. sentBy[j] \subseteq sentBy'[j]
      BY <3>1 DEF Send, TypeOK
    <3>3. QED
      BY <2>5, <3>1, <3>2
  <2>13. CASE ScheduleLocal
    <3>1. /\ UNCHANGED <<exec, refunds, debited, sentBy>> /\ api.job \in Jobs
          /\ api'.job = Nobody /\ local' = [local EXCEPT ![api.job] = "scheduled"]
      BY <2>3, <2>13 DEF ScheduleLocal
    <3>2. CASE api.job = j
      BY <2>1, <2>4, <3>1, <3>2 DEF LocallySettled, TypeOK
    <3>3. CASE api.job # j
      <4>1. local'[j] = local[j]
        BY <3>1, <3>3 DEF TypeOK
      <4>2. QED
        BY <2>5, <3>1, <4>1
    <3>4. QED
      BY <3>2, <3>3
  <2>14. CASE Reject \/ ApiCrash
    BY <2>2, <2>14 DEF Reject, ApiCrash
  <2>15. CASE Flush
    BY <2>7, <2>15 DEF Flush
  <2>16. ASSUME NEW w \in Workers, WorkerStep(w) \/ Kill(w) \/ WorkerLost(w)
         PROVE  LocallySettled(j)'
    <3>1. UNCHANGED <<local, refunds, debited, sentBy, api>>
      BY <2>16 DEF WorkerStep, Begin, Succeed, Fail, Kill, Perish, WorkerLost
    <3>2. exec'[j] = exec[j] \/ (sentBy[j] # {} /\ exec[j] # "none" /\ exec'[j] # "none")
      <4>1. ASSUME NEW m \in Message, Begin(w, m)
            PROVE  exec'[j] = exec[j] \/ (sentBy[j] # {} /\ exec[j] # "none" /\ exec'[j] # "none")
        <5>1. queue[m] > 0 /\ m.job \in Jobs
          BY <4>1 DEF Begin, Consume, Message
        <5>2. sentBy[m.job] # {} /\ exec[m.job] # "none"
          BY <5>1 DEF Bookkeeping, RunsWereSent
        <5>3. QED
          BY <4>1, <5>2 DEF Begin, SetStatus, TypeOK
      <4>2. CASE Succeed(w) \/ Fail(w)
        <5>1. run[w] # Nobody /\ run[w].job \in Jobs
          BY <4>2 DEF Succeed, Fail, TypeOK, Message
        <5>2. sentBy[run[w].job] # {} /\ exec[run[w].job] # "none"
          BY <5>1 DEF Bookkeeping, RunsWereSent
        <5>3. QED
          BY <4>2, <5>2 DEF Succeed, Fail, SetStatus, TypeOK
      <4>3. QED
        BY <2>16, <4>1, <4>2 DEF WorkerStep, Kill, Perish, WorkerLost
    <3>3. QED
      BY <2>5, <2>6, <3>1, <3>2
  <2>17. ASSUME NEW m \in Message, Expire(m) PROVE LocallySettled(j)'
    BY <2>7, <2>17 DEF Expire
  <2>18. ASSUME NEW r \in Relays, NEW i \in Jobs, RelaySend(r, i) PROVE LocallySettled(j)'
    <3>1. UNCHANGED <<exec, local, refunds, debited, api>>
      BY <2>18 DEF RelaySend
    <3>2. sentBy[j] \subseteq sentBy'[j]
      BY <2>18 DEF RelaySend, Send, TypeOK
    <3>3. QED
      BY <2>5, <3>1, <3>2
  <2>19. ASSUME NEW r \in Relays, NEW t \in Tenants, ClaimTenant(r, t) PROVE LocallySettled(j)'
    BY <2>7, <2>19 DEF ClaimTenant
  <2>20. ASSUME NEW r \in Relays, \/ RelayStart(r) \/ RelayMarkPublished(r) \/ RelayMarkFailed(r)
                                 \/ RelayEnd(r) \/ RelayLost(r)
         PROVE  LocallySettled(j)'
    BY <2>7, <2>20 DEF RelayStart, RelayMarkPublished, RelayMarkFailed, RelayEnd, RelayLost
  <2>21. CASE UNCHANGED vars
    BY <2>7, <2>21 DEF vars
  <2>22. QED
    BY <2>8, <2>9, <2>10, <2>11, <2>12, <2>13, <2>14, <2>15, <2>16, <2>17, <2>18, <2>19, <2>20, <2>21
       DEF Next, ApiStep, RelayStep
<1>3. RunnerSettles => LocalSettlement
  BY DEF RunnerSettles, LocallySettled, LocalSettlement, Terminal
<1>4. QED
  BY <1>1, <1>2, <1>3, TypeCorrect, BookkeepingCorrect, PTL DEF Spec

-----------------------------------------------------------------------------
(* The credit ledger.                                                      *)

\* The jobs of a tenant that are charged and have not been refunded, and the refunded ones.
Owed(d, r, t) == {j \in d \cap JobsOf(t) : r[j] = 0}
Repaid(r, t) == {j \in JobsOf(t) : r[j] = 1}

\* At most one refund for each charge.
RefundsFit(d, r) == /\ IsFiniteSet(d)
                    /\ \A j \in Jobs : r[j] \in {0, 1} /\ (r[j] = 1 => j \in d)

\* A refunded job has one entry, so the tenant's refund entries are as many as its refunded jobs.
LEMMA EntriesCounted ==
  ASSUME NEW d, NEW r, RefundsFit(d, r), NEW t
  PROVE  /\ IsFiniteSet(Repaid(r, t))
         /\ Cardinality(RefundEntries(r, t)) = Cardinality(Repaid(r, t))
<1> DEFINE S == Repaid(r, t)
           f == [j \in S |-> <<j, 1>>]
<1>1. IsFiniteSet(S)
  <2>1. S \in SUBSET d
    BY DEF RefundsFit, Repaid, JobsOf
  <2> QED
    BY <2>1, FS_Subset DEF RefundsFit
<1>2. RefundEntries(r, t) = {<<j, 1>> : j \in S}
  <2>1. \A j \in JobsOf(t) : 1..r[j] = IF j \in S THEN {1} ELSE {}
    <3> TAKE j \in JobsOf(t)
    <3>1. r[j] \in {0, 1} /\ (j \in S <=> r[j] = 1)
      BY DEF RefundsFit, Repaid, JobsOf
    <3>2. 1..0 = {} /\ 1..1 = {1}
      OBVIOUS
    <3> QED
      BY <3>1, <3>2
  <2>2. \A j \in S : j \in JobsOf(t)
    BY DEF Repaid
  <2> HIDE DEF S
  <2>3. \A e : e \in RefundEntries(r, t) <=> \E j \in JobsOf(t) : \E n \in 1..r[j] : e = <<j, n>>
    BY DEF RefundEntries
  <2>4. \A e : e \in RefundEntries(r, t) <=> \E j \in S : e = <<j, 1>>
    BY <2>1, <2>2, <2>3
  <2> QED
    BY <2>4
<1>3. f \in Bijection(S, RefundEntries(r, t))
  <2> HIDE DEF S
  <2>1. f \in [S -> RefundEntries(r, t)]
    BY <1>2
  <2>2. \A i, j \in S : f[i] = f[j] => i = j
    OBVIOUS
  <2>3. \A e \in RefundEntries(r, t) : \E j \in S : f[j] = e
    BY <1>2
  <2> QED
    BY <2>1, <2>2, <2>3 DEF Bijection, Injection, IsInjective, Surjection
<1>4. ExistsBijection(S, RefundEntries(r, t))
  BY <1>3 DEF ExistsBijection
<1> QED
  BY <1>1, <1>4, FS_Bijection

\* What a tenant has left is its grant less the charges that are still owed.
LEMMA BalanceIs ==
  ASSUME NEW d \in SUBSET Jobs, NEW r, RefundsFit(d, r), NEW t
  PROVE  /\ IsFiniteSet(Owed(d, r, t)) /\ Cardinality(Owed(d, r, t)) \in Nat
         /\ BalanceOf(d, r, t) = Grant - Cost * Cardinality(Owed(d, r, t))
<1> DEFINE D == d \cap JobsOf(t)
           R == Repaid(r, t)
           o == Cardinality(Owed(d, r, t))
           p == Cardinality(R)
<1>1. IsFiniteSet(D) /\ IsFiniteSet(R) /\ Cardinality(RefundEntries(r, t)) = p
  <2>1. IsFiniteSet(D)
    BY FS_Intersection DEF RefundsFit
  <2> QED
    BY <2>1, EntriesCounted
<1>2. Owed(d, r, t) = D \ R /\ D \cap R = R
  BY DEF Owed, Repaid, RefundsFit, JobsOf
<1>3. IsFiniteSet(Owed(d, r, t)) /\ o = Cardinality(D) - p
  BY <1>1, <1>2, FS_Difference
<1>4. o \in Nat /\ p \in Nat /\ Cardinality(D) \in Nat
  BY <1>1, <1>3, FS_CardinalityType
<1>5. Grant - Cost * Cardinality(D) + Cost * p = Grant - Cost * o
  <2>1. Cardinality(D) = o + p
    BY <1>3, <1>4
  <2>2. Cost * (o + p) = Cost * o + Cost * p
    BY <1>4, JobsAssumption
  <2>3. Cost * o \in Nat /\ Cost * p \in Nat
    BY <1>4, JobsAssumption
  <2> HIDE DEF o, p
  <2> QED
    BY <2>1, <2>2, <2>3, JobsAssumption
<1> QED
  BY <1>1, <1>3, <1>4, <1>5 DEF BalanceOf

\* A charge costs the tenant of its job its price, and no other tenant anything.
LEMMA ChargeKeeps ==
  ASSUME NEW d \in SUBSET Jobs, NEW r, Solvent(d, r), NEW j \in Jobs, j \notin d,
         BalanceOf(d, r, TenantOf[j]) >= Cost
  PROVE  Solvent(d \cup {j}, r)
<1> DEFINE e == d \cup {j}
<1>1. RefundsFit(d, r) /\ RefundsFit(e, r) /\ r[j] = 0 /\ e \in SUBSET Jobs
  <2>1. IsFiniteSet(e)
    BY FS_AddElement DEF Solvent
  <2> QED
    BY <2>1 DEF Solvent, RefundsFit
<1>2. ASSUME NEW t \in Tenants PROVE BalanceOf(e, r, t) >= 0
  <2> DEFINE n == Cardinality(Owed(d, r, t))
  <2>1. IsFiniteSet(Owed(d, r, t)) /\ n \in Nat /\ BalanceOf(d, r, t) = Grant - Cost * n
    BY <1>1, BalanceIs
  <2>2. BalanceOf(e, r, t) = Grant - Cost * Cardinality(Owed(e, r, t))
    <3> HIDE DEF e
    <3> QED
      BY <1>1, BalanceIs
  <2>3. CASE TenantOf[j] = t
    <3>1. Owed(e, r, t) = Owed(d, r, t) \cup {j} /\ j \notin Owed(d, r, t)
      BY <1>1, <2>3 DEF Owed, JobsOf
    <3>2. Cardinality(Owed(e, r, t)) = n + 1
      BY <2>1, <3>1, FS_AddElement
    <3>3. Cost * (n + 1) = Cost * n + Cost /\ Cost * n \in Nat
      BY <2>1, JobsAssumption
    <3>4. Grant - Cost * n >= Cost
      BY <2>1, <2>3
    <3> HIDE DEF n
    <3> QED
      BY <2>2, <3>2, <3>3, <3>4, JobsAssumption
  <2>4. CASE TenantOf[j] # t
    <3>1. Owed(e, r, t) = Owed(d, r, t)
      BY <2>4 DEF Owed, JobsOf
    <3> QED
      BY <2>1, <2>2, <3>1 DEF Solvent
  <2> QED
    BY <2>3, <2>4
<1> QED
  BY <1>1, <1>2 DEF Solvent, RefundsFit

\* The refund of a job that is charged and not refunded leaves its tenant no poorer.
LEMMA RefundKeeps ==
  ASSUME NEW d \in SUBSET Jobs, NEW r \in [Jobs -> Nat], Solvent(d, r),
         NEW j \in d, r[j] = 0, NEW q, q = [r EXCEPT ![j] = @ + 1]
  PROVE  Solvent(d, q)
<1>1. RefundsFit(d, r) /\ RefundsFit(d, q)
  BY DEF Solvent, RefundsFit
<1>2. ASSUME NEW t \in Tenants PROVE BalanceOf(d, q, t) >= 0
  <2> DEFINE n == Cardinality(Owed(d, r, t))
             m == Cardinality(Owed(d, q, t))
  <2>1. IsFiniteSet(Owed(d, r, t)) /\ n \in Nat /\ BalanceOf(d, r, t) = Grant - Cost * n
    BY <1>1, BalanceIs
  <2>2. m \in Nat /\ BalanceOf(d, q, t) = Grant - Cost * m
    BY <1>1, BalanceIs
  <2>3. Owed(d, q, t) \in SUBSET Owed(d, r, t)
    BY DEF Owed, JobsOf
  <2>4. m <= n
    BY <2>1, <2>3, FS_Subset
  <2>5. Cost * n = Cost * m + Cost * (n - m) /\ Cost * (n - m) >= 0 /\ Cost * m \in Nat
    <3>1. n - m \in Nat
      BY <2>1, <2>2, <2>4
    <3>2. n = m + (n - m)
      BY <2>1, <2>2
    <3>3. Cost \in Nat
      BY JobsAssumption
    <3> HIDE DEF n, m
    <3> QED
      BY <2>1, <2>2, <3>1, <3>2, <3>3
  <2>6. Grant - Cost * n >= 0
    BY <2>1 DEF Solvent
  <2> HIDE DEF n, m
  <2> QED
    BY <2>1, <2>2, <2>5, <2>6, JobsAssumption
<1> QED
  BY <1>1, <1>2 DEF Solvent, RefundsFit

\* The ledger before anything is charged.
LEMMA EmptyLedger == Solvent({}, [j \in Jobs |-> 0])
<1> DEFINE r == [j \in Jobs |-> 0]
<1>1. IsFiniteSet({}) /\ {} \in SUBSET Jobs
  BY FS_EmptySet
<1>2. RefundsFit({}, r)
  BY <1>1 DEF RefundsFit
<1>3. ASSUME NEW t \in Tenants PROVE BalanceOf({}, r, t) >= 0
  <2>1. Owed({}, r, t) = {}
    BY DEF Owed
  <2>2. Cardinality(Owed({}, r, t)) = 0
    BY <2>1, FS_EmptySet
  <2> HIDE DEF r
  <2>3. BalanceOf({}, r, t) = Grant - Cost * 0
    BY <1>1, <1>2, <2>2, BalanceIs
  <2> QED
    BY <2>3, JobsAssumption
<1> QED
  BY <1>2, <1>3 DEF Solvent, RefundsFit

\* The steps that touch neither the ledger nor its snapshot, and give nobody a job to refund.
LEMMA CreditsUntouched ==
  ASSUME CreditsHeld, UNCHANGED <<debited, refunds, snapshot>>,
         \A j \in Jobs : api'.job = j \/ local'[j] \in {"scheduled", "running"} =>
           api.job = j \/ local[j] \in {"scheduled", "running"}
  PROVE  CreditsHeld'
BY DEF CreditsHeld

\* A tenant never spends more than its grant nor earns from refunds, through any sequence of
\* requests, failures, refunds, flushes and restarts from an older ledger.
THEOREM LedgerConserved == Spec => []CreditsConserved
<1>1. Init => CreditsHeld
  <2> SUFFICES ASSUME Init PROVE CreditsHeld
    OBVIOUS
  <2>1. Solvent(debited, refunds) /\ Solvent(snapshot.debited, snapshot.refunds)
    BY EmptyLedger DEF Init
  <2>2. \A j \in Jobs : api.job # j /\ local[j] \notin {"scheduled", "running"}
    BY JobsAssumption DEF Init
  <2> QED
    BY <2>1, <2>2 DEF CreditsHeld
<1>2. TypeOK /\ Bookkeeping /\ CreditsHeld /\ [Next]_vars => CreditsHeld'
  <2> SUFFICES ASSUME TypeOK, Bookkeeping, CreditsHeld, [Next]_vars PROVE CreditsHeld'
    OBVIOUS
  <2>1. /\ debited \in SUBSET Jobs /\ refunds \in [Jobs -> Nat] /\ Nobody \notin Jobs
        /\ local \in [Jobs -> {"none", "scheduled", "running", "ok", "bad", "done"}]
    BY JobsAssumption DEF TypeOK
  <2>2. ASSUME NEW j \in Jobs, Reserve(j) PROVE CreditsHeld'
    <3>1. /\ j \notin debited /\ debited' = debited \cup {j} /\ UNCHANGED <<refunds, snapshot, local>>
          /\ api'.job = j /\ BalanceOf(debited, refunds, TenantOf[j]) >= Cost
      BY <2>2 DEF Reserve, ApiAt, Balance
    <3>2. Solvent(debited', refunds')
      <4>1. Solvent(debited \cup {j}, refunds)
        BY <2>1, <3>1, ChargeKeeps DEF CreditsHeld
      <4> QED
        BY <3>1, <4>1
    <3>3. refunds[j] = 0
      BY <2>1, <3>1 DEF CreditsHeld, Solvent
    <3> QED
      BY <3>1, <3>2, <3>3 DEF CreditsHeld
  <2>3. ASSUME NEW j \in Jobs, LocalGenerate(j) PROVE CreditsHeld'
    <3>1. /\ UNCHANGED <<debited, snapshot, api>> /\ api.pc = "idle" /\ local[j] = "running"
          /\ \E o \in {"ok", "bad"} : local' = [local EXCEPT ![j] = o]
      BY <2>3 DEF LocalGenerate, LocalAt
    <3>2. j \in debited /\ refunds[j] = 0
      BY <3>1 DEF CreditsHeld
    <3>3. api.job = Nobody
      BY <3>1 DEF Bookkeeping, ApiPlaces
    <3>4. refunds' = refunds \/ refunds' = [refunds EXCEPT ![j] = @ + 1]
      BY <2>3 DEF LocalGenerate
    <3>5. Solvent(debited', refunds')
      <4>1. CASE refunds' = refunds
        BY <3>1, <4>1 DEF CreditsHeld
      <4>2. CASE refunds' = [refunds EXCEPT ![j] = @ + 1]
        <5>1. PICK q : q = [refunds EXCEPT ![j] = @ + 1]
          OBVIOUS
        <5>2. Solvent(debited, q)
          BY <2>1, <3>2, <5>1, RefundKeeps DEF CreditsHeld
        <5> QED
          BY <3>1, <4>2, <5>1, <5>2
      <4> QED
        BY <3>4, <4>1, <4>2
    <3>6. ASSUME NEW i \in Jobs, api'.job = i \/ local'[i] \in {"scheduled", "running"}
          PROVE  i \in debited' /\ refunds'[i] = 0
      <4>1. i # j /\ local'[i] = local[i] /\ refunds'[i] = refunds[i]
        BY <2>1, <3>1, <3>3, <3>4, <3>6
      <4> QED
        BY <3>1, <3>6, <4>1 DEF CreditsHeld
    <3> QED
      BY <3>1, <3>5, <3>6 DEF CreditsHeld
  <2>4. CASE Flush
    <3>1. /\ snapshot' = [debited |-> debited, refunds |-> refunds]
          /\ UNCHANGED <<debited, refunds, api, local>>
      BY <2>4 DEF Flush, ledger
    <3>2. snapshot'.debited = debited /\ snapshot'.refunds = refunds
      BY <3>1
    <3> QED
      BY <3>1, <3>2 DEF CreditsHeld
  <2>5. CASE ApiCrash
    <3>1. /\ debited' = snapshot.debited /\ refunds' = snapshot.refunds /\ snapshot' = snapshot
          /\ api'.job = Nobody /\ local' = [j \in Jobs |-> IF local[j] = "none" THEN "none" ELSE "done"]
      BY <2>5 DEF ApiCrash, Reply
    <3>2. \A j \in Jobs : api'.job # j /\ local'[j] \notin {"scheduled", "running"}
      BY <2>1, <3>1
    <3> QED
      BY <3>1, <3>2 DEF CreditsHeld
  <2>6. CASE ApiStep
    <3>1. UNCHANGED <<debited, refunds, snapshot>>
      BY <2>6 DEF ApiStep, CreateJob, Dispatch, ApiMarkPublished, ApiMarkFailed, Reject, ScheduleLocal, ledger
    <3>2. api'.job = api.job \/ api'.job = Nobody
      BY <2>6 DEF ApiStep, CreateJob, Dispatch, ApiMarkPublished, ApiMarkFailed, Reject, ScheduleLocal,
                  ApiAt, Reply
    <3>3. local' = local \/ local' = [local EXCEPT ![api.job] = "scheduled"]
      BY <2>6 DEF ApiStep, CreateJob, Dispatch, ApiMarkPublished, ApiMarkFailed, Reject, ScheduleLocal
    <3>4. \A j \in Jobs : api'.job = j \/ local'[j] \in {"scheduled", "running"} =>
            api.job = j \/ local[j] \in {"scheduled", "running"}
      BY <2>1, <3>2, <3>3
    <3> QED
      BY <3>1, <3>4, CreditsUntouched
  <2>7. ASSUME NEW j \in Jobs, LocalStart(j) \/ LocalPersist(j) PROVE CreditsHeld'
    <3>1. UNCHANGED <<debited, refunds, snapshot, api>>
      BY <2>7 DEF LocalStart, LocalPersist, ledger
    <3>2. \/ local[j] = "scheduled" /\ \E to \in {"running", "done"} : local' = [local EXCEPT ![j] = to]
          \/ local' = [local EXCEPT ![j] = "done"]
      BY <2>7 DEF LocalStart, LocalPersist, LocalAt
    <3>3. \A i \in Jobs : local'[i] \in {"scheduled", "running"} => local[i] \in {"scheduled", "running"}
      BY <2>1, <3>2
    <3> QED
      BY <3>1, <3>3, CreditsUntouched
  <2>8. ASSUME UNCHANGED apiVars PROVE CreditsHeld'
    BY <2>8, CreditsUntouched DEF apiVars
  <2>9. ASSUME NEW j \in Jobs, Elapse(j) PROVE CreditsHeld'
    BY <2>8, <2>9 DEF Elapse
  <2>10. ASSUME NEW w \in Workers, WorkerStep(w) \/ Kill(w) \/ WorkerLost(w) PROVE CreditsHeld'
    BY <2>8, <2>10 DEF WorkerStep, Begin, Succeed, Fail, Kill, Perish, WorkerLost
  <2>11. ASSUME NEW m \in Message, Expire(m) PROVE CreditsHeld'
    BY <2>8, <2>11 DEF Expire
  <2>12. ASSUME NEW r \in Relays, RelayStep(r) \/ RelayLost(r) PROVE CreditsHeld'
    <3>1. UNCHANGED apiVars
      BY <2>12 DEF RelayStep, RelayStart, ClaimTenant, RelaySend, RelayMarkPublished, RelayMarkFailed,
                   RelayEnd, RelayLost
    <3> QED
      BY <2>8, <3>1
  <2>13. CASE UNCHANGED vars
    BY <2>8, <2>13 DEF vars, apiVars
  <2> QED
    BY <2>2, <2>3, <2>4, <2>5, <2>6, <2>7, <2>9, <2>10, <2>11, <2>12, <2>13 DEF Next, LocalStep
<1>3. ASSUME TypeOK, CreditsHeld PROVE CreditsConserved
  <2>1. RefundsFit(debited, refunds) /\ debited \in SUBSET Jobs
    BY <1>3 DEF CreditsHeld, Solvent, RefundsFit, TypeOK
  <2>2. ASSUME NEW t \in Tenants PROVE Balance(t) \in 0..Grant
    <3> DEFINE n == Cardinality(Owed(debited, refunds, t))
    <3>1. n \in Nat /\ Balance(t) = Grant - Cost * n
      BY <2>1, BalanceIs DEF Balance
    <3>2. Balance(t) >= 0
      BY <1>3 DEF CreditsHeld, Solvent, Balance
    <3>3. Cost * n \in Nat
      BY <3>1, JobsAssumption
    <3> HIDE DEF n
    <3> QED
      BY <3>1, <3>2, <3>3, JobsAssumption
  <2>3. \A j \in Jobs : refunds[j] > 0 => j \in debited
    BY <2>1 DEF RefundsFit
  <2> QED
    BY <2>2, <2>3 DEF CreditsConserved, JobsOf
<1> QED
  BY <1>1, <1>2, <1>3, TypeCorrect, BookkeepingCorrect, PTL DEF Spec

-----------------------------------------------------------------------------
(* The ledger and its snapshot.                                            *)

\* A ledger that was only added to has the entries it had.
LEMMA EntriesGrow ==
  ASSUME NEW d, NEW e, d \subseteq e, NEW r \in [Jobs -> Nat], NEW q \in [Jobs -> Nat],
         \A j \in Jobs : r[j] <= q[j]
  PROVE  Entries(d, r) \subseteq Entries(e, q)
<1>1. ASSUME NEW j \in Jobs PROVE 1 .. r[j] \subseteq 1 .. q[j]
  OBVIOUS
<1>2. d \X {0} \subseteq e \X {0}
  OBVIOUS
<1>3. QED
  BY <1>1, <1>2 DEF Entries

\* What a step does to the ledger and its snapshot: nothing, or it appends a charge or a refund,
\* or flushes the one into the other, or restores the one from the other.
LEMMA LedgerSteps ==
  ASSUME TypeOK, [Next]_vars
  PROVE  \/ UNCHANGED <<debited, refunds, snapshot>>
         \/ /\ debited \subseteq debited' /\ \A j \in Jobs : refunds[j] <= refunds'[j]
            /\ UNCHANGED snapshot
         \/ snapshot' = [debited |-> debited, refunds |-> refunds] /\ UNCHANGED <<debited, refunds>>
         \/ debited' = snapshot.debited /\ refunds' = snapshot.refunds /\ UNCHANGED snapshot
<1>1. refunds \in [Jobs -> Nat]
  BY DEF TypeOK
<1>2. ASSUME NEW j \in Jobs, Reserve(j)
      PROVE  debited \subseteq debited' /\ UNCHANGED <<refunds, snapshot>>
  BY <1>2 DEF Reserve
<1>3. ASSUME NEW j \in Jobs, LocalGenerate(j)
      PROVE  /\ debited' = debited /\ snapshot' = snapshot
             /\ \A i \in Jobs : refunds[i] <= refunds'[i]
  <2>1. refunds' = refunds \/ refunds' = [refunds EXCEPT ![j] = @ + 1]
    BY <1>3 DEF LocalGenerate
  <2>2. \A i \in Jobs : refunds[i] <= refunds'[i]
    BY <1>1, <2>1
  <2>3. QED
    BY <1>3, <2>2 DEF LocalGenerate
<1>4. CASE Flush
  BY <1>4 DEF Flush, ledger
<1>5. CASE ApiCrash
  BY <1>5 DEF ApiCrash
<1>6. CASE ApiStep
  BY <1>6 DEF ApiStep, CreateJob, Dispatch, ApiMarkPublished, ApiMarkFailed, Reject, ScheduleLocal, ledger
<1>7. ASSUME NEW j \in Jobs, LocalStart(j) \/ LocalPersist(j) \/ Elapse(j)
      PROVE  UNCHANGED <<debited, refunds, snapshot>>
  BY <1>7 DEF LocalStart, LocalPersist, Elapse, ledger, apiVars
<1>8. ASSUME NEW w \in Workers, WorkerStep(w) \/ Kill(w) \/ WorkerLost(w)
      PROVE  UNCHANGED <<debited, refunds, snapshot>>
  BY <1>8 DEF WorkerStep, Begin, Succeed, Fail, Kill, Perish, WorkerLost, apiVars
<1>9. ASSUME NEW m \in Message, Expire(m) PROVE UNCHANGED <<debited, refunds, snapshot>>
  BY <1>9 DEF Expire, apiVars
<1>10. ASSUME NEW r \in Relays, RelayStep(r) \/ RelayLost(r)
       PROVE  UNCHANGED <<debited, refunds, snapshot>>
  BY <1>10 DEF RelayStep, RelayStart, ClaimTenant, RelaySend, RelayMarkPublished, RelayMarkFailed,
               RelayEnd, RelayLost, apiVars
<1>11. CASE UNCHANGED vars
  BY <1>11 DEF vars
<1>12. QED
  BY <1>1, <1>2, <1>3, <1>4, <1>5, <1>6, <1>7, <1>8, <1>9, <1>10, <1>11 DEF Next, LocalStep

\* Under every fault the ledger is what a snapshot promises: requests and refunds only add
\* entries, a flush only adds to what was flushed, and a restart of the API brings back exactly
\* that, the charges with their refunds.
THEOREM LedgerIsSnapshot == Spec => ImplementsSnapshot
<1>1. Init => LedgerSnapshot!Init
  BY DEF Init, LedgerSnapshot!Init, Entries
<1>2. Init => LedgerKept
  BY DEF Init, LedgerKept
<1>3. TypeOK => /\ refunds \in [Jobs -> Nat] /\ snapshot.refunds \in [Jobs -> Nat]
  BY DEF TypeOK
<1>4. TypeOK /\ TypeOK' /\ LedgerKept /\ [Next]_vars => LedgerKept'
  <2> SUFFICES ASSUME TypeOK, TypeOK', LedgerKept, [Next]_vars PROVE LedgerKept'
    OBVIOUS
  <2>1. CASE UNCHANGED <<debited, refunds, snapshot>>
    BY <2>1 DEF LedgerKept
  <2>2. CASE /\ debited \subseteq debited' /\ \A j \in Jobs : refunds[j] <= refunds'[j]
             /\ UNCHANGED snapshot
    <3>1. \A j \in Jobs : snapshot.refunds[j] <= refunds[j] /\ refunds[j] <= refunds'[j]
      BY <2>2 DEF LedgerKept
    <3>2. \A j \in Jobs : snapshot.refunds[j] \in Nat /\ refunds[j] \in Nat /\ refunds'[j] \in Nat
      BY DEF TypeOK
    <3>3. \A j \in Jobs : snapshot.refunds[j] <= refunds'[j]
      BY <3>1, <3>2
    <3>4. QED
      BY <2>2, <3>3 DEF LedgerKept
  <2>3. CASE snapshot' = [debited |-> debited, refunds |-> refunds] /\ UNCHANGED <<debited, refunds>>
    BY <1>3, <2>3 DEF LedgerKept
  <2>4. CASE debited' = snapshot.debited /\ refunds' = snapshot.refunds /\ UNCHANGED snapshot
    BY <1>3, <2>4 DEF LedgerKept
  <2>5. QED
    BY <2>1, <2>2, <2>3, <2>4, LedgerSteps
<1>5. TypeOK /\ TypeOK' /\ LedgerKept /\ [Next]_vars => [LedgerSnapshot!Next]_(LedgerSnapshot!vars)
  <2> SUFFICES ASSUME TypeOK, TypeOK', LedgerKept, [Next]_vars
               PROVE  LedgerSnapshot!Next \/ UNCHANGED LedgerSnapshot!vars
    OBVIOUS
  <2>1. CASE UNCHANGED <<debited, refunds, snapshot>>
    BY <2>1 DEF LedgerSnapshot!vars, Entries
  <2>2. CASE /\ debited \subseteq debited' /\ \A j \in Jobs : refunds[j] <= refunds'[j]
             /\ UNCHANGED snapshot
    <3>1. refunds \in [Jobs -> Nat] /\ refunds' \in [Jobs -> Nat]
      BY DEF TypeOK
    <3>2. Entries(debited, refunds) \subseteq Entries(debited', refunds')
      BY <2>2, <3>1, EntriesGrow
    <3>3. QED
      BY <2>2, <3>2 DEF LedgerSnapshot!Next, LedgerSnapshot!Change, Entries
  <2>3. CASE snapshot' = [debited |-> debited, refunds |-> refunds] /\ UNCHANGED <<debited, refunds>>
    <3>1. snapshot'.debited = debited /\ snapshot'.refunds = refunds
      BY <2>3
    <3>2. Entries(snapshot.debited, snapshot.refunds) \subseteq Entries(debited, refunds)
      BY <1>3, EntriesGrow DEF LedgerKept
    <3>3. QED
      BY <2>3, <3>1, <3>2 DEF LedgerSnapshot!Next, LedgerSnapshot!Save, Entries
  <2>4. CASE debited' = snapshot.debited /\ refunds' = snapshot.refunds /\ UNCHANGED snapshot
    BY <2>4 DEF LedgerSnapshot!Next, LedgerSnapshot!Restart, Entries
  <2>5. QED
    BY <2>1, <2>2, <2>3, <2>4, LedgerSteps
<1>6. QED
  BY <1>1, <1>2, <1>4, <1>5, TypeCorrect, PTL DEF Spec, ImplementsSnapshot, LedgerSnapshot!Spec

-----------------------------------------------------------------------------
(* What the promises are worth.                                            *)

\* Nobody runs or completes a job that was not launched, and only a committed one is.
RunWasLaunched ==
  \A j \in Jobs : /\ exec[j] \in {"running", "completed"} => j \in Launched
                  /\ j \in Launched => exec[j] # "none"

\* A committed job stays committed, a launched one launched.
JobsStay ==
  Launched \subseteq Launched' /\ \A j \in Jobs : exec[j] # "none" => exec'[j] # "none"

\* Whatever implements JobLifecycle never runs what was not handed over and forgets nothing.
THEOREM LifecycleSuffices ==
  ImplementsLifecycle => []RunWasLaunched /\ [][JobsStay]_<<exec, Launched>>
<1> DEFINE Inv == DOMAIN exec = Jobs /\ Launched \subseteq Jobs /\ RunWasLaunched
<1>1. Lifecycle!Init => Inv
  BY DEF Lifecycle!Init, RunWasLaunched
<1>2. Inv /\ [Lifecycle!Next]_<<exec, Launched>> => Inv' /\ [JobsStay]_<<exec, Launched>>
  <2> SUFFICES ASSUME Inv, [Lifecycle!Next]_<<exec, Launched>>
               PROVE  Inv' /\ [JobsStay]_<<exec, Launched>>
    OBVIOUS
  <2>1. CASE UNCHANGED <<exec, Launched>>
    BY <2>1 DEF RunWasLaunched
  <2>2. ASSUME NEW j \in Jobs, NEW s \in {"queued", "running", "completed", "failed"},
               exec' = [exec EXCEPT ![j] = s], Launched' = Launched,
               s \in {"running", "completed"} => j \in Launched
        PROVE  Inv' /\ JobsStay
    BY <2>2 DEF RunWasLaunched, JobsStay
  <2>3. ASSUME NEW j \in Jobs, Lifecycle!Launch(j) PROVE Inv' /\ JobsStay
    <3>1. exec[j] # "none" /\ Launched' = Launched \cup {j} /\ exec' = exec
      BY <2>3 DEF Lifecycle!Launch
    <3> QED
      BY <3>1 DEF RunWasLaunched, JobsStay
  <2>4. ASSUME NEW j \in Jobs, Lifecycle!Submit(j) \/ Lifecycle!Reject(j) PROVE Inv' /\ JobsStay
    BY <2>2, <2>4 DEF Lifecycle!Submit, Lifecycle!Reject
  <2>5. ASSUME NEW j \in Jobs, NEW s \in {"running", "completed", "failed"}, Lifecycle!Progress(j, s)
        PROVE  Inv' /\ JobsStay
    BY <2>2, <2>5 DEF Lifecycle!Progress
  <2> QED
    BY <2>1, <2>3, <2>4, <2>5 DEF Lifecycle!Next
<1>3. Inv => RunWasLaunched
  OBVIOUS
<1> QED
  BY <1>1, <1>2, <1>3, PTL DEF ImplementsLifecycle, Lifecycle!Spec, Lifecycle!vars

\* Whatever implements Snapshotting keeps only what is still there, and gives up nothing kept.
KeptLedger == Entries(snapshot.debited, snapshot.refunds)
THEOREM SnapshotSuffices ==
  ImplementsSnapshot => [](KeptLedger \subseteq Entries(debited, refunds))
                        /\ [][KeptLedger \subseteq KeptLedger']_(LedgerSnapshot!vars)
<1> DEFINE Inv == KeptLedger \subseteq Entries(debited, refunds)
<1>1. LedgerSnapshot!Init => Inv
  BY DEF LedgerSnapshot!Init, KeptLedger
<1>2. Inv /\ [LedgerSnapshot!Next]_(LedgerSnapshot!vars)
        => Inv' /\ [KeptLedger \subseteq KeptLedger']_(LedgerSnapshot!vars)
  BY DEF LedgerSnapshot!Next, LedgerSnapshot!Change, LedgerSnapshot!Save, LedgerSnapshot!Restart,
         LedgerSnapshot!vars, KeptLedger
<1> QED
  BY <1>1, <1>2, PTL DEF ImplementsSnapshot, LedgerSnapshot!Spec
=============================================================================

--------------------------- MODULE InboxDelivery ---------------------------
(***************************************************************************)
(* Outbound replies of the smart inbox                                     *)
(* (app/domains/social/inbox/operations).  An agent stages a reply to a    *)
(* message; an approver has it sent to the social network; a reply that    *)
(* could not be sent becomes a delivery failure (the dead-letter queue),   *)
(* which operators replay, one or many at a time, or resolve by hand.      *)
(*                                                                         *)
(* Approving and replaying are coroutines of the event loop: they look     *)
(* under the lock, wait for the network without it, and write under it     *)
(* again.  Staging, rejecting, updating and resolving run on the thread    *)
(* pool, each in one critical section, at any moment in between.  A        *)
(* coroutine may be cancelled while it waits, and the process may be lost. *)
(***************************************************************************)
EXTENDS Naturals, Sequences, FiniteSets, SequencesExt

CONSTANTS
  Messages,      \* ingested messages of one tenant
  Texts,         \* replies an agent may stage
  Handlers,      \* requests that can be under way at once
  None,          \* no text, no key, no message
  Attempts,      \* INBOX_DELIVERY_MAX_RETRIES, calls per delivery
  MaxFailures    \* bound on the delivery failures of a behaviour

ASSUME InboxAssumption ==
  /\ None \notin Messages \cup Texts
  /\ Attempts \in Nat \ {0} /\ MaxFailures \in Nat

\* The message states that the handlers tell apart: pending, in_progress, flagged
\* and complete are all "other".
MessageStatus == {"requires_approval", "other"}
DeliveryStatus == {"none", "sent", "failed", "manual_followup_required"}
\* A resolved failure is known by its resolution.
Resolved == {"already_delivered", "replayed", "manual_followup"}
FailureStatus == {"pending_retry", "replaying"} \cup Resolved
FailureIds == 1 .. MaxFailures

VARIABLES
  inbox,      \* inbox[m]: status, staged reply, delivery status, failure id and key
  dlq,        \* delivery_failures_memory
  op,         \* op[h]: what the request at h is doing
  delivered   \* delivered[m][k]: the reply the network published under key k

vars == <<inbox, dlq, op, delivered>>

\* The idempotency key digests tenant, message and text, so within a message
\* a key is the text it was computed from.
Key == Texts \cup {None}

\* A message as ingested, and a request slot with no request.
Ingested == [status |-> "other", preview |-> None, delivery |-> "none", failure |-> 0, key |-> None]
Idle == [pc |-> "idle", kind |-> "none", msg |-> None, text |-> None, key |-> None,
         fid |-> 0, left |-> 0, todo |-> <<>>, news |-> 0]

Init ==
  /\ inbox = [m \in Messages |-> Ingested]
  /\ dlq = <<>>
  /\ op = [h \in Handlers |-> Idle]
  /\ delivered = [m \in Messages |-> [k \in Texts |-> None]]

\* Between two critical sections with no await in between a coroutine holds the
\* event loop; threads of the pool may act there, other coroutines may not.
LoopFree(h) == \A g \in Handlers \ {h} : op[g].pc \notin {"next", "filed", "closed"}

\* Approvals that may still file a failure.
Approvals == {h \in Handlers : op[h].kind = "approve" /\ op[h].pc \in {"calling", "ok", "bad"}}

-----------------------------------------------------------------------------
(* Handlers that run on the thread pool.                                    *)

\* auto-respond stages a reply, for approval or not.  Nothing is sent here,
\* and the key of an earlier reply stays.
AutoRespond(m, t, approval) ==
  /\ inbox' = [inbox EXCEPT ![m].preview = t,
                            ![m].status = IF approval THEN "requires_approval" ELSE "other"]
  /\ UNCHANGED <<dlq, op, delivered>>

AwaitsApproval(m) == inbox[m].status = "requires_approval" /\ inbox[m].preview # None

Reject(m) ==
  /\ AwaitsApproval(m)
  /\ inbox' = [inbox EXCEPT ![m].status = "other"]
  /\ UNCHANGED <<dlq, op, delivered>>

\* A PATCH may set any status.
UpdateMessage(m, s) ==
  /\ inbox' = [inbox EXCEPT ![m].status = s]
  /\ UNCHANGED <<dlq, op, delivered>>

\* Mutant of Resolve: the message is left as it was.
ResolveRecordOnly(F) ==
  /\ \A f \in F : dlq[f].status \notin Resolved
  /\ dlq' = [f \in DOMAIN dlq |->
               IF f \in F THEN [dlq[f] EXCEPT !.status = "manual_followup"] ELSE dlq[f]]
  /\ UNCHANGED <<inbox, op, delivered>>

\* Resolve one failure or several by hand: all in one critical section.
Resolve(F) ==
  /\ \A f \in F : dlq[f].status \notin Resolved
  /\ dlq' = [f \in DOMAIN dlq |->
               IF f \in F THEN [dlq[f] EXCEPT !.status = "manual_followup"] ELSE dlq[f]]
  /\ inbox' = [m \in Messages |->
                 IF m \in {dlq[f].msg : f \in F}
                 THEN [inbox[m] EXCEPT !.status = IF @ = "requires_approval" THEN "other" ELSE @,
                                       !.delivery = "manual_followup_required",
                                       !.failure = 0]
                 ELSE inbox[m]]
  /\ UNCHANGED <<op, delivered>>

-----------------------------------------------------------------------------
(* Requests that send: they start in one critical section and then wait.    *)

\* The key is the message's own when it has one, else computed from the reply.
KeyFor(m) == IF inbox[m].key # None THEN inbox[m].key ELSE inbox[m].preview

\* MaxFailures leaves every approval under way room for the failure it may file.
Approve(h, m) ==
  /\ op[h].pc = "idle" /\ LoopFree(h) /\ AwaitsApproval(m)
  /\ Len(dlq) + Cardinality(Approvals) < MaxFailures
  /\ op' = [op EXCEPT ![h] =
              [pc |-> "calling", kind |-> "approve", msg |-> m, text |-> inbox[m].preview,
               key |-> KeyFor(m), fid |-> 0, left |-> Attempts, todo |-> <<>>, news |-> 0]]
  /\ UNCHANGED <<inbox, dlq, delivered>>

AlreadySent(f) == inbox[dlq[f].msg].delivery = "sent"

\* Mutant of Replayable: whatever has not gone out may be replayed.
ReplayableUnsent(f) == ~AlreadySent(f)

Replayable(f) == ~AlreadySent(f) /\ dlq[f].status \in {"pending_retry", "replaying"}

\* The failure is answered for and leaves the queue.
Settle(f, resolution) == dlq' = [dlq EXCEPT ![f].status = resolution]

\* Mutant of TakeUp: the key is computed from the reply staged now.
TakeUpRecomputed(h, f, kind, todo) ==
  /\ dlq' = [dlq EXCEPT ![f].status = "replaying"]
  /\ op' = [op EXCEPT ![h] =
              [pc |-> "calling", kind |-> kind, msg |-> dlq[f].msg, text |-> dlq[f].text,
               key |-> inbox[dlq[f].msg].preview, fid |-> f, left |-> Attempts, todo |-> todo,
               news |-> 0]]

\* The failure is taken up again, with the reply and the key it was filed with.
TakeUp(h, f, kind, todo) ==
  /\ dlq' = [dlq EXCEPT ![f].status = "replaying"]
  /\ op' = [op EXCEPT ![h] =
              [pc |-> "calling", kind |-> kind, msg |-> dlq[f].msg, text |-> dlq[f].text,
               key |-> dlq[f].key, fid |-> f, left |-> Attempts, todo |-> todo, news |-> 0]]

Replay(h, f) ==
  /\ op[h].pc = "idle" /\ LoopFree(h) /\ f \in DOMAIN dlq
  /\ \/ AlreadySent(f) /\ Settle(f, "already_delivered") /\ UNCHANGED op
     \/ Replayable(f) /\ TakeUp(h, f, "replay", <<>>)
  /\ UNCHANGED <<inbox, delivered>>

\* What remains of a batch; its last item ends the request.
Onward(h, todo) ==
  op' = [op EXCEPT ![h] =
           IF todo = <<>> THEN Idle ELSE [Idle EXCEPT !.pc = "next", !.kind = "bulk", !.todo = todo]]

\* Replay the given failures, in the order given and each once.
ReplayBulk(h, ids) ==
  /\ op[h].pc = "idle" /\ LoopFree(h)
  /\ IsInjective(ids)
  /\ Onward(h, ids)
  /\ UNCHANGED <<inbox, dlq, delivered>>

\* The ids are the first of the pending failures, in their order.
Pending == {f \in DOMAIN dlq : dlq[f].status = "pending_retry"}
FirstPending(ids) ==
  /\ ToSet(ids) \subseteq Pending
  /\ \A i, k \in DOMAIN ids : i < k => ids[i] < ids[k]
  /\ \A f \in Pending \ ToSet(ids) : \A i \in DOMAIN ids : ids[i] < f

ReplayPending(h, ids) ==
  /\ op[h].pc = "idle" /\ LoopFree(h)
  /\ FirstPending(ids)
  /\ Onward(h, ids)
  /\ UNCHANGED <<inbox, dlq, delivered>>

\* One item of a batch: passed over when it is unknown or resolved, closed when its
\* message has gone out, or taken up.
NextItem(h) ==
  LET f == Head(op[h].todo)
      rest == Tail(op[h].todo) IN
  /\ op[h].pc = "next"
  /\ \/ f \notin DOMAIN dlq /\ Onward(h, rest) /\ UNCHANGED dlq
     \/ f \in DOMAIN dlq /\ AlreadySent(f) /\ Settle(f, "already_delivered") /\ Onward(h, rest)
     \/ f \in DOMAIN dlq /\ ~AlreadySent(f) /\ dlq[f].status \in Resolved
        /\ Onward(h, rest) /\ UNCHANGED dlq
     \/ f \in DOMAIN dlq /\ Replayable(f) /\ TakeUp(h, f, "bulk", rest)
  /\ UNCHANGED <<inbox, delivered>>

-----------------------------------------------------------------------------
(* The calls of one delivery.  The network honours the Idempotency-Key      *)
(* header: it publishes the first reply that comes under a key and answers  *)
(* the later ones with that.  A call is answered, published with its answer *)
(* lost, or refused; after Attempts failed calls the delivery has failed.   *)

\* news counts what an approval has had published, with the replays of the
\* failure it left.
Publish(h, request) ==
  LET m == op[h].msg
      k == op[h].key
      new == IF delivered[m][k] = None THEN 1 ELSE 0 IN
  /\ delivered' = [delivered EXCEPT ![m][k] = IF @ = None THEN op[h].text ELSE @]
  /\ IF op[h].kind = "approve"
     THEN op' = [op EXCEPT ![h] = [request EXCEPT !.news = @ + new]] /\ UNCHANGED dlq
     ELSE op' = [op EXCEPT ![h] = request] /\ dlq' = [dlq EXCEPT ![op[h].fid].news = @ + new]

\* Mutant of Failed: one call too many.
FailedLate(h) == IF op[h].left = 0 THEN [op[h] EXCEPT !.pc = "bad"]
                                   ELSE [op[h] EXCEPT !.left = @ - 1]

\* The request after a failed call.
Failed(h) == IF op[h].left = 1 THEN [op[h] EXCEPT !.left = 0, !.pc = "bad"]
                               ELSE [op[h] EXCEPT !.left = @ - 1]

Answered(h) ==
  /\ op[h].pc = "calling"
  /\ Publish(h, [op[h] EXCEPT !.pc = "ok", !.left = 0])
  /\ UNCHANGED inbox

AnswerLost(h) ==
  /\ op[h].pc = "calling"
  /\ Publish(h, Failed(h))
  /\ UNCHANGED inbox

Refused(h) ==
  /\ op[h].pc = "calling"
  /\ op' = [op EXCEPT ![h] = Failed(h)]
  /\ UNCHANGED <<inbox, dlq, delivered>>

-----------------------------------------------------------------------------
(* Recording the outcome.                                                   *)

MarkSent(h) ==
  inbox' = [inbox EXCEPT ![op[h].msg] =
              [@ EXCEPT !.status = "other", !.delivery = "sent", !.failure = 0, !.key = op[h].key]]
MarkFailed(h) ==
  inbox' = [inbox EXCEPT ![op[h].msg] =
              [@ EXCEPT !.delivery = "failed", !.failure = op[h].fid, !.key = op[h].key]]

\* Mutant of Reopen: a failed replay leaves the failure as it is.
ReopenForgotten(h) == UNCHANGED dlq

\* Mutant of Reopen: the outcome of a replay is not looked at.
ReopenClosed(h) == dlq' = [dlq EXCEPT ![op[h].fid].status = "replayed"]

Reopen(h) == dlq' = [dlq EXCEPT ![op[h].fid].status = "pending_retry"]

Done(h) == op' = [op EXCEPT ![h] = Idle]

\* An approval that succeeds marks the message; one that fails files a failure
\* first, and marks the message in another critical section.
ApproveSent(h) ==
  /\ op[h].pc = "ok" /\ op[h].kind = "approve" /\ LoopFree(h)
  /\ MarkSent(h) /\ Done(h)
  /\ UNCHANGED <<dlq, delivered>>

ApproveFailed(h) ==
  /\ op[h].pc = "bad" /\ op[h].kind = "approve" /\ LoopFree(h)
  /\ dlq' = Append(dlq, [msg |-> op[h].msg, text |-> op[h].text, key |-> op[h].key,
                         status |-> "pending_retry", news |-> op[h].news])
  /\ op' = [op EXCEPT ![h].pc = "filed", ![h].fid = Len(dlq) + 1]
  /\ UNCHANGED <<inbox, delivered>>

\* A replay writes the failure and the message in two critical sections.
ReplaySent(h) ==
  /\ op[h].pc = "ok" /\ op[h].kind = "replay" /\ LoopFree(h)
  /\ Settle(op[h].fid, "replayed")
  /\ op' = [op EXCEPT ![h].pc = "closed"]
  /\ UNCHANGED <<inbox, delivered>>

ReplayFailed(h) ==
  /\ op[h].pc = "bad" /\ op[h].kind = "replay" /\ LoopFree(h)
  /\ Reopen(h)
  /\ op' = [op EXCEPT ![h].pc = "filed"]
  /\ UNCHANGED <<inbox, delivered>>

MessageWritten(h) ==
  /\ \/ op[h].pc = "filed" /\ MarkFailed(h)
     \/ op[h].pc = "closed" /\ MarkSent(h)
  /\ Done(h)
  /\ UNCHANGED <<dlq, delivered>>

\* A batch writes both in one critical section and goes on with its next item.
ItemSent(h) ==
  /\ op[h].pc = "ok" /\ op[h].kind = "bulk" /\ LoopFree(h)
  /\ Settle(op[h].fid, "replayed") /\ MarkSent(h) /\ Onward(h, op[h].todo)
  /\ UNCHANGED delivered

ItemFailed(h) ==
  /\ op[h].pc = "bad" /\ op[h].kind = "bulk" /\ LoopFree(h)
  /\ Reopen(h) /\ MarkFailed(h) /\ Onward(h, op[h].todo)
  /\ UNCHANGED delivered

-----------------------------------------------------------------------------
(* Requests that die.                                                       *)

\* The requests that are sending the reply of failure f.
Replaying(f) == {h \in Handlers : op[h].kind \in {"replay", "bulk"} /\ op[h].fid = f
                                  /\ op[h].pc \in {"calling", "ok", "bad"}}

\* The requests of H end where they are; what they had still to write is never written.
Perish(H) ==
  /\ op' = [h \in Handlers |-> IF h \in H THEN Idle ELSE op[h]]
  /\ UNCHANGED <<inbox, dlq, delivered>>

\* A coroutine that waits for the network is cancelled: CancelledError is not an
\* Exception, and no handler undoes what was written before.  Retry settings that
\* cannot be read end it in the same way, before the first call.
Cancel(h) == op[h].pc \in {"calling", "ok", "bad"} /\ Perish({h})

\* The process is lost with every request under way.  The lists come back with what was
\* written; a snapshot that is behind them is left to ProcessStores.
Crash == (\E h \in Handlers : op[h].pc # "idle") /\ Perish(Handlers)

-----------------------------------------------------------------------------
\* MaxFailures: agents stage and update while the reply could still be approved.
Pool ==
  \/ Len(dlq) < MaxFailures /\ \E m \in Messages :
       \/ \E t \in Texts, approval \in BOOLEAN : AutoRespond(m, t, approval)
       \/ Reject(m)
       \/ \E s \in MessageStatus : UpdateMessage(m, s)
  \/ \E F \in SUBSET (DOMAIN dlq) : F # {} /\ Resolve(F)

Start(h) ==
  \/ \E m \in Messages : Approve(h, m)
  \/ \E f \in FailureIds : Replay(h, f)
  \/ \E n \in FailureIds : \E ids \in [1 .. n -> FailureIds] :
       ReplayBulk(h, ids) \/ ReplayPending(h, ids)

Proceed(h) ==
  \/ NextItem(h)
  \/ Answered(h) \/ AnswerLost(h) \/ Refused(h)
  \/ ApproveSent(h) \/ ApproveFailed(h)
  \/ ReplaySent(h) \/ ReplayFailed(h) \/ MessageWritten(h)
  \/ ItemSent(h) \/ ItemFailed(h)

Next == Pool \/ Crash \/ \E h \in Handlers : Start(h) \/ Proceed(h) \/ Cancel(h)

Spec == Init /\ [][Next]_vars

-----------------------------------------------------------------------------
Message == [status : MessageStatus, preview : Texts \cup {None}, delivery : DeliveryStatus,
            failure : Nat, key : Key]
Failure == [msg : Messages, text : Texts, key : Texts, status : FailureStatus, news : Nat]
Request == [pc : {"idle", "next", "calling", "ok", "bad", "filed", "closed"},
            kind : {"none", "approve", "replay", "bulk"},
            msg : Messages \cup {None}, text : Texts \cup {None}, key : Key,
            fid : Nat, left : 0 .. Attempts, todo : Seq(FailureIds), news : Nat]

\* Every value has its type; a request that sends knows its message, its reply and its key
\* and has calls left, and one that has its next item to take has one.
TypeOK ==
  /\ inbox \in [Messages -> Message]
  /\ dlq \in Seq(Failure)
  /\ op \in [Handlers -> Request]
  /\ delivered \in [Messages -> [Texts -> Texts \cup {None}]]
  /\ \A h \in Handlers :
       /\ op[h].pc \notin {"idle", "next"} =>
            op[h].msg \in Messages /\ op[h].text \in Texts /\ op[h].key \in Texts
       /\ op[h].pc = "calling" => op[h].left > 0
       /\ op[h].pc = "next" => op[h].todo # <<>>

\* However often its calls are retried and its failure is replayed, by whomever and at
\* once, an approved reply is published at most once: "guarding against duplicate
\* sends" (replay_delivery_failure.py:30).  New replies staged meanwhile do not matter.
PublishedOnce ==
  /\ \A f \in DOMAIN dlq : dlq[f].news <= 1
  /\ \A h \in Handlers : op[h].news <= 1

\* The network has published something under this key.
Published(m, k) == k # None /\ delivered[m][k] # None

\* Nothing leaves the dead-letter queue unanswered for: a failure is resolved only when
\* the network has published under its key, when its message had gone out, or by hand;
\* and a message is marked sent only when the network has published under its key.
NothingDropped ==
  /\ \A f \in DOMAIN dlq :
       /\ dlq[f].status = "replayed" => Published(dlq[f].msg, dlq[f].key)
       /\ dlq[f].status = "already_delivered" => \E k \in Texts : Published(dlq[f].msg, k)
  /\ \A m \in Messages : inbox[m].delivery = "sent" => Published(m, inbox[m].key)

\* Failure f is marked replaying, and nobody replays it: the pending sweep passes over it
\* (delivery_failure_metrics.py:244), and only a replay by its id takes it up again.
Abandoned(f) == dlq[f].status = "replaying" /\ Replaying(f) = {}

\* However replays of one failure overlap, none that comes to its end leaves the failure
\* abandoned: only a cancellation or the loss of the process does.
NoneAbandoned ==
  [][\A f \in DOMAIN dlq :
       ~Abandoned(f) /\ Abandoned(f)' => Crash \/ \E h \in Replaying(f) : Cancel(h)]_vars

\* A resolved failure comes back only through a replay that had begun before and then
\* failed; it is never taken up afresh.
ResolvedStays ==
  [][\A f \in DOMAIN dlq :
       dlq[f].status \in Resolved /\ dlq'[f].status \notin Resolved =>
         dlq'[f].status = "pending_retry" /\ \E h \in Replaying(f) : op[h].pc = "bad"]_vars

\* The whole design implements what the inbox promises about its dead-letter queue:
\* requests, retries, batches, operators and crashes at once close a letter only when it is
\* answered for, and bring one back only from a replay that had taken it up.
Queue == INSTANCE DeadLetters WITH
  Replayers <- Handlers,
  letters <- [f \in DOMAIN dlq |-> dlq[f].status],
  hands <- [f \in DOMAIN dlq |-> Replaying(f)],
  answered <- {f \in DOMAIN dlq : Published(dlq[f].msg, dlq[f].key)},
  gone <- {f \in DOMAIN dlq : \E k \in Texts : Published(dlq[f].msg, k)}
ImplementsDeadLetters == Queue!Spec

\* A message shown as failed names a failure of its own that an operator can still act on.
Actionable(m) ==
  inbox[m].delivery = "failed" =>
    dlq[inbox[m].failure].msg = m /\ dlq[inbox[m].failure].status \notin Resolved

\* It stops doing so only inside the two critical sections of one request: after the
\* failure is closed and before the message is marked, or when the message is marked
\* failed after somebody resolved the failure just filed.
OnlyBetweenSections ==
  [][\A m \in Messages :
       Actionable(m) /\ ~Actionable(m)' =>
         \E h \in Handlers : \/ op[h].pc = "filed" /\ op[h].msg = m
                             \/ op'[h].pc = "closed" /\ op'[h].msg = m]_vars

\* "No message loss (Smart Inbox DLQ persists indefinitely)" (README.md:749): a reply the
\* approver is told is delivered has been published.
NoMessageLoss ==
  \A h \in Handlers :
    op[h].pc = "ok" => \E k \in Texts : delivered[op[h].msg][k] = op[h].text
=============================================================================

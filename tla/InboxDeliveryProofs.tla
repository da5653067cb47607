------------------------ MODULE InboxDeliveryProofs ------------------------
(***************************************************************************)
(* Proofs that an approved reply is published at most once and that        *)
(* nothing leaves the dead-letter queue unanswered for, for every number   *)
(* of messages, replies, requests, calls and failures.                     *)
(***************************************************************************)
EXTENDS InboxDelivery, SequenceTheorems, TLAPS

\* Rewriting one failure of the queue.
LEMMA Rewritten ==
  ASSUME dlq \in Seq(Failure), NEW f \in DOMAIN dlq, NEW e \in Failure,
         dlq' = [dlq EXCEPT ![f] = e]
  PROVE  /\ dlq' \in Seq(Failure) /\ DOMAIN dlq' = DOMAIN dlq /\ Len(dlq') = Len(dlq)
         /\ dlq'[f] = e
         /\ \A g \in DOMAIN dlq : g # f => dlq'[g] = dlq[g]
<1>1. f \in 1 .. Len(dlq) /\ DOMAIN dlq = 1 .. Len(dlq)
  OBVIOUS
<1>2. dlq' \in Seq(Failure) /\ Len(dlq') = Len(dlq)
  BY <1>1, ExceptSeq
<1>3. DOMAIN dlq' = DOMAIN dlq
  BY <1>1, <1>2
<1> QED
  BY <1>1, <1>2, <1>3

\* An entry of the queue has the type of a failure.
LEMMA Entry ==
  ASSUME dlq \in Seq(Failure), NEW f \in DOMAIN dlq
  PROVE  dlq[f] \in Failure
BY ElementOfSeq

LEMMA SettleType ==
  ASSUME dlq \in Seq(Failure), NEW f \in DOMAIN dlq, NEW s \in FailureStatus,
         dlq' = [dlq EXCEPT ![f].status = s]
  PROVE  /\ dlq' \in Seq(Failure) /\ DOMAIN dlq' = DOMAIN dlq /\ Len(dlq') = Len(dlq)
         /\ dlq'[f] = [dlq[f] EXCEPT !.status = s]
         /\ \A g \in DOMAIN dlq : g # f => dlq'[g] = dlq[g]
<1>1. [dlq[f] EXCEPT !.status = s] \in Failure
  BY Entry DEF Failure
<1>2. dlq' = [dlq EXCEPT ![f] = [dlq[f] EXCEPT !.status = s]]
  OBVIOUS
<1> QED
  BY <1>1, <1>2, Rewritten

LEMMA ResolveType ==
  ASSUME dlq \in Seq(Failure), NEW F \in SUBSET (DOMAIN dlq), Resolve(F)
  PROVE  /\ dlq' \in Seq(Failure) /\ DOMAIN dlq' = DOMAIN dlq
         /\ \A f \in F : dlq'[f] = [dlq[f] EXCEPT !.status = "manual_followup"]
         /\ \A f \in DOMAIN dlq \ F : dlq'[f] = dlq[f]
<1>1. DOMAIN dlq = 1 .. Len(dlq) /\ Len(dlq) \in Nat
  OBVIOUS
<1>2. \A f \in DOMAIN dlq : [dlq[f] EXCEPT !.status = "manual_followup"] \in Failure
  BY Entry DEF Failure, FailureStatus, Resolved
<1>3. dlq' \in [1 .. Len(dlq) -> Failure]
  BY <1>1, <1>2, Entry DEF Resolve
<1>4. dlq' \in Seq(Failure)
  BY <1>1, <1>3, SeqDef
<1> QED
  BY <1>1, <1>4 DEF Resolve

-----------------------------------------------------------------------------
\* What is known of a request between its start and its end.
LEMMA Sender ==
  ASSUME TypeOK, NEW h \in Handlers, op[h].pc \notin {"idle", "next"}
  PROVE  /\ op[h] \in Request
         /\ op[h].msg \in Messages /\ op[h].text \in Texts /\ op[h].key \in Texts
BY DEF TypeOK

\* What TypeOK says of one request.
Sound(r) ==
  /\ r \in Request
  /\ r.pc \notin {"idle", "next"} => r.msg \in Messages /\ r.text \in Texts /\ r.key \in Texts
  /\ r.pc = "calling" => r.left > 0
  /\ r.pc = "next" => r.todo # <<>>

\* A step that changes one request keeps the types of all.
LEMMA OneRequest ==
  ASSUME TypeOK, NEW h \in Handlers, NEW r, Sound(r), op' = [op EXCEPT ![h] = r],
         inbox' \in [Messages -> Message], dlq' \in Seq(Failure),
         delivered' \in [Messages -> [Texts -> Texts \cup {None}]]
  PROVE  TypeOK'
<1>1. op' \in [Handlers -> Request] /\ op'[h] = r /\ \A g \in Handlers \ {h} : op'[g] = op[g]
  BY DEF TypeOK, Sound
<1>2. \A g \in Handlers : Sound(op'[g])
  BY <1>1 DEF TypeOK, Sound
<1> QED
  BY <1>1, <1>2 DEF TypeOK, Sound

LEMMA IdleSound == ASSUME InboxAssumption PROVE Sound(Idle)
BY EmptySeq DEF Idle, Sound, Request, Key, InboxAssumption

\* The end of an item: the request is idle or has the rest of its batch to do.
LEMMA OnwardType ==
  ASSUME InboxAssumption, TypeOK, NEW h \in Handlers, NEW todo \in Seq(FailureIds),
         Onward(h, todo), inbox' \in [Messages -> Message], dlq' \in Seq(Failure),
         delivered' \in [Messages -> [Texts -> Texts \cup {None}]]
  PROVE  TypeOK'
<1> DEFINE r == IF todo = <<>> THEN Idle
                ELSE [Idle EXCEPT !.pc = "next", !.kind = "bulk", !.todo = todo]
<1>1. Sound(r)
  <2>1. CASE todo = <<>>
    BY <2>1, IdleSound
  <2>2. CASE todo # <<>>
    BY <2>2, IdleSound DEF Idle, Sound, Request
  <2> QED
    BY <2>1, <2>2
<1>2. op' = [op EXCEPT ![h] = r]
  BY DEF Onward
<1> HIDE DEF r
<1> QED
  BY <1>1, <1>2, OneRequest

\* Taking up a failure.
LEMMA TakeUpType ==
  ASSUME InboxAssumption, TypeOK, NEW h \in Handlers, NEW f \in DOMAIN dlq,
         NEW kind \in {"replay", "bulk"}, NEW todo \in Seq(FailureIds), TakeUp(h, f, kind, todo),
         UNCHANGED <<inbox, delivered>>
  PROVE  TypeOK'
<1> DEFINE r == [pc |-> "calling", kind |-> kind, msg |-> dlq[f].msg, text |-> dlq[f].text,
                 key |-> dlq[f].key, fid |-> f, left |-> Attempts, todo |-> todo, news |-> 0]
<1>1. dlq[f] \in Failure /\ f \in Nat
  BY Entry DEF TypeOK
<1>2. Sound(r)
  BY <1>1 DEF Sound, Request, Failure, Key, InboxAssumption
<1>3. dlq' \in Seq(Failure)
  BY SettleType DEF TypeOK, TakeUp, FailureStatus
<1>4. op' = [op EXCEPT ![h] = r]
  BY DEF TakeUp
<1> HIDE DEF r
<1> QED
  BY <1>2, <1>3, <1>4, OneRequest DEF TypeOK

\* A call that reaches the network.
LEMMA PublishType ==
  ASSUME TypeOK, NEW h \in Handlers, op[h].pc = "calling", NEW r, Sound(r),
         op[h].kind # "approve" => op[h].fid \in DOMAIN dlq,
         Publish(h, r), UNCHANGED inbox
  PROVE  TypeOK'
<1>1. op[h].msg \in Messages /\ op[h].text \in Texts /\ op[h].key \in Texts
  BY Sender
<1> DEFINE new == IF delivered[op[h].msg][op[h].key] = None THEN 1 ELSE 0
<1>2. delivered' \in [Messages -> [Texts -> Texts \cup {None}]]
  BY <1>1 DEF TypeOK, Publish
<1>3. CASE op[h].kind = "approve"
  <2>1. Sound([r EXCEPT !.news = @ + new])
    BY DEF Sound, Request
  <2>2. op' = [op EXCEPT ![h] = [r EXCEPT !.news = @ + new]] /\ dlq' = dlq
    BY <1>3 DEF Publish
  <2> HIDE DEF new
  <2> QED
    BY <1>2, <2>1, <2>2, OneRequest DEF TypeOK
<1>4. CASE op[h].kind # "approve"
  <2>1. dlq[op[h].fid] \in Failure
    BY <1>4, Entry DEF TypeOK
  <2>2. [dlq[op[h].fid] EXCEPT !.news = @ + new] \in Failure
    BY <2>1 DEF Failure
  <2>3. dlq' = [dlq EXCEPT ![op[h].fid] = [dlq[op[h].fid] EXCEPT !.news = @ + new]]
    BY <1>4 DEF Publish
  <2>4. dlq' \in Seq(Failure)
    BY <1>4, <2>2, <2>3, Rewritten DEF TypeOK
  <2>5. op' = [op EXCEPT ![h] = r]
    BY <1>4 DEF Publish
  <2> QED
    BY <1>2, <2>4, <2>5, OneRequest DEF TypeOK
<1> QED
  BY <1>3, <1>4

\* A call that was answered.
LEMMA AnsweredSound ==
  ASSUME InboxAssumption, TypeOK, NEW h \in Handlers, op[h].pc = "calling"
  PROVE  Sound([op[h] EXCEPT !.pc = "ok", !.left = 0])
<1>1. op[h] \in Request /\ op[h].msg \in Messages /\ op[h].text \in Texts /\ op[h].key \in Texts
  BY Sender
<1>2. 0 \in 0 .. Attempts
  BY DEF InboxAssumption
<1>3. [op[h] EXCEPT !.left = 0] \in Request
  BY <1>1, <1>2 DEF Request
<1>4. [[op[h] EXCEPT !.left = 0] EXCEPT !.pc = "ok"] \in Request
  BY <1>3 DEF Request
<1> QED
  BY <1>1, <1>4 DEF Sound, Request

\* A call that failed.
LEMMA FailedSound ==
  ASSUME InboxAssumption, TypeOK, NEW h \in Handlers, op[h].pc = "calling"
  PROVE  Sound(Failed(h))
<1>1. op[h] \in Request /\ op[h].left \in 1 .. Attempts
  BY DEF TypeOK, Request, InboxAssumption
<1>2. op[h].msg \in Messages /\ op[h].text \in Texts /\ op[h].key \in Texts
  BY Sender
<1>3. CASE op[h].left = 1
  <2>1. Failed(h) = [op[h] EXCEPT !.left = 0, !.pc = "bad"]
    BY <1>3 DEF Failed
  <2>2. Failed(h) \in Request
    <3>1. 0 \in 0 .. Attempts
      BY DEF InboxAssumption
    <3>2. [op[h] EXCEPT !.left = 0] \in Request
      BY <1>1, <3>1 DEF Request
    <3>3. [[op[h] EXCEPT !.left = 0] EXCEPT !.pc = "bad"] \in Request
      BY <3>2 DEF Request
    <3> QED
      BY <2>1, <3>3
  <2>3. Failed(h).pc = "bad" /\ Failed(h).msg = op[h].msg /\ Failed(h).text = op[h].text
        /\ Failed(h).key = op[h].key
    BY <1>1, <2>1 DEF Request
  <2> QED
    BY <1>2, <2>2, <2>3 DEF Sound
<1>4. CASE op[h].left # 1
  BY <1>1, <1>2, <1>4 DEF Failed, Sound, Request, InboxAssumption
<1> QED
  BY <1>3, <1>4

\* Requests that die.
LEMMA PerishType ==
  ASSUME InboxAssumption, TypeOK, NEW H, Perish(H)
  PROVE  TypeOK'
<1>1. \A h \in Handlers : Sound(op'[h])
  <2> SUFFICES ASSUME NEW h \in Handlers PROVE Sound(op'[h])
    OBVIOUS
  <2>1. op'[h] = IF h \in H THEN Idle ELSE op[h]
    BY DEF Perish
  <2>2. Sound(op[h])
    BY DEF TypeOK, Sound
  <2> QED
    BY <2>1, <2>2, IdleSound
<1>2. op' \in [Handlers -> Request]
  BY <1>1 DEF Perish, Sound
<1> QED
  BY <1>1, <1>2 DEF Perish, TypeOK, Sound

-----------------------------------------------------------------------------
(* The inductive invariant.                                                 *)

\* h works on the failure it names: it replays it or it has just filed it.
OnFailure(h) ==
  \/ op[h].pc = "filed"
  \/ op[h].kind \in {"replay", "bulk"} /\ op[h].pc # "next"

\* A request is where its kind leads, and the failure it works on is in the queue, with
\* the message and the key of the request; so is the failure that a message shows.
Engaged ==
  /\ \A h \in Handlers :
       /\ op[h].pc = "idle" <=> op[h].kind = "none"
       /\ op[h].pc = "next" => op[h].kind = "bulk"
       /\ op[h].pc = "closed" => op[h].kind = "replay"
       /\ op[h].pc = "filed" => op[h].kind \in {"approve", "replay"}
       /\ OnFailure(h) => /\ op[h].fid \in DOMAIN dlq
                          /\ dlq[op[h].fid].msg = op[h].msg /\ dlq[op[h].fid].key = op[h].key
  /\ \A m \in Messages : inbox[m].delivery = "failed" => inbox[m].failure \in DOMAIN dlq

\* What is published counts, and counts once: while nothing is published under a key,
\* neither the failures nor the approvals of that key have had anything published.
Counted ==
  /\ \A f \in DOMAIN dlq :
       dlq[f].news <= 1 /\ (~Published(dlq[f].msg, dlq[f].key) => dlq[f].news = 0)
  /\ \A h \in Handlers :
       IF op[h].kind = "approve"
       THEN op[h].news <= 1 /\ (~Published(op[h].msg, op[h].key) => op[h].news = 0)
       ELSE op[h].news = 0

\* A request that has been answered has its reply's key published.
Answering ==
  \A h \in Handlers : op[h].pc \in {"ok", "closed"} => Published(op[h].msg, op[h].key)

IInv == TypeOK /\ Engaged /\ Counted /\ Answering /\ NothingDropped

-----------------------------------------------------------------------------
\* Every step keeps the types.
LEMMA TypeStep ==
  ASSUME InboxAssumption, TypeOK, Engaged, [Next]_vars
  PROVE  TypeOK'
<1>0. /\ inbox \in [Messages -> Message] /\ dlq \in Seq(Failure) /\ op \in [Handlers -> Request]
      /\ delivered \in [Messages -> [Texts -> Texts \cup {None}]]
  BY DEF TypeOK
<1>1. ASSUME NEW m \in Messages, NEW t \in Texts, NEW s \in MessageStatus,
             inbox' = [inbox EXCEPT ![m].preview = t, ![m].status = s],
             UNCHANGED <<dlq, op, delivered>>
      PROVE  TypeOK'
  <2> DEFINE r == [inbox[m] EXCEPT !.preview = t, !.status = s]
  <2>1. inbox[m] \in Message
    BY <1>0
  <2>2. r \in Message
    BY <2>1 DEF Message
  <2>3. inbox' = [inbox EXCEPT ![m] = r]
    BY <1>1
  <2> HIDE DEF r
  <2>4. inbox' \in [Messages -> Message]
    BY <1>0, <2>2, <2>3
  <2> QED
    BY <1>1, <2>4 DEF TypeOK
<1>2. ASSUME NEW m \in Messages, NEW t \in Texts, NEW a \in BOOLEAN, AutoRespond(m, t, a)
      PROVE  TypeOK'
  <2>1. CASE a
    BY <1>1, <1>2, <2>1 DEF AutoRespond, MessageStatus
  <2>2. CASE ~a
    BY <1>1, <1>2, <2>2 DEF AutoRespond, MessageStatus
  <2> QED
    BY <2>1, <2>2
<1>3. ASSUME NEW m \in Messages, Reject(m) PROVE TypeOK'
  BY <1>3 DEF Reject, TypeOK, Message, MessageStatus
<1>4. ASSUME NEW m \in Messages, NEW s \in MessageStatus, UpdateMessage(m, s) PROVE TypeOK'
  BY <1>4 DEF UpdateMessage, TypeOK, Message
<1>5. ASSUME NEW F \in SUBSET (DOMAIN dlq), Resolve(F) PROVE TypeOK'
  <2>1. dlq' \in Seq(Failure)
    BY <1>0, <1>5, ResolveType
  <2>2. inbox' \in [Messages -> Message]
    <3>1. ASSUME NEW m \in Messages PROVE inbox'[m] \in Message
      <4> DEFINE s == IF inbox[m].status = "requires_approval" THEN "other" ELSE inbox[m].status
                 r == [inbox[m] EXCEPT !.status = s, !.delivery = "manual_followup_required",
                                       !.failure = 0]
      <4>1. inbox[m] \in Message
        BY <1>0
      <4>2. s \in MessageStatus
        BY <4>1 DEF Message, MessageStatus
      <4>3. inbox'[m] \in {r, inbox[m]}
        BY <1>5 DEF Resolve
      <4> HIDE DEF s
      <4>4. r \in Message
        BY <4>1, <4>2 DEF Message, DeliveryStatus
      <4> QED
        BY <4>1, <4>3, <4>4
    <3>2. inbox' = [m \in Messages |-> inbox'[m]]
      BY <1>5 DEF Resolve
    <3> QED
      BY <3>1, <3>2
  <2> QED
    BY <1>5, <2>1, <2>2 DEF Resolve, TypeOK
<1>6. ASSUME NEW h \in Handlers, NEW m \in Messages, Approve(h, m) PROVE TypeOK'
  <2> DEFINE r == [pc |-> "calling", kind |-> "approve", msg |-> m, text |-> inbox[m].preview,
                   key |-> KeyFor(m), fid |-> 0, left |-> Attempts, todo |-> <<>>, news |-> 0]
  <2>1. inbox[m] \in Message /\ inbox[m].preview # None
    BY <1>0, <1>6 DEF Approve, AwaitsApproval
  <2>2. inbox[m].preview \in Texts /\ KeyFor(m) \in Texts
    BY <2>1 DEF KeyFor, Message, Key
  <2>3. Sound(r)
    <3>1. <<>> \in Seq(FailureIds) /\ Attempts \in 0 .. Attempts /\ Attempts > 0
      BY EmptySeq DEF InboxAssumption
    <3>2. r \in Request
      BY <2>2, <3>1 DEF Request, Key
    <3> QED
      BY <2>2, <3>1, <3>2 DEF Sound
  <2>4. op' = [op EXCEPT ![h] = r] /\ UNCHANGED <<inbox, dlq, delivered>>
    BY <1>6 DEF Approve
  <2> HIDE DEF r
  <2> QED
    BY <1>0, <2>3, <2>4, OneRequest
<1>7. ASSUME NEW h \in Handlers, NEW f \in FailureIds, Replay(h, f) PROVE TypeOK'
  <2>1. CASE Settle(f, "already_delivered") /\ UNCHANGED op
    <3>1. dlq' \in Seq(Failure)
      BY <1>0, <1>7, <2>1, SettleType DEF Replay, Settle, FailureStatus, Resolved
    <3> QED
      BY <1>7, <2>1, <3>1 DEF Replay, TypeOK
  <2>2. CASE TakeUp(h, f, "replay", <<>>)
    BY <1>7, <2>2, TakeUpType, EmptySeq DEF Replay
  <2> QED
    BY <1>7, <2>1, <2>2 DEF Replay
<1>8. ASSUME NEW h \in Handlers, NEW n \in FailureIds, NEW ids \in [1 .. n -> FailureIds],
             ReplayBulk(h, ids) \/ ReplayPending(h, ids)
      PROVE  TypeOK'
  <2>1. ids \in Seq(FailureIds)
    BY SeqDef DEF FailureIds
  <2> QED
    BY <1>0, <1>8, <2>1, OnwardType DEF ReplayBulk, ReplayPending
<1>9. ASSUME NEW h \in Handlers, NextItem(h) PROVE TypeOK'
  <2> DEFINE f == Head(op[h].todo)
             rest == Tail(op[h].todo)
  <2>1. op[h].todo \in Seq(FailureIds) /\ op[h].todo # <<>>
    BY <1>0, <1>9 DEF NextItem, TypeOK, Request
  <2>2. rest \in Seq(FailureIds)
    BY <2>1, HeadTailProperties
  <2>3. CASE Onward(h, rest) /\ UNCHANGED dlq
    BY <1>0, <1>9, <2>2, <2>3, OnwardType DEF NextItem
  <2>4. CASE f \in DOMAIN dlq /\ Settle(f, "already_delivered") /\ Onward(h, rest)
    <3>1. dlq' \in Seq(Failure)
      BY <1>0, <2>4, SettleType DEF Settle, FailureStatus, Resolved
    <3> QED
      BY <1>0, <1>9, <2>2, <2>4, <3>1, OnwardType DEF NextItem
  <2>5. CASE f \in DOMAIN dlq /\ TakeUp(h, f, "bulk", rest)
    BY <1>9, <2>2, <2>5, TakeUpType DEF NextItem
  <2> QED
    BY <1>9, <2>3, <2>4, <2>5 DEF NextItem
<1>10. ASSUME NEW h \in Handlers, op[h].pc = "calling"
       PROVE  op[h].kind # "approve" => op[h].fid \in DOMAIN dlq
  BY <1>0, <1>10 DEF Engaged, OnFailure, Request
<1>11. ASSUME NEW h \in Handlers, Answered(h) PROVE TypeOK'
  <2>1. Sound([op[h] EXCEPT !.pc = "ok", !.left = 0])
    BY <1>11, AnsweredSound DEF Answered
  <2> QED
    BY <1>10, <1>11, <2>1, PublishType DEF Answered
<1>12. ASSUME NEW h \in Handlers, AnswerLost(h) PROVE TypeOK'
  BY <1>10, <1>12, FailedSound, PublishType DEF AnswerLost
<1>13. ASSUME NEW h \in Handlers, Refused(h) PROVE TypeOK'
  BY <1>0, <1>13, FailedSound, OneRequest DEF Refused
<1>14. ASSUME NEW h \in Handlers, op[h].pc \in {"ok", "closed"}, MarkSent(h)
       PROVE  inbox' \in [Messages -> Message]
  <2>1. op[h].msg \in Messages /\ op[h].key \in Key
    BY <1>14, Sender DEF Key
  <2>2. inbox[op[h].msg] \in Message
    BY <1>0, <2>1
  <2> DEFINE r == [inbox[op[h].msg] EXCEPT !.status = "other", !.delivery = "sent",
                                           !.failure = 0, !.key = op[h].key]
  <2>3. r \in Message
    BY <2>1, <2>2 DEF Message, MessageStatus, DeliveryStatus
  <2>4. inbox' = [inbox EXCEPT ![op[h].msg] = r]
    BY <1>14 DEF MarkSent
  <2> HIDE DEF r
  <2> QED
    BY <1>0, <2>1, <2>3, <2>4
<1>15. ASSUME NEW h \in Handlers, op[h].pc \in {"bad", "filed"}, MarkFailed(h)
       PROVE  inbox' \in [Messages -> Message]
  <2>1. op[h].msg \in Messages /\ op[h].key \in Key /\ op[h].fid \in Nat
    BY <1>0, <1>15, Sender DEF Key, Request
  <2>2. inbox[op[h].msg] \in Message
    BY <1>0, <2>1
  <2> DEFINE r == [inbox[op[h].msg] EXCEPT !.delivery = "failed", !.failure = op[h].fid,
                                           !.key = op[h].key]
  <2>3. r \in Message
    BY <2>1, <2>2 DEF Message, DeliveryStatus
  <2>4. inbox' = [inbox EXCEPT ![op[h].msg] = r]
    BY <1>15 DEF MarkFailed
  <2> HIDE DEF r
  <2> QED
    BY <1>0, <2>1, <2>3, <2>4
<1>16. ASSUME NEW h \in Handlers, ApproveSent(h) PROVE TypeOK'
  BY <1>0, <1>14, <1>16, IdleSound, OneRequest DEF ApproveSent, Done
<1>17. ASSUME NEW h \in Handlers, ApproveFailed(h) PROVE TypeOK'
  <2> DEFINE e == [msg |-> op[h].msg, text |-> op[h].text, key |-> op[h].key,
                   status |-> "pending_retry", news |-> op[h].news]
             r == [op[h] EXCEPT !.pc = "filed", !.fid = Len(dlq) + 1]
  <2>1. op[h] \in Request /\ op[h].msg \in Messages /\ op[h].text \in Texts /\ op[h].key \in Texts
    BY <1>17, Sender DEF ApproveFailed
  <2>2. e \in Failure
    BY <2>1 DEF Failure, FailureStatus, Request
  <2>3. dlq' = Append(dlq, e)
    BY <1>17 DEF ApproveFailed
  <2>4. dlq' \in Seq(Failure)
    BY <1>0, <2>2, <2>3, AppendProperties
  <2>5. Sound(r)
    <3>1. Len(dlq) + 1 \in Nat
      BY <1>0
    <3>2. [op[h] EXCEPT !.pc = "filed"] \in Request
      BY <2>1 DEF Request
    <3>3. [[op[h] EXCEPT !.pc = "filed"] EXCEPT !.fid = Len(dlq) + 1] \in Request
      BY <3>1, <3>2 DEF Request
    <3> QED
      BY <2>1, <3>3 DEF Sound, Request
  <2>6. op' = [op EXCEPT ![h] = r]
    BY <1>17 DEF ApproveFailed
  <2> HIDE DEF r
  <2> QED
    BY <1>0, <1>17, <2>4, <2>5, <2>6, OneRequest DEF ApproveFailed
<1>18. ASSUME NEW h \in Handlers, NEW c \in {"filed", "closed"}, op[h].pc \notin {"idle", "next"}
       PROVE  Sound([op[h] EXCEPT !.pc = c])
  BY <1>18, Sender DEF Sound, Request
<1>19. ASSUME NEW h \in Handlers, op[h].kind \in {"replay", "bulk"}, op[h].pc \in {"ok", "bad"}
       PROVE  op[h].fid \in DOMAIN dlq
  BY <1>19 DEF Engaged, OnFailure
<1>20. ASSUME NEW h \in Handlers, op[h].kind \in {"replay", "bulk"}, op[h].pc \in {"ok", "bad"},
              NEW s \in FailureStatus, Settle(op[h].fid, s)
       PROVE  dlq' \in Seq(Failure)
  BY <1>0, <1>19, <1>20, SettleType DEF Settle
<1>21. ASSUME NEW h \in Handlers, ReplaySent(h) PROVE TypeOK'
  BY <1>0, <1>18, <1>20, <1>21, OneRequest DEF ReplaySent, FailureStatus, Resolved
<1>22. ASSUME NEW h \in Handlers, ReplayFailed(h) PROVE TypeOK'
  BY <1>0, <1>18, <1>20, <1>22, OneRequest DEF ReplayFailed, Reopen, Settle, FailureStatus
<1>23. ASSUME NEW h \in Handlers, MessageWritten(h) PROVE TypeOK'
  BY <1>0, <1>14, <1>15, <1>23, IdleSound, OneRequest DEF MessageWritten, Done
<1>24. ASSUME NEW h \in Handlers, ItemSent(h) PROVE TypeOK'
  <2>1. op[h].todo \in Seq(FailureIds)
    BY <1>0 DEF Request
  <2> QED
    BY <1>0, <1>14, <1>20, <1>24, <2>1, OnwardType DEF ItemSent, FailureStatus, Resolved
<1>25. ASSUME NEW h \in Handlers, ItemFailed(h) PROVE TypeOK'
  <2>1. op[h].todo \in Seq(FailureIds)
    BY <1>0 DEF Request
  <2> QED
    BY <1>0, <1>15, <1>20, <1>25, <2>1, OnwardType DEF ItemFailed, Reopen, Settle, FailureStatus
<1>26. ASSUME NEW H, Perish(H) PROVE TypeOK'
  BY <1>26, PerishType
<1>27. CASE UNCHANGED vars
  BY <1>27 DEF vars, TypeOK
<1> QED
  BY <1>2, <1>3, <1>4, <1>5, <1>6, <1>7, <1>8, <1>9, <1>11, <1>12, <1>13, <1>16, <1>17, <1>21,
     <1>22, <1>23, <1>24, <1>25, <1>26, <1>27 DEF Next, Pool, Start, Proceed, Cancel, Crash

-----------------------------------------------------------------------------
(* What every step leaves alone.                                            *)

\* Failures are never removed, and keep their message, reply and key.
SameFailures ==
  /\ DOMAIN dlq \subseteq DOMAIN dlq'
  /\ \A f \in DOMAIN dlq : /\ dlq'[f].msg = dlq[f].msg /\ dlq'[f].text = dlq[f].text
                           /\ dlq'[f].key = dlq[f].key

\* What the network has published under a key stays.
Lasting ==
  \A m \in Messages, k \in Texts : delivered[m][k] # None => delivered'[m][k] = delivered[m][k]

LEMMA SettleFrame ==
  ASSUME TypeOK, NEW f \in DOMAIN dlq, NEW s \in FailureStatus, dlq' = [dlq EXCEPT ![f].status = s]
  PROVE  /\ SameFailures /\ DOMAIN dlq' = DOMAIN dlq
         /\ dlq'[f].status = s /\ dlq'[f].news = dlq[f].news
         /\ \A g \in DOMAIN dlq : g # f => dlq'[g] = dlq[g]
<1>1. dlq \in Seq(Failure)
  BY DEF TypeOK
<1>2. dlq[f] \in Failure
  BY <1>1, Entry
<1>3. /\ DOMAIN dlq' = DOMAIN dlq /\ dlq'[f] = [dlq[f] EXCEPT !.status = s]
      /\ \A g \in DOMAIN dlq : g # f => dlq'[g] = dlq[g]
  BY <1>1, SettleType
<1> QED
  BY <1>2, <1>3 DEF SameFailures, Failure

LEMMA ResolveFrame ==
  ASSUME TypeOK, NEW F \in SUBSET (DOMAIN dlq), Resolve(F)
  PROVE  /\ SameFailures /\ DOMAIN dlq' = DOMAIN dlq
         /\ \A f \in DOMAIN dlq : dlq'[f].news = dlq[f].news
         /\ \A f \in F : dlq'[f].status = "manual_followup"
         /\ \A f \in DOMAIN dlq \ F : dlq'[f] = dlq[f]
<1>1. dlq \in Seq(Failure)
  BY DEF TypeOK
<1>2. \A f \in DOMAIN dlq : dlq[f] \in Failure
  BY <1>1, Entry
<1>3. /\ DOMAIN dlq' = DOMAIN dlq
      /\ \A f \in F : dlq'[f] = [dlq[f] EXCEPT !.status = "manual_followup"]
      /\ \A f \in DOMAIN dlq \ F : dlq'[f] = dlq[f]
  BY <1>1, ResolveType
<1> QED
  BY <1>2, <1>3 DEF SameFailures, Failure

\* The effect of a call that reaches the network: its key is published, and the approval
\* or the failure it is made for counts what is new.
LEMMA PublishFrame ==
  ASSUME InboxAssumption, TypeOK, Engaged, NEW h \in Handlers, op[h].pc = "calling", NEW r,
         Sound(r), Publish(h, r)
  PROVE  LET new == IF delivered[op[h].msg][op[h].key] = None THEN 1 ELSE 0 IN
         /\ SameFailures /\ DOMAIN dlq' = DOMAIN dlq /\ Lasting
         /\ delivered'[op[h].msg][op[h].key] # None
         /\ \A m \in Messages, k \in Texts :
              delivered'[m][k] # None => \/ delivered[m][k] # None
                                         \/ m = op[h].msg /\ k = op[h].key
         /\ \A f \in DOMAIN dlq : dlq'[f].status = dlq[f].status
         /\ \A f \in DOMAIN dlq :
              dlq'[f].news = IF op[h].kind # "approve" /\ f = op[h].fid
                             THEN dlq[f].news + new ELSE dlq[f].news
         /\ op' = [op EXCEPT ![h] = IF op[h].kind = "approve" THEN [r EXCEPT !.news = @ + new]
                                                              ELSE r]
<1> DEFINE new == IF delivered[op[h].msg][op[h].key] = None THEN 1 ELSE 0
<1>0. dlq \in Seq(Failure) /\ new \in {0, 1}
  BY DEF TypeOK
<1>1. op[h].msg \in Messages /\ op[h].text \in Texts /\ op[h].key \in Texts /\ op[h] \in Request
  BY Sender
<1>2. op[h].text # None
  BY <1>1 DEF InboxAssumption
<1>3. delivered' = [delivered EXCEPT ![op[h].msg][op[h].key] =
                      IF @ = None THEN op[h].text ELSE @]
  BY DEF Publish
<1>4. /\ Lasting /\ delivered'[op[h].msg][op[h].key] # None
      /\ \A m \in Messages, k \in Texts :
           delivered'[m][k] # None => \/ delivered[m][k] # None
                                      \/ m = op[h].msg /\ k = op[h].key
  BY <1>1, <1>2, <1>3 DEF TypeOK, Lasting
<1>5. CASE op[h].kind = "approve"
  <2>1. dlq' = dlq /\ op' = [op EXCEPT ![h] = [r EXCEPT !.news = @ + new]]
    BY <1>5 DEF Publish
  <2> QED
    BY <1>4, <1>5, <2>1 DEF SameFailures
<1>6. CASE op[h].kind # "approve"
  <2>1. op[h].fid \in DOMAIN dlq
    BY <1>1, <1>6 DEF Engaged, OnFailure, Request
  <2>2. dlq[op[h].fid] \in Failure
    BY <1>0, <2>1, Entry
  <2> DEFINE e == [dlq[op[h].fid] EXCEPT !.news = @ + new]
  <2>3. e \in Failure
    BY <2>2 DEF Failure
  <2>4. dlq' = [dlq EXCEPT ![op[h].fid] = e] /\ op' = [op EXCEPT ![h] = r]
    BY <1>6 DEF Publish
  <2>5. /\ e.msg = dlq[op[h].fid].msg /\ e.text = dlq[op[h].fid].text
        /\ e.key = dlq[op[h].fid].key /\ e.status = dlq[op[h].fid].status
        /\ e.news = dlq[op[h].fid].news + new
    BY <2>2 DEF Failure
  <2> HIDE DEF e, new
  <2>6. /\ DOMAIN dlq' = DOMAIN dlq /\ dlq'[op[h].fid] = e
        /\ \A g \in DOMAIN dlq : g # op[h].fid => dlq'[g] = dlq[g]
    BY <1>0, <2>1, <2>3, <2>4, Rewritten
  <2>7. SameFailures
    BY <2>5, <2>6 DEF SameFailures
  <2>8. \A f \in DOMAIN dlq : dlq'[f].status = dlq[f].status
    BY <2>5, <2>6
  <2>9. \A f \in DOMAIN dlq :
          dlq'[f].news = IF op[h].kind # "approve" /\ f = op[h].fid
                         THEN dlq[f].news + new ELSE dlq[f].news
    BY <1>6, <2>5, <2>6
  <2> USE DEF new
  <2> QED
    BY <1>4, <1>6, <2>4, <2>6, <2>7, <2>8, <2>9
<1> QED
  BY <1>5, <1>6

-----------------------------------------------------------------------------
(* The invariant, request by request.                                       *)

\* What Engaged and Counted say of one request: r, working on the queue dlq.
Fits(r) ==
  /\ r.pc = "idle" <=> r.kind = "none"
  /\ r.pc = "next" => r.kind = "bulk"
  /\ r.pc = "closed" => r.kind = "replay"
  /\ r.pc = "filed" => r.kind \in {"approve", "replay"}
  /\ (r.pc = "filed" \/ (r.kind \in {"replay", "bulk"} /\ r.pc # "next")) =>
       r.fid \in DOMAIN dlq /\ dlq[r.fid].msg = r.msg /\ dlq[r.fid].key = r.key
  /\ IF r.kind = "approve"
     THEN r.news <= 1 /\ (~Published(r.msg, r.key) => r.news = 0)
     ELSE r.news = 0
  /\ r.pc \in {"ok", "closed"} => Published(r.msg, r.key)

LEMMA FitsAll ==
  ASSUME Engaged, Counted, Answering
  PROVE  \A g \in Handlers : Fits(op[g])
BY DEF Engaged, Counted, Answering, OnFailure, Fits

\* A step that keeps the failures and what is published suits every request it leaves alone.
LEMMA OtherRequests ==
  ASSUME TypeOK, Engaged, Counted, Answering, SameFailures, Lasting,
         NEW g \in Handlers, op'[g] = op[g]
  PROVE  Fits(op[g])'
<1>1. Fits(op[g])
  BY FitsAll
<1>2. ASSUME op[g].pc \notin {"idle", "next"}, Published(op[g].msg, op[g].key)
      PROVE  Published(op[g].msg, op[g].key)'
  BY <1>2, Sender DEF Published, Lasting
<1> QED
  BY <1>1, <1>2 DEF Fits, SameFailures

\* What the invariant says of one failure and of one message.
Accounted(f) ==
  /\ dlq[f].news <= 1 /\ (~Published(dlq[f].msg, dlq[f].key) => dlq[f].news = 0)
  /\ dlq[f].status = "replayed" => Published(dlq[f].msg, dlq[f].key)
  /\ dlq[f].status = "already_delivered" => \E k \in Texts : Published(dlq[f].msg, k)

Shown(m) ==
  /\ inbox[m].delivery = "failed" => inbox[m].failure \in DOMAIN dlq
  /\ inbox[m].delivery = "sent" => Published(m, inbox[m].key)

LEMMA Parts ==
  IInv <=> /\ TypeOK
           /\ \A g \in Handlers : Fits(op[g])
           /\ \A f \in DOMAIN dlq : Accounted(f)
           /\ \A m \in Messages : Shown(m)
BY DEF IInv, Engaged, Counted, Answering, NothingDropped, OnFailure, Fits,
       Accounted, Shown

\* Of an entry, as of what is published about it.
LEMMA EntryFields ==
  ASSUME TypeOK, NEW f \in DOMAIN dlq
  PROVE  /\ dlq[f].msg \in Messages /\ dlq[f].text \in Texts /\ dlq[f].key \in Texts
         /\ dlq[f].status \in FailureStatus /\ dlq[f].news \in Nat
<1>1. dlq[f] \in Failure
  BY Entry DEF TypeOK
<1> QED
  BY <1>1 DEF Failure

LEMMA FailureStays ==
  ASSUME TypeOK, NEW f \in DOMAIN dlq, Accounted(f), SameFailures, Lasting,
         dlq'[f].status = dlq[f].status, dlq'[f].news = dlq[f].news
  PROVE  Accounted(f)'
<1>1. dlq'[f].msg = dlq[f].msg /\ dlq'[f].key = dlq[f].key
  BY DEF SameFailures
<1>2. \A k \in Texts : Published(dlq[f].msg, k) => Published(dlq[f].msg, k)'
  BY <1>1, EntryFields DEF Published, Lasting
<1> QED
  BY <1>1, <1>2, EntryFields DEF Accounted

LEMMA MessageStays ==
  ASSUME TypeOK, NEW m \in Messages, Shown(m), SameFailures, Lasting,
         inbox'[m].delivery = inbox[m].delivery, inbox'[m].failure = inbox[m].failure,
         inbox'[m].key = inbox[m].key
  PROVE  Shown(m)'
<1>1. inbox[m].key \in Key
  BY DEF TypeOK, Message
<1>2. Published(m, inbox[m].key) => Published(m, inbox[m].key)'
  BY <1>1 DEF Published, Lasting, Key
<1> QED
  BY <1>2 DEF Shown, SameFailures

\* A step keeps the invariant when it does so for what it changes.
LEMMA Suffices ==
  ASSUME IInv, TypeOK', SameFailures, Lasting,
         \A g \in Handlers : op'[g] = op[g] \/ Fits(op[g])',
         \A f \in DOMAIN dlq' :
           \/ Accounted(f)'
           \/ /\ f \in DOMAIN dlq /\ dlq'[f].status = dlq[f].status /\ dlq'[f].news = dlq[f].news,
         \A m \in Messages :
           \/ Shown(m)'
           \/ /\ inbox'[m].delivery = inbox[m].delivery /\ inbox'[m].failure = inbox[m].failure
              /\ inbox'[m].key = inbox[m].key
  PROVE  IInv'
<1>1. TypeOK /\ Engaged /\ Counted /\ Answering
  BY DEF IInv
<1>2. \A g \in Handlers : Fits(op[g])'
  BY <1>1, OtherRequests
<1>3. \A f \in DOMAIN dlq : Accounted(f)
  BY Parts
<1>4. \A f \in DOMAIN dlq' : Accounted(f)'
  BY <1>1, <1>3, FailureStays
<1>5. \A m \in Messages : Shown(m)
  BY Parts
<1>6. \A m \in Messages : Shown(m)'
  BY <1>1, <1>5, MessageStays
<1>7. (/\ TypeOK
       /\ \A g \in Handlers : Fits(op[g])
       /\ \A f \in DOMAIN dlq : Accounted(f)
       /\ \A m \in Messages : Shown(m))'
  BY <1>2, <1>4, <1>6
<1> QED
  BY <1>7, Parts, PTL

-----------------------------------------------------------------------------
LEMMA OpChange ==
  ASSUME TypeOK, NEW h \in Handlers, NEW r, op' = [op EXCEPT ![h] = r]
  PROVE  /\ op'[h] = r
         /\ \A g \in Handlers : g # h => op'[g] = op[g]
BY DEF TypeOK

LEMMA PoolStep ==
  ASSUME InboxAssumption, IInv, TypeOK', Pool
  PROVE  IInv' /\ SameFailures /\ Lasting
<1>0. TypeOK
  BY DEF IInv
<1>1. ASSUME UNCHANGED <<dlq, op, delivered>>,
             \A n \in Messages : /\ inbox'[n].delivery = inbox[n].delivery
                                 /\ inbox'[n].failure = inbox[n].failure
                                 /\ inbox'[n].key = inbox[n].key
      PROVE  IInv' /\ SameFailures /\ Lasting
  <2>1. SameFailures /\ Lasting
    BY <1>1 DEF SameFailures, Lasting
  <2>2. \A f \in DOMAIN dlq' : /\ f \in DOMAIN dlq /\ dlq'[f].status = dlq[f].status
                               /\ dlq'[f].news = dlq[f].news
    BY <1>1 DEF Replaying
  <2>3. \A g \in Handlers : op'[g] = op[g]
    BY <1>1
  <2> QED
    BY <1>1, <2>1, <2>2, <2>3, Suffices
<1>2. ASSUME NEW m \in Messages, NEW t \in Texts, NEW a \in BOOLEAN, AutoRespond(m, t, a)
      PROVE  IInv' /\ SameFailures /\ Lasting
  <2> DEFINE s == IF a THEN "requires_approval" ELSE "other"
  <2>1. inbox' = [inbox EXCEPT ![m].preview = t, ![m].status = s]
    BY <1>2 DEF AutoRespond
  <2> HIDE DEF s
  <2>2. \A n \in Messages : /\ inbox'[n].delivery = inbox[n].delivery
                            /\ inbox'[n].failure = inbox[n].failure
                            /\ inbox'[n].key = inbox[n].key
    BY <1>0, <2>1 DEF TypeOK, Message
  <2> QED
    BY <1>1, <1>2, <2>2 DEF AutoRespond
<1>3. ASSUME NEW m \in Messages, NEW s \in MessageStatus, inbox' = [inbox EXCEPT ![m].status = s],
             UNCHANGED <<dlq, op, delivered>>
      PROVE  IInv' /\ SameFailures /\ Lasting
  <2>1. \A n \in Messages : /\ inbox'[n].delivery = inbox[n].delivery
                            /\ inbox'[n].failure = inbox[n].failure
                            /\ inbox'[n].key = inbox[n].key
    BY <1>0, <1>3 DEF TypeOK, Message
  <2> QED
    BY <1>1, <1>3, <2>1
<1>4. ASSUME NEW F \in SUBSET (DOMAIN dlq), Resolve(F)
      PROVE  IInv' /\ SameFailures /\ Lasting
  <2>1. /\ SameFailures /\ DOMAIN dlq' = DOMAIN dlq
        /\ \A f \in DOMAIN dlq : dlq'[f].news = dlq[f].news
        /\ \A f \in F : dlq'[f].status = "manual_followup"
        /\ \A f \in DOMAIN dlq \ F : dlq'[f] = dlq[f]
    BY <1>0, <1>4, ResolveFrame
  <2>2. Lasting /\ UNCHANGED <<op, delivered>>
    BY <1>4 DEF Resolve, Lasting
  <2>3. \A f \in F : Accounted(f)'
    <3> SUFFICES ASSUME NEW f \in F PROVE Accounted(f)'
      OBVIOUS
    <3>1. Accounted(f) /\ dlq'[f].msg = dlq[f].msg /\ dlq'[f].key = dlq[f].key
      BY <2>1, Parts DEF SameFailures
    <3> QED
      BY <2>1, <2>2, <3>1 DEF Accounted, Published
  <2>4. \A f \in DOMAIN dlq \ F : /\ dlq'[f].status = dlq[f].status /\ dlq'[f].news = dlq[f].news
    BY <2>1, <2>2 DEF Replaying
  <2>5. \A m \in Messages :
          \/ inbox'[m].delivery = "manual_followup_required"
          \/ inbox'[m] = inbox[m]
    BY <1>0, <1>4 DEF Resolve, TypeOK, Message
  <2>6. \A m \in Messages :
           \/ Shown(m)'
           \/ /\ inbox'[m].delivery = inbox[m].delivery /\ inbox'[m].failure = inbox[m].failure
              /\ inbox'[m].key = inbox[m].key
    BY <2>5 DEF Shown
  <2>7. \A g \in Handlers : op'[g] = op[g]
    BY <2>2
  <2>8. \A f \in DOMAIN dlq' :
           \/ Accounted(f)'
           \/ /\ f \in DOMAIN dlq /\ dlq'[f].status = dlq[f].status /\ dlq'[f].news = dlq[f].news
    BY <2>1, <2>3, <2>4
  <2> QED
    BY <2>1, <2>2, <2>6, <2>7, <2>8, Suffices
<1> QED
  BY <1>2, <1>3, <1>4 DEF Pool, Reject, UpdateMessage, MessageStatus

\* A request that starts or goes on without writing anything.
LEMMA QuietStep ==
  ASSUME IInv, TypeOK', NEW h \in Handlers, NEW r, op' = [op EXCEPT ![h] = r],
         UNCHANGED <<inbox, dlq, delivered>>, Fits(op[h])'
  PROVE  IInv' /\ SameFailures /\ Lasting
<1>0. TypeOK
  BY DEF IInv
<1>1. SameFailures /\ Lasting
  BY DEF SameFailures, Lasting
<1>2. \A g \in Handlers : op'[g] = op[g] \/ Fits(op[g])'
  BY <1>0, OpChange
<1>3. \A f \in DOMAIN dlq' : /\ f \in DOMAIN dlq /\ dlq'[f].status = dlq[f].status
                             /\ dlq'[f].news = dlq[f].news
  BY <1>0, OpChange
<1>4. \A m \in Messages : inbox'[m] = inbox[m]
  OBVIOUS
<1> QED
  BY <1>1, <1>2, <1>3, <1>4, Suffices

\* Closing, as already sent, a failure whose message has gone out.
LEMMA ClosedAsSent ==
  ASSUME IInv, NEW f \in DOMAIN dlq, AlreadySent(f), Settle(f, "already_delivered"),
         UNCHANGED delivered
  PROVE  /\ SameFailures /\ DOMAIN dlq' = DOMAIN dlq /\ Lasting
         /\ Accounted(f)'
         /\ \A g \in DOMAIN dlq : g # f => dlq'[g] = dlq[g]
<1>0. TypeOK
  BY DEF IInv
<1>1. /\ SameFailures /\ DOMAIN dlq' = DOMAIN dlq
      /\ dlq'[f].status = "already_delivered" /\ dlq'[f].news = dlq[f].news
      /\ \A g \in DOMAIN dlq : g # f => dlq'[g] = dlq[g]
  BY <1>0, SettleFrame DEF Settle, FailureStatus, Resolved
<1>2. dlq'[f].msg = dlq[f].msg /\ dlq'[f].key = dlq[f].key
  BY <1>1 DEF SameFailures
<1>3. Accounted(f) /\ dlq[f].msg \in Messages
  BY <1>0, Parts, EntryFields
<1>4. Published(dlq[f].msg, inbox[dlq[f].msg].key) /\ inbox[dlq[f].msg].key \in Key
  BY <1>0, <1>3, Parts DEF AlreadySent, Shown, TypeOK, Message
<1>5. \E k \in Texts : Published(dlq[f].msg, k)
  BY <1>4 DEF Published, Key
<1> QED
  BY <1>1, <1>2, <1>3, <1>5 DEF Accounted, Published, Lasting

\* Taking up a failure.
LEMMA TakeUpStep ==
  ASSUME InboxAssumption, IInv, TypeOK', NEW h \in Handlers, op[h].pc \in {"idle", "next"},
         NEW f \in DOMAIN dlq, NEW kind \in {"replay", "bulk"}, NEW todo,
         TakeUp(h, f, kind, todo), UNCHANGED <<inbox, delivered>>
  PROVE  IInv' /\ SameFailures /\ Lasting
<1>0. TypeOK
  BY DEF IInv
<1> DEFINE r == [pc |-> "calling", kind |-> kind, msg |-> dlq[f].msg, text |-> dlq[f].text,
                 key |-> dlq[f].key, fid |-> f, left |-> Attempts, todo |-> todo, news |-> 0]
<1>1. op' = [op EXCEPT ![h] = r] /\ dlq' = [dlq EXCEPT ![f].status = "replaying"]
  BY DEF TakeUp
<1>2. /\ SameFailures /\ DOMAIN dlq' = DOMAIN dlq
      /\ dlq'[f].status = "replaying" /\ dlq'[f].news = dlq[f].news
      /\ \A g \in DOMAIN dlq : g # f => dlq'[g] = dlq[g]
  BY <1>0, <1>1, SettleFrame DEF FailureStatus
<1>3. dlq'[f].msg = dlq[f].msg /\ dlq'[f].key = dlq[f].key
  BY <1>2 DEF SameFailures
<1>4. Lasting
  BY DEF Lasting
<1>5. op'[h] = r /\ \A g \in Handlers : g # h => op'[g] = op[g]
  <2> HIDE DEF r
  <2> QED
    BY <1>0, <1>1, OpChange
<1>6. Fits(op[h])'
  BY <1>2, <1>3, <1>5 DEF Fits
<1>8. Accounted(f)'
  <2>1. Accounted(f)
    BY Parts
  <2> QED
    BY <1>2, <1>3, <2>1 DEF Accounted, Published
<1>9. \A g \in Handlers : op'[g] = op[g] \/ Fits(op[g])'
  BY <1>5, <1>6
<1>10. \A g \in DOMAIN dlq' :
         \/ Accounted(g)'
         \/ /\ g \in DOMAIN dlq /\ dlq'[g].status = dlq[g].status /\ dlq'[g].news = dlq[g].news
  BY <1>2, <1>5, <1>8
<1>11. \A m \in Messages : inbox'[m] = inbox[m]
  OBVIOUS
<1> HIDE DEF r
<1> QED
  BY <1>2, <1>4, <1>9, <1>10, <1>11, Suffices

\* The request after an item: idle, or with the rest of the batch to do.
LEMMA OnwardFits ==
  ASSUME TypeOK, NEW h \in Handlers, NEW todo, Onward(h, todo)
  PROVE  Fits(op[h])' /\ \A g \in Handlers : g # h => op'[g] = op[g]
<1> DEFINE r == IF todo = <<>> THEN Idle
                ELSE [Idle EXCEPT !.pc = "next", !.kind = "bulk", !.todo = todo]
<1>1. op' = [op EXCEPT ![h] = r]
  BY DEF Onward
<1>2. r.news = 0 /\ \/ r.pc = "idle" /\ r.kind = "none"
                    \/ r.pc = "next" /\ r.kind = "bulk"
  BY DEF Idle
<1> HIDE DEF r
<1>3. op'[h] = r /\ \A g \in Handlers : g # h => op'[g] = op[g]
  BY <1>1, OpChange
<1> QED
  BY <1>2, <1>3 DEF Fits

LEMMA StartStep ==
  ASSUME InboxAssumption, IInv, TypeOK', NEW h \in Handlers, Start(h)
  PROVE  IInv' /\ SameFailures /\ Lasting
<1>0. TypeOK
  BY DEF IInv
<1>1. ASSUME NEW m \in Messages, Approve(h, m) PROVE IInv' /\ SameFailures /\ Lasting
  <2> DEFINE r == [pc |-> "calling", kind |-> "approve", msg |-> m, text |-> inbox[m].preview,
                   key |-> KeyFor(m), fid |-> 0, left |-> Attempts, todo |-> <<>>, news |-> 0]
  <2>1. op' = [op EXCEPT ![h] = r] /\ UNCHANGED <<inbox, dlq, delivered>> /\ op[h].pc = "idle"
    BY <1>1 DEF Approve
  <2>2. op'[h] = r
    BY <1>0, <2>1 DEF TypeOK
  <2>3. Fits(op[h])'
    BY <2>2 DEF Fits
  <2> HIDE DEF r
  <2> QED
    BY <2>1, <2>3, QuietStep
<1>2. ASSUME NEW f \in FailureIds, Replay(h, f) PROVE IInv' /\ SameFailures /\ Lasting
  <2>1. CASE AlreadySent(f) /\ Settle(f, "already_delivered") /\ UNCHANGED op
    <3>1. f \in DOMAIN dlq /\ UNCHANGED <<inbox, delivered>>
      BY <1>2 DEF Replay
    <3>2. /\ SameFailures /\ DOMAIN dlq' = DOMAIN dlq /\ Lasting /\ Accounted(f)'
          /\ \A g \in DOMAIN dlq : g # f => dlq'[g] = dlq[g]
      BY <2>1, <3>1, ClosedAsSent
    <3>3. \A g \in DOMAIN dlq' :
            \/ Accounted(g)'
            \/ /\ g \in DOMAIN dlq /\ dlq'[g].status = dlq[g].status /\ dlq'[g].news = dlq[g].news
      BY <2>1, <3>2 DEF Replaying
    <3>4. \A g \in Handlers : op'[g] = op[g]
      BY <2>1
    <3>5. \A m \in Messages : inbox'[m] = inbox[m]
      BY <3>1
    <3> QED
      BY <3>2, <3>3, <3>4, <3>5, Suffices
  <2>2. CASE TakeUp(h, f, "replay", <<>>)
    BY <1>2, <2>2, TakeUpStep DEF Replay
  <2> QED
    BY <1>2, <2>1, <2>2 DEF Replay
<1>3. ASSUME NEW ids, ReplayBulk(h, ids) \/ ReplayPending(h, ids)
      PROVE  IInv' /\ SameFailures /\ Lasting
  <2>1. op[h].pc = "idle" /\ Onward(h, ids) /\ UNCHANGED <<inbox, dlq, delivered>>
    BY <1>3 DEF ReplayBulk, ReplayPending
  <2>2. Fits(op[h])'
    BY <1>0, <2>1, OnwardFits
  <2> QED
    BY <2>1, <2>2, QuietStep DEF Onward
<1> QED
  BY <1>1, <1>2, <1>3 DEF Start

\* The next item of a batch.
LEMMA NextItemStep ==
  ASSUME InboxAssumption, IInv, TypeOK', NEW h \in Handlers, NextItem(h)
  PROVE  IInv' /\ SameFailures /\ Lasting
<1> DEFINE f == Head(op[h].todo)
           rest == Tail(op[h].todo)
<1>0. TypeOK /\ op[h].pc = "next" /\ UNCHANGED <<inbox, delivered>>
  BY DEF IInv, NextItem
<1>2. CASE Onward(h, rest) /\ UNCHANGED dlq
  <2>1. Fits(op[h])'
    BY <1>0, <1>2, OnwardFits
  <2> QED
    BY <1>0, <1>2, <2>1, QuietStep DEF Onward
<1>3. CASE f \in DOMAIN dlq /\ AlreadySent(f) /\ Settle(f, "already_delivered") /\ Onward(h, rest)
  <2>0. PICK e \in DOMAIN dlq : AlreadySent(e) /\ Settle(e, "already_delivered")
    BY <1>3
  <2>1. /\ SameFailures /\ DOMAIN dlq' = DOMAIN dlq /\ Lasting /\ Accounted(e)'
        /\ \A g \in DOMAIN dlq : g # e => dlq'[g] = dlq[g]
    BY <1>0, <2>0, ClosedAsSent
  <2>2. Fits(op[h])' /\ \A g \in Handlers : g # h => op'[g] = op[g]
    BY <1>0, <1>3, OnwardFits
  <2>3. \A g \in Handlers : op'[g] = op[g] \/ Fits(op[g])'
    BY <2>2
  <2>4. \A g \in DOMAIN dlq' :
          \/ Accounted(g)'
          \/ /\ g \in DOMAIN dlq /\ dlq'[g].status = dlq[g].status /\ dlq'[g].news = dlq[g].news
    BY <2>1, <2>2
  <2>5. \A m \in Messages : inbox'[m] = inbox[m]
    BY <1>0
  <2> QED
    BY <2>1, <2>3, <2>4, <2>5, Suffices
<1>4. CASE f \in DOMAIN dlq /\ TakeUp(h, f, "bulk", rest)
  BY <1>0, <1>4, TakeUpStep
<1> QED
  BY <1>2, <1>3, <1>4 DEF NextItem

\* A call that the network publishes, or answers with what it published before.
LEMMA PublishStep ==
  ASSUME InboxAssumption, IInv, TypeOK', NEW h \in Handlers, op[h].pc = "calling", NEW r,
         Sound(r), Publish(h, r), UNCHANGED inbox, r.pc \in {"calling", "ok", "bad"},
         r.kind = op[h].kind, r.msg = op[h].msg, r.key = op[h].key, r.fid = op[h].fid,
         r.news = op[h].news
  PROVE  IInv' /\ SameFailures /\ Lasting
<1>0. TypeOK /\ Engaged /\ Counted
  BY DEF IInv
<1> DEFINE new == IF delivered[op[h].msg][op[h].key] = None THEN 1 ELSE 0
           r1  == IF op[h].kind = "approve" THEN [r EXCEPT !.news = @ + new] ELSE r
<1>1. /\ SameFailures /\ DOMAIN dlq' = DOMAIN dlq /\ Lasting
      /\ delivered'[op[h].msg][op[h].key] # None
      /\ \A f \in DOMAIN dlq : dlq'[f].status = dlq[f].status
      /\ \A f \in DOMAIN dlq :
           dlq'[f].news = IF op[h].kind # "approve" /\ f = op[h].fid
                          THEN dlq[f].news + new ELSE dlq[f].news
      /\ op' = [op EXCEPT ![h] = r1]
  BY <1>0, PublishFrame
<1>2. op[h].msg \in Messages /\ op[h].key \in Texts /\ op[h].key # None /\ op[h] \in Request
  BY <1>0, Sender DEF InboxAssumption
<1>3. Fits(op[h])
  BY FitsAll DEF IInv
<1>4. /\ r1.pc = r.pc /\ r1.kind = r.kind /\ r1.msg = r.msg /\ r1.key = r.key /\ r1.fid = r.fid
      /\ r1.news = IF op[h].kind = "approve" THEN op[h].news + new ELSE op[h].news
  BY DEF Sound, Request
<1>5. op'[h] = r1
  <2> HIDE DEF r1
  <2> QED
    BY <1>0, <1>1 DEF TypeOK
<1> HIDE DEF r1
<1>6. Published(op[h].msg, op[h].key) <=> new = 0
  BY <1>2 DEF Published
<1>7. op[h].news \in Nat /\ new \in {0, 1}
  BY <1>2 DEF Request
<1>8. Published(op[h].msg, op[h].key)'
  BY <1>1, <1>2, <1>4, <1>5 DEF Published
<1>9. op'[h].news <= 1 /\ (op[h].kind # "approve" => op'[h].news = 0)
  BY <1>3, <1>4, <1>5, <1>6, <1>7 DEF Fits
<1> HIDE DEF new
<1>10. Fits(op[h])'
  BY <1>1, <1>3, <1>4, <1>5, <1>8, <1>9 DEF Fits, SameFailures
<1>11. \A g \in Handlers : op'[g] = op[g] \/ Fits(op[g])'
  BY <1>0, <1>1, <1>10, OpChange
<1>13. ASSUME op[h].kind # "approve", NEW f \in DOMAIN dlq, f = op[h].fid PROVE Accounted(f)'
  <2>1. Accounted(f) /\ dlq[f].msg = op[h].msg /\ dlq[f].key = op[h].key /\ dlq[f].news \in Nat
    BY <1>0, <1>2, <1>3, <1>13, Parts, EntryFields DEF Fits, Request
  <2>2. dlq'[f].msg = dlq[f].msg /\ dlq'[f].key = dlq[f].key
    BY <1>1 DEF SameFailures
  <2>3. dlq'[f].news = dlq[f].news + new /\ dlq'[f].status = dlq[f].status
    BY <1>1, <1>13
  <2>4. dlq'[f].news <= 1
    BY <1>6, <1>7, <2>1, <2>3 DEF Accounted
  <2>5. Published(dlq[f].msg, dlq[f].key)'
    BY <1>1, <1>2, <2>1, <2>2 DEF Published
  <2> QED
    BY <1>2, <2>1, <2>2, <2>3, <2>4, <2>5 DEF Accounted
<1>14. \A f \in DOMAIN dlq' :
         \/ Accounted(f)'
         \/ /\ f \in DOMAIN dlq /\ dlq'[f].status = dlq[f].status /\ dlq'[f].news = dlq[f].news
  BY <1>1, <1>13
<1>15. \A m \in Messages : inbox'[m] = inbox[m]
  OBVIOUS
<1> QED
  BY <1>1, <1>11, <1>14, <1>15, Suffices

-----------------------------------------------------------------------------
(* Recording the outcome.                                                   *)

\* What is written about the message of a request.
LEMMA MessageMarked ==
  ASSUME InboxAssumption, IInv, NEW h \in Handlers, Lasting,
         \/ op[h].pc \in {"ok", "closed"} /\ MarkSent(h)
         \/ op[h].pc \in {"bad", "filed"} /\ OnFailure(h) /\ MarkFailed(h)
            /\ DOMAIN dlq \subseteq DOMAIN dlq'
  PROVE  \A m \in Messages : Shown(m)' \/ inbox'[m] = inbox[m]
<1>0. TypeOK /\ Engaged /\ Answering
  BY DEF IInv
<1>1. op[h].msg \in Messages /\ op[h].key \in Texts /\ op[h] \in Request
  BY <1>0, Sender
<1>2. \A m \in Messages : m # op[h].msg => inbox'[m] = inbox[m]
  BY <1>0 DEF MarkSent, MarkFailed, TypeOK
<1>3. inbox[op[h].msg] \in Message
  BY <1>0, <1>1 DEF TypeOK
<1>4. CASE op[h].pc \in {"ok", "closed"} /\ MarkSent(h)
  <2>1. inbox'[op[h].msg].delivery = "sent" /\ inbox'[op[h].msg].key = op[h].key
    BY <1>0, <1>1, <1>3, <1>4 DEF MarkSent, TypeOK, Message
  <2>2. delivered[op[h].msg][op[h].key] # None /\ op[h].key # None
    BY <1>0, <1>4 DEF Answering, Published
  <2>3. delivered'[op[h].msg][op[h].key] # None
    BY <1>1, <2>2 DEF Lasting
  <2>4. ASSUME NEW m \in Messages, m = op[h].msg PROVE Shown(m)'
    BY <2>1, <2>2, <2>3, <2>4 DEF Shown, Published
  <2> QED
    BY <1>2, <2>4
<1>5. CASE /\ op[h].pc \in {"bad", "filed"} /\ OnFailure(h) /\ MarkFailed(h)
           /\ DOMAIN dlq \subseteq DOMAIN dlq'
  <2>1. inbox'[op[h].msg].delivery = "failed" /\ inbox'[op[h].msg].failure = op[h].fid
    BY <1>0, <1>1, <1>3, <1>5 DEF MarkFailed, TypeOK, Message
  <2>2. op[h].fid \in DOMAIN dlq'
    BY <1>0, <1>5 DEF Engaged
  <2>3. ASSUME NEW m \in Messages, m = op[h].msg PROVE Shown(m)'
    BY <2>1, <2>2, <2>3 DEF Shown
  <2> QED
    BY <1>2, <2>3
<1> QED
  BY <1>4, <1>5

\* What is written about the failure of a request that replays it.
LEMMA FailureMarked ==
  ASSUME InboxAssumption, IInv, NEW h \in Handlers, op[h].kind \in {"replay", "bulk"},
         UNCHANGED delivered,
         \/ op[h].pc = "ok" /\ Settle(op[h].fid, "replayed")
         \/ op[h].pc = "bad" /\ Reopen(h)
  PROVE  /\ SameFailures /\ Lasting /\ DOMAIN dlq' = DOMAIN dlq /\ op[h].fid \in DOMAIN dlq
         /\ \A f \in DOMAIN dlq : f = op[h].fid \/ dlq'[f] = dlq[f]
         /\ \A f \in DOMAIN dlq : f = op[h].fid => Accounted(f)'
<1>0. TypeOK /\ Engaged /\ Answering /\ Lasting
  BY DEF IInv, Lasting
<1>1. op[h].fid \in DOMAIN dlq /\ dlq[op[h].fid].msg = op[h].msg /\ dlq[op[h].fid].key = op[h].key
  BY <1>0 DEF Engaged, OnFailure
<1>2. PICK s \in {"replayed", "pending_retry"} :
        /\ dlq' = [dlq EXCEPT ![op[h].fid].status = s]
        /\ s = "replayed" => op[h].pc = "ok"
  BY DEF Settle, Reopen
<1>3. /\ SameFailures /\ DOMAIN dlq' = DOMAIN dlq
      /\ dlq'[op[h].fid].status = s /\ dlq'[op[h].fid].news = dlq[op[h].fid].news
      /\ \A g \in DOMAIN dlq : g # op[h].fid => dlq'[g] = dlq[g]
  BY <1>0, <1>1, <1>2, SettleFrame DEF FailureStatus, Resolved
<1>4. ASSUME NEW f \in DOMAIN dlq, f = op[h].fid PROVE Accounted(f)'
  <2>1. Accounted(f) /\ dlq'[f].msg = dlq[f].msg /\ dlq'[f].key = dlq[f].key
    BY <1>3, Parts DEF SameFailures
  <2>2. s = "replayed" => Published(dlq[f].msg, dlq[f].key)
    BY <1>0, <1>1, <1>2, <1>4 DEF Answering
  <2> QED
    BY <1>2, <1>3, <1>4, <2>1, <2>2 DEF Accounted, Published
<1> QED
  BY <1>0, <1>1, <1>3, <1>4

\* Filing a failure leaves those in the queue alone.
LEMMA Filed ==
  ASSUME TypeOK, NEW h \in Handlers, ApproveFailed(h)
  PROVE  \A f \in DOMAIN dlq : dlq'[f] = dlq[f]
<1>1. op[h] \in Request /\ dlq \in Seq(Failure)
  BY DEF TypeOK
<1>2. op[h].msg \in Messages /\ op[h].text \in Texts /\ op[h].key \in Texts
  BY Sender DEF ApproveFailed
<1>3. [msg |-> op[h].msg, text |-> op[h].text, key |-> op[h].key,
       status |-> "pending_retry", news |-> op[h].news] \in Failure
  BY <1>1, <1>2 DEF Failure, FailureStatus, Request
<1> QED
  BY <1>1, <1>3, AppendProperties DEF ApproveFailed

LEMMA ApproveFailedStep ==
  ASSUME InboxAssumption, IInv, TypeOK', NEW h \in Handlers, ApproveFailed(h)
  PROVE  IInv' /\ SameFailures /\ Lasting
<1>0. TypeOK /\ Lasting /\ UNCHANGED <<inbox, delivered>>
  BY DEF IInv, ApproveFailed, Lasting
<1>1. op[h] \in Request /\ op[h].pc = "bad" /\ op[h].kind = "approve" /\ Fits(op[h])
  BY <1>0, FitsAll DEF ApproveFailed, IInv, TypeOK
<1> DEFINE e == [msg |-> op[h].msg, text |-> op[h].text, key |-> op[h].key,
                 status |-> "pending_retry", news |-> op[h].news]
           r == [op[h] EXCEPT !.pc = "filed", !.fid = Len(dlq) + 1]
           n == Len(dlq) + 1
<1>2. op' = [op EXCEPT ![h] = r] /\ dlq' = Append(dlq, e)
  BY DEF ApproveFailed
<1>3. /\ r.pc = "filed" /\ r.kind = "approve" /\ r.msg = op[h].msg /\ r.key = op[h].key
      /\ r.fid = n /\ r.news = op[h].news
  BY <1>1 DEF Request
<1>4. e \in Failure
  <2>1. op[h].msg \in Messages /\ op[h].text \in Texts /\ op[h].key \in Texts
    BY <1>0, <1>1, Sender
  <2> QED
    BY <1>1, <2>1 DEF Failure, FailureStatus, Request
<1>5. /\ Len(dlq) \in Nat /\ DOMAIN dlq = 1 .. Len(dlq) /\ DOMAIN dlq' = 1 .. Len(dlq) + 1
      /\ dlq'[n] = e /\ \A f \in DOMAIN dlq : dlq'[f] = dlq[f]
  <2>1. dlq \in Seq(Failure)
    BY <1>0 DEF TypeOK
  <2> HIDE DEF e
  <2> QED
    BY <1>2, <1>4, <2>1, AppendProperties
<1>6. SameFailures
  BY <1>5 DEF SameFailures
<1>7. op'[h] = r /\ \A g \in Handlers : g # h => op'[g] = op[g]
  <2> HIDE DEF r
  <2> QED
    BY <1>0, <1>1, <1>2, OpChange
<1> HIDE DEF r
<1>8. Published(op[h].msg, op[h].key) => Published(op[h].msg, op[h].key)'
  BY <1>0, <1>3, <1>7 DEF Published
<1>9. Fits(op[h])'
  BY <1>1, <1>3, <1>5, <1>7, <1>8 DEF Fits
<1>10. ASSUME NEW f \in DOMAIN dlq', f = n PROVE Accounted(f)'
  BY <1>0, <1>1, <1>5, <1>10 DEF Fits, Accounted, Published
<1>11. \A f \in DOMAIN dlq' :
         \/ Accounted(f)'
         \/ /\ f \in DOMAIN dlq /\ dlq'[f].status = dlq[f].status /\ dlq'[f].news = dlq[f].news
  BY <1>5, <1>10
<1>12. \A g \in Handlers : op'[g] = op[g] \/ Fits(op[g])'
  BY <1>7, <1>9
<1>13. \A m \in Messages : inbox'[m] = inbox[m]
  BY <1>0
<1> QED
  BY <1>0, <1>6, <1>11, <1>12, <1>13, Suffices

\* The last critical section of a request, or of an item: the message is marked, with
\* the failure or after it.
LEMMA LastStep ==
  ASSUME InboxAssumption, IInv, TypeOK', NEW h \in Handlers, UNCHANGED delivered,
         \/ UNCHANGED dlq
         \/ /\ op[h].kind \in {"replay", "bulk"}
            /\ \/ op[h].pc = "ok" /\ Settle(op[h].fid, "replayed")
               \/ op[h].pc = "bad" /\ Reopen(h),
         \/ op[h].pc \in {"ok", "closed"} /\ MarkSent(h)
         \/ op[h].pc \in {"bad", "filed"} /\ OnFailure(h) /\ MarkFailed(h),
         Fits(op[h])', \A g \in Handlers : g # h => op'[g] = op[g]
  PROVE  IInv' /\ SameFailures /\ Lasting
<1>1. \A g \in Handlers : op'[g] = op[g] \/ Fits(op[g])'
  OBVIOUS
<1>2. /\ SameFailures /\ Lasting /\ DOMAIN dlq' = DOMAIN dlq
      /\ \A f \in DOMAIN dlq' :
           \/ Accounted(f)'
           \/ /\ f \in DOMAIN dlq /\ dlq'[f].status = dlq[f].status /\ dlq'[f].news = dlq[f].news
  <2>1. CASE UNCHANGED dlq
    BY <2>1 DEF SameFailures, Lasting
  <2>2. CASE /\ op[h].kind \in {"replay", "bulk"}
             /\ \/ op[h].pc = "ok" /\ Settle(op[h].fid, "replayed")
                \/ op[h].pc = "bad" /\ Reopen(h)
    <3>1. /\ SameFailures /\ Lasting /\ DOMAIN dlq' = DOMAIN dlq
          /\ \A f \in DOMAIN dlq : f = op[h].fid \/ dlq'[f] = dlq[f]
          /\ \A f \in DOMAIN dlq : f = op[h].fid => Accounted(f)'
      BY <2>2, FailureMarked
    <3> QED
      BY <3>1
  <2> QED
    BY <2>1, <2>2
<1>3. \A m \in Messages : Shown(m)' \/ inbox'[m] = inbox[m]
  BY <1>2, MessageMarked
<1> QED
  BY <1>1, <1>2, <1>3, Suffices

LEMMA ProceedStep ==
  ASSUME InboxAssumption, IInv, TypeOK', NEW h \in Handlers, Proceed(h)
  PROVE  IInv' /\ SameFailures /\ Lasting
<1>0. TypeOK /\ Engaged /\ Fits(op[h]) /\ op[h] \in Request
  BY FitsAll DEF IInv, TypeOK
<1>1. CASE NextItem(h)
  BY <1>1, NextItemStep
<1>2. CASE Answered(h)
  <2> DEFINE r == [op[h] EXCEPT !.pc = "ok", !.left = 0]
  <2>1. Sound(r)
    BY <1>0, <1>2, AnsweredSound DEF Answered
  <2>2. /\ r.pc = "ok" /\ r.kind = op[h].kind /\ r.msg = op[h].msg /\ r.key = op[h].key
        /\ r.fid = op[h].fid /\ r.news = op[h].news
    BY <1>0 DEF Request
  <2>3. op[h].pc = "calling" /\ Publish(h, r) /\ UNCHANGED inbox
    BY <1>2 DEF Answered
  <2> HIDE DEF r
  <2> QED
    BY <2>1, <2>2, <2>3, PublishStep
<1>3. /\ Failed(h).pc \in {op[h].pc, "bad"} /\ Failed(h).kind = op[h].kind
      /\ Failed(h).msg = op[h].msg /\ Failed(h).key = op[h].key
      /\ Failed(h).fid = op[h].fid /\ Failed(h).news = op[h].news
  <2>1. CASE op[h].left = 1
    BY <1>0, <2>1 DEF Failed, Request
  <2>2. CASE op[h].left # 1
    BY <1>0, <2>2 DEF Failed, Request
  <2> QED
    BY <2>1, <2>2
<1>4. CASE AnswerLost(h)
  <2>1. op[h].pc = "calling" /\ Publish(h, Failed(h)) /\ UNCHANGED inbox /\ Sound(Failed(h))
    BY <1>0, <1>4, FailedSound DEF AnswerLost
  <2>2. Failed(h).pc \in {"calling", "ok", "bad"}
    BY <1>3, <2>1
  <2> QED
    BY <1>3, <2>1, <2>2, PublishStep
<1>5. CASE Refused(h)
  <2>1. op[h].pc = "calling" /\ op' = [op EXCEPT ![h] = Failed(h)]
        /\ UNCHANGED <<inbox, dlq, delivered>>
    BY <1>5 DEF Refused
  <2>2. op'[h] = Failed(h) /\ \A g \in Handlers : g # h => op'[g] = op[g]
    BY <1>0, <2>1, OpChange
  <2>3. Published(op[h].msg, op[h].key) => Published(op[h].msg, op[h].key)'
    BY <1>3, <2>1, <2>2 DEF Published
  <2>4. Fits(op[h])'
    BY <1>0, <1>3, <2>1, <2>2, <2>3 DEF Fits
  <2>6. SameFailures /\ Lasting /\ \A m \in Messages : inbox'[m] = inbox[m]
    BY <2>1 DEF SameFailures, Lasting
  <2>7. \A f \in DOMAIN dlq' : /\ f \in DOMAIN dlq /\ dlq'[f].status = dlq[f].status
                               /\ dlq'[f].news = dlq[f].news
    BY <2>1
  <2>8. \A g \in Handlers : op'[g] = op[g] \/ Fits(op[g])'
    BY <2>2, <2>4
  <2> QED
    BY <2>6, <2>7, <2>8, Suffices
<1>6. ASSUME Done(h)
      PROVE  Fits(op[h])' /\ \A g \in Handlers : g # h => op'[g] = op[g]
  <2>1. op'[h] = Idle /\ \A g \in Handlers : g # h => op'[g] = op[g]
    BY <1>0, <1>6, OpChange DEF Done
  <2> QED
    BY <2>1 DEF Fits, Idle
<1>7. CASE ApproveSent(h)
  BY <1>6, <1>7, LastStep DEF ApproveSent
<1>8. CASE ApproveFailed(h)
  BY <1>8, ApproveFailedStep
<1>9. ASSUME NEW c \in {"filed", "closed"}, op[h].kind = "replay",
             op[h].pc = (IF c = "closed" THEN "ok" ELSE "bad"),
             op' = [op EXCEPT ![h].pc = c], UNCHANGED <<inbox, delivered>>,
             IF c = "closed" THEN Settle(op[h].fid, "replayed") ELSE Reopen(h)
      PROVE  IInv' /\ SameFailures /\ Lasting
  <2>1. /\ SameFailures /\ Lasting /\ DOMAIN dlq' = DOMAIN dlq /\ op[h].fid \in DOMAIN dlq
        /\ \A f \in DOMAIN dlq : f = op[h].fid \/ dlq'[f] = dlq[f]
        /\ \A f \in DOMAIN dlq : f = op[h].fid => Accounted(f)'
    BY <1>9, FailureMarked
  <2> DEFINE r == [op[h] EXCEPT !.pc = c]
  <2>2. /\ r.pc = c /\ r.kind = op[h].kind /\ r.msg = op[h].msg /\ r.key = op[h].key
        /\ r.fid = op[h].fid /\ r.news = op[h].news
    BY <1>0 DEF Request
  <2>3. op' = [op EXCEPT ![h] = r]
    BY <1>9
  <2> HIDE DEF r
  <2>4. op'[h] = r /\ \A g \in Handlers : g # h => op'[g] = op[g]
    BY <1>0, <2>3, OpChange
  <2>5. Published(op[h].msg, op[h].key) => Published(op[h].msg, op[h].key)'
    BY <1>9, <2>2, <2>4 DEF Published
  <2>6. Fits(op[h])'
    BY <1>0, <1>9, <2>1, <2>2, <2>4, <2>5 DEF Fits, SameFailures
  <2>7. \A f \in DOMAIN dlq' :
          \/ Accounted(f)'
          \/ /\ f \in DOMAIN dlq /\ dlq'[f].status = dlq[f].status /\ dlq'[f].news = dlq[f].news
    BY <2>1
  <2>8. \A g \in Handlers : op'[g] = op[g] \/ Fits(op[g])'
    BY <2>4, <2>6
  <2>9. \A m \in Messages : inbox'[m] = inbox[m]
    BY <1>9
  <2> QED
    BY <2>1, <2>7, <2>8, <2>9, Suffices
<1>10. CASE ReplaySent(h)
  BY <1>9, <1>10 DEF ReplaySent
<1>11. CASE ReplayFailed(h)
  BY <1>9, <1>11 DEF ReplayFailed
<1>12. CASE MessageWritten(h)
  <2>1. op[h].pc = "filed" => OnFailure(h)
    BY DEF OnFailure
  <2> QED
    BY <1>6, <1>12, <2>1, LastStep DEF MessageWritten
<1>13. CASE ItemSent(h)
  <2>1. Fits(op[h])' /\ \A g \in Handlers : g # h => op'[g] = op[g]
    BY <1>0, <1>13, OnwardFits DEF ItemSent
  <2> QED
    BY <1>13, <2>1, LastStep DEF ItemSent
<1>14. CASE ItemFailed(h)
  <2>1. Fits(op[h])' /\ \A g \in Handlers : g # h => op'[g] = op[g]
    BY <1>0, <1>14, OnwardFits DEF ItemFailed
  <2>2. OnFailure(h)
    BY <1>14 DEF ItemFailed, OnFailure
  <2> QED
    BY <1>14, <2>1, <2>2, LastStep DEF ItemFailed
<1> QED
  BY <1>1, <1>2, <1>4, <1>5, <1>7, <1>8, <1>10, <1>11, <1>12, <1>13, <1>14 DEF Proceed

\* Requests that die leave the queue, the messages and what is published as they are.
LEMMA PerishStep ==
  ASSUME InboxAssumption, IInv, TypeOK', NEW H, Perish(H)
  PROVE  IInv' /\ SameFailures /\ Lasting
<1>1. UNCHANGED <<inbox, dlq, delivered>>
  BY DEF Perish
<1>2. \A g \in Handlers : op'[g] = op[g] \/ op'[g] = Idle
  BY DEF Perish
<1>3. \A g \in Handlers : op'[g] = op[g] \/ Fits(op[g])'
  BY <1>2 DEF Fits, Idle
<1>4. SameFailures /\ Lasting
  BY <1>1 DEF SameFailures, Lasting
<1>5. \A f \in DOMAIN dlq' :
        f \in DOMAIN dlq /\ dlq'[f].status = dlq[f].status /\ dlq'[f].news = dlq[f].news
  BY <1>1
<1>6. \A m \in Messages : inbox'[m] = inbox[m]
  BY <1>1
<1> QED
  BY <1>3, <1>4, <1>5, <1>6, Suffices

-----------------------------------------------------------------------------
(* The theorems.                                                            *)

LEMMA InitInvariant == InboxAssumption /\ Init => IInv
<1> SUFFICES ASSUME InboxAssumption, Init PROVE IInv
  OBVIOUS
<1>1. TypeOK
  <2>1. dlq \in Seq(Failure)
    BY EmptySeq DEF Init
  <2>2. inbox \in [Messages -> Message]
    BY DEF Init, Ingested, Message, MessageStatus, DeliveryStatus, Key
  <2>3. op \in [Handlers -> Request] /\ \A h \in Handlers : op[h].pc = "idle"
    BY IdleSound DEF Init, Sound, Idle
  <2> QED
    BY <2>1, <2>2, <2>3 DEF Init, TypeOK
<1>2. /\ \A h \in Handlers : op[h].pc = "idle" /\ op[h].kind = "none" /\ op[h].news = 0
      /\ \A m \in Messages : inbox[m].delivery = "none"
      /\ DOMAIN dlq = {}
  BY DEF Init, Idle, Ingested
<1>3. \A h \in Handlers : Fits(op[h])
  BY <1>2 DEF Fits
<1>4. \A m \in Messages : Shown(m)
  BY <1>2 DEF Shown
<1> QED
  BY <1>1, <1>2, <1>3, <1>4, Parts

LEMMA StepInvariant == ASSUME InboxAssumption, IInv, [Next]_vars PROVE IInv'
<1>1. TypeOK /\ Engaged
  BY DEF IInv
<1>2. TypeOK'
  BY <1>1, TypeStep
<1>3. CASE UNCHANGED vars
  <2>1. SameFailures /\ Lasting
    BY <1>3 DEF vars, SameFailures, Lasting
  <2>2. /\ \A g \in Handlers : op'[g] = op[g]
        /\ \A m \in Messages : inbox'[m] = inbox[m]
        /\ \A f \in DOMAIN dlq' : f \in DOMAIN dlq /\ dlq'[f] = dlq[f]
    BY <1>3 DEF vars, Replaying
  <2> QED
    BY <1>2, <2>1, <2>2, Suffices
<1> QED
  BY <1>2, <1>3, PoolStep, StartStep, ProceedStep, PerishStep DEF Next, Cancel, Crash

\* IInv is an inductive invariant of the inbox.
THEOREM InboxInvariant == Spec => []IInv
BY InitInvariant, StepInvariant, InboxAssumption, PTL DEF Spec

\* InboxDelivery is type-correct: every request that sends knows what it sends, and has
\* calls left while it calls.
THEOREM InboxTypeCorrect == Spec => []TypeOK
<1>1. IInv => TypeOK
  BY DEF IInv
<1> QED
  BY <1>1, InboxInvariant, PTL

\* However often and by however many requests a failure is replayed, the reply that an
\* approval sent is published at most once.
THEOREM ReplyPublishedOnce == Spec => []PublishedOnce
<1>1. IInv => PublishedOnce
  BY DEF IInv, Counted, PublishedOnce
<1> QED
  BY <1>1, InboxInvariant, PTL

\* A failure leaves the queue, and a message is shown as sent, only when the network has
\* published under the key, or when somebody resolved it by hand.
THEOREM QueueAnswersForAll == Spec => []NothingDropped
<1>1. IInv => NothingDropped
  BY DEF IInv
<1> QED
  BY <1>1, InboxInvariant, PTL

-----------------------------------------------------------------------------
(* What a step may do to a failure and to the message that shows it.        *)

\* h reopens failure f: its replay has failed.
ReopenedBy(h, f) ==
  /\ op[h].kind \in {"replay", "bulk"} /\ op[h].pc = "bad" /\ op[h].fid = f
  /\ dlq'[f].status = "pending_retry"

\* Failure f is taken up.
TakenUp(f) == Replayable(f) /\ dlq'[f].status = "replaying"

\* A failure keeps its status, is resolved, is taken up from an unresolved one, or is
\* reopened by the request whose replay failed.
LEMMA StatusSteps ==
  ASSUME InboxAssumption, IInv, [Next]_vars, NEW f \in DOMAIN dlq
  PROVE  \/ dlq'[f].status = dlq[f].status
         \/ dlq'[f].status \in Resolved
         \/ TakenUp(f)
         \/ \E h \in Handlers : ReopenedBy(h, f)
<1>0. TypeOK /\ Engaged
  BY DEF IInv
<1>1. ASSUME NEW e \in DOMAIN dlq, NEW s \in FailureStatus, dlq' = [dlq EXCEPT ![e].status = s]
      PROVE  IF f = e THEN dlq'[f].status = s ELSE dlq'[f].status = dlq[f].status
  BY <1>0, <1>1, SettleFrame
<1>2. ASSUME NEW F \in SUBSET (DOMAIN dlq), Resolve(F)
      PROVE  dlq'[f].status = dlq[f].status \/ dlq'[f].status \in Resolved
  BY <1>0, <1>2, ResolveFrame DEF Resolved
<1>3. ASSUME NEW e \in DOMAIN dlq, NEW s \in Resolved, Settle(e, s)
      PROVE  dlq'[f].status = dlq[f].status \/ dlq'[f].status \in Resolved
  BY <1>1, <1>3 DEF Settle, FailureStatus
<1>4. ASSUME NEW h \in Handlers, NEW e \in DOMAIN dlq, NEW kind, NEW todo, Replayable(e),
             TakeUp(h, e, kind, todo)
      PROVE  dlq'[f].status = dlq[f].status \/ TakenUp(f)
  BY <1>1, <1>4 DEF TakeUp, TakenUp, FailureStatus
<1>5. ASSUME NEW h \in Handlers, op[h].kind \in {"replay", "bulk"}, op[h].pc \in {"ok", "bad"}
      PROVE  op[h].fid \in DOMAIN dlq
  BY <1>0, <1>5 DEF Engaged, OnFailure
<1>6. ASSUME NEW h \in Handlers, op[h].kind \in {"replay", "bulk"}, op[h].pc = "bad", Reopen(h)
      PROVE  dlq'[f].status = dlq[f].status \/ ReopenedBy(h, f)
  BY <1>1, <1>5, <1>6 DEF Reopen, ReopenedBy, FailureStatus
<1>7. ASSUME NEW h \in Handlers, op[h].pc = "calling", NEW r, Sound(r), Publish(h, r)
      PROVE  dlq'[f].status = dlq[f].status
  BY <1>0, <1>7, PublishFrame
<1>8. CASE Pool
  BY <1>2, <1>8 DEF Pool, AutoRespond, Reject, UpdateMessage
<1>9. ASSUME NEW h \in Handlers, Start(h)
      PROVE  \/ dlq'[f].status = dlq[f].status \/ dlq'[f].status \in Resolved \/ TakenUp(f)
  BY <1>3, <1>4, <1>9 DEF Start, Approve, Replay, ReplayBulk, ReplayPending, Resolved
<1>10. ASSUME NEW h \in Handlers, Proceed(h)
       PROVE  \/ dlq'[f].status = dlq[f].status \/ dlq'[f].status \in Resolved
              \/ TakenUp(f) \/ ReopenedBy(h, f)
  <2>1. CASE NextItem(h)
    <3> DEFINE e == Head(op[h].todo)
    <3>1. CASE UNCHANGED dlq
      BY <3>1
    <3>2. CASE e \in DOMAIN dlq /\ Settle(e, "already_delivered")
      BY <1>3, <3>2 DEF Resolved
    <3>3. CASE e \in DOMAIN dlq /\ Replayable(e) /\ TakeUp(h, e, "bulk", Tail(op[h].todo))
      BY <1>4, <3>3
    <3> QED
      BY <2>1, <3>1, <3>2, <3>3 DEF NextItem
  <2>2. CASE Answered(h)
    <3>1. Sound([op[h] EXCEPT !.pc = "ok", !.left = 0])
      BY <1>0, <2>2, AnsweredSound DEF Answered
    <3> QED
      BY <1>7, <2>2, <3>1 DEF Answered
  <2>3. CASE AnswerLost(h)
    BY <1>0, <1>7, <2>3, FailedSound DEF AnswerLost
  <2>4. CASE Refused(h) \/ ApproveSent(h) \/ MessageWritten(h)
    BY <2>4 DEF Refused, ApproveSent, MessageWritten
  <2>5. CASE ApproveFailed(h)
    BY <1>0, <2>5, Filed
  <2>6. CASE ReplaySent(h) \/ ItemSent(h)
    BY <1>3, <1>5, <2>6 DEF ReplaySent, ItemSent, Resolved
  <2>7. CASE ReplayFailed(h) \/ ItemFailed(h)
    BY <1>6, <2>7 DEF ReplayFailed, ItemFailed
  <2> QED
    BY <1>10, <2>1, <2>2, <2>3, <2>4, <2>5, <2>6, <2>7 DEF Proceed
<1>11. ASSUME NEW H, Perish(H) PROVE dlq'[f].status = dlq[f].status
  BY <1>11 DEF Perish
<1>12. CASE UNCHANGED vars
  BY <1>12 DEF vars
<1> QED
  BY <1>8, <1>9, <1>10, <1>11, <1>12 DEF Next, Cancel, Crash

\* A resolved failure comes back only through a replay that had begun before and failed.
THEOREM ResolutionsStand == Spec => ResolvedStays
<1>1. ASSUME InboxAssumption, IInv, [Next]_vars, NEW f \in DOMAIN dlq, dlq[f].status \in Resolved,
             dlq'[f].status \notin Resolved
      PROVE  dlq'[f].status = "pending_retry" /\ \E h \in Replaying(f) : op[h].pc = "bad"
  <2>1. PICK h \in Handlers : ReopenedBy(h, f)
    BY <1>1, StatusSteps DEF TakenUp, Replayable, Resolved
  <2> QED
    BY <2>1 DEF ReopenedBy, Replaying
<1>2. InboxAssumption /\ IInv /\ [Next]_vars =>
        [\A f \in DOMAIN dlq :
           dlq[f].status \in Resolved /\ dlq'[f].status \notin Resolved =>
             dlq'[f].status = "pending_retry" /\ \E h \in Replaying(f) : op[h].pc = "bad"]_vars
  BY <1>1
<1> QED
  BY <1>2, InboxInvariant, InboxAssumption, PTL DEF Spec, ResolvedStays

-----------------------------------------------------------------------------
(* The abstract specification of the dead-letter queue.                    *)

\* Its state, read from that of the inbox.
Letters == [f \in DOMAIN dlq |-> dlq[f].status]
Hands == [f \in DOMAIN dlq |-> Replaying(f)]
AnsweredSet == {f \in DOMAIN dlq : Published(dlq[f].msg, dlq[f].key)}
GoneSet == {f \in DOMAIN dlq : \E k \in Texts : Published(dlq[f].msg, k)}
Queued == <<Letters, Hands, AnsweredSet, GoneSet>>

\* Request r has letter f in its hands.
Carries(r, f) ==
  r.kind \in {"replay", "bulk"} /\ r.fid = f /\ r.pc \in {"calling", "ok", "bad"}

\* What a request has in its hands after a step changes nothing for the others.
LEMMA HandsAfter ==
  ASSUME TypeOK, NEW h \in Handlers, NEW r, op' = [op EXCEPT ![h] = r], NEW f
  PROVE  /\ Carries(r, f) => Replaying(f)' = Replaying(f) \cup {h}
         /\ ~Carries(r, f) => Replaying(f)' = Replaying(f) \ {h}
<1>1. op'[h] = r /\ \A g \in Handlers : g # h => op'[g] = op[g]
  BY OpChange
<1> QED
  BY <1>1 DEF Replaying, Carries

\* A request that has the same letter before and after leaves all hands as they were.
LEMMA SameHands ==
  ASSUME TypeOK, NEW h \in Handlers, NEW r, op' = [op EXCEPT ![h] = r],
         \A f : Carries(r, f) <=> Carries(op[h], f)
  PROVE  \A f : Replaying(f)' = Replaying(f)
<1> SUFFICES ASSUME NEW f PROVE Replaying(f)' = Replaying(f)
  OBVIOUS
<1>1. h \in Replaying(f) <=> Carries(op[h], f)
  BY DEF Replaying, Carries
<1>2. /\ Carries(r, f) => Replaying(f)' = Replaying(f) \cup {h}
      /\ ~Carries(r, f) => Replaying(f)' = Replaying(f) \ {h}
  BY HandsAfter
<1>3. CASE Carries(r, f)
  <2>1. h \in Replaying(f) /\ Replaying(f)' = Replaying(f) \cup {h}
    BY <1>1, <1>2, <1>3
  <2> QED
    BY <2>1
<1>4. CASE ~Carries(r, f)
  <2>1. h \notin Replaying(f) /\ Replaying(f)' = Replaying(f) \ {h}
    BY <1>1, <1>2, <1>4
  <2> QED
    BY <2>1
<1> QED
  BY <1>3, <1>4

\* A step that keeps every status, all hands and what is published is a stutter.
LEMMA QueueStutters ==
  ASSUME SameFailures, DOMAIN dlq' = DOMAIN dlq,
         \A f \in DOMAIN dlq : dlq'[f].status = dlq[f].status,
         \A f \in DOMAIN dlq : Replaying(f)' = Replaying(f), UNCHANGED delivered
  PROVE  UNCHANGED Queued
<1>1. UNCHANGED Letters
  BY DEF Letters
<1>2. UNCHANGED Hands
  BY DEF Hands
<1>3. UNCHANGED <<AnsweredSet, GoneSet>>
  BY DEF AnsweredSet, GoneSet, Published, SameFailures
<1> QED
  BY <1>1, <1>2, <1>3 DEF Queued

\* One failure changes its status.
LEMMA LetterMoves ==
  ASSUME TypeOK, NEW f \in DOMAIN dlq, NEW s \in FailureStatus,
         dlq' = [dlq EXCEPT ![f].status = s], UNCHANGED delivered
  PROVE  /\ DOMAIN dlq' = DOMAIN dlq
         /\ Letters' = [Letters EXCEPT ![f] = s]
         /\ UNCHANGED <<AnsweredSet, GoneSet>>
<1>1. /\ SameFailures /\ DOMAIN dlq' = DOMAIN dlq /\ dlq'[f].status = s
      /\ \A g \in DOMAIN dlq : g # f => dlq'[g] = dlq[g]
  BY SettleFrame
<1>2. Letters' = [Letters EXCEPT ![f] = s]
  BY <1>1 DEF Letters
<1>3. UNCHANGED <<AnsweredSet, GoneSet>>
  BY <1>1 DEF AnsweredSet, GoneSet, Published, SameFailures
<1> QED
  BY <1>1, <1>2, <1>3

LEMMA TakesUp ==
  ASSUME TypeOK, NEW h \in Handlers, op[h].pc \in {"idle", "next"}, NEW f \in DOMAIN dlq,
         NEW kind \in {"replay", "bulk"}, NEW todo, Replayable(f), TakeUp(h, f, kind, todo),
         UNCHANGED delivered
  PROVE  Queue!Work
<1> DEFINE r == [pc |-> "calling", kind |-> kind, msg |-> dlq[f].msg, text |-> dlq[f].text,
                 key |-> dlq[f].key, fid |-> f, left |-> Attempts, todo |-> todo, news |-> 0]
<1>1. op' = [op EXCEPT ![h] = r] /\ dlq' = [dlq EXCEPT ![f].status = "replaying"]
  BY DEF TakeUp
<1>2. \A g : Carries(r, g) <=> g = f
  BY DEF Carries
<1> HIDE DEF r
<1>3. \A g : h \notin Replaying(g)
  BY DEF Replaying
<1>4. \A g : Replaying(g)' = IF g = f THEN Replaying(g) \cup {h} ELSE Replaying(g)
  <2> SUFFICES ASSUME NEW g
               PROVE  Replaying(g)' = IF g = f THEN Replaying(g) \cup {h} ELSE Replaying(g)
    OBVIOUS
  <2>1. CASE g = f
    BY <1>1, <1>2, <2>1, HandsAfter
  <2>2. CASE g # f
    <3>1. Replaying(g)' = Replaying(g) \ {h}
      BY <1>1, <1>2, <2>2, HandsAfter
    <3> QED
      BY <1>3, <2>2, <3>1
  <2> QED
    BY <2>1, <2>2
<1>5. /\ DOMAIN dlq' = DOMAIN dlq /\ Letters' = [Letters EXCEPT ![f] = "replaying"]
      /\ UNCHANGED <<AnsweredSet, GoneSet>>
  BY <1>1, LetterMoves DEF FailureStatus
<1>6. Hands' = [Hands EXCEPT ![f] = @ \cup {h}]
  BY <1>4, <1>5 DEF Hands
<1>7. Letters[f] \in Queue!Open /\ \A g \in DOMAIN Letters : h \notin Hands[g]
  BY <1>3 DEF Letters, Hands, Replayable, Queue!Open
<1>8. Queue!TakeUp(h, f)
  BY <1>5, <1>6, <1>7 DEF Queue!TakeUp, Letters, Hands, AnsweredSet, GoneSet
<1> QED
  BY <1>8 DEF Queue!Work

\* A replay lets go of its failure: back to the queue, or closed as replayed.
LEMMA LetsGo ==
  ASSUME TypeOK, NEW h \in Handlers, NEW f \in DOMAIN dlq, Carries(op[h], f), NEW r,
         op' = [op EXCEPT ![h] = r], \A g : ~Carries(r, g), NEW s \in {"pending_retry", "replayed"},
         s = "replayed" => f \in AnsweredSet, dlq' = [dlq EXCEPT ![f].status = s], UNCHANGED delivered
  PROVE  Queue!Work
<1>1. /\ DOMAIN dlq' = DOMAIN dlq /\ Letters' = [Letters EXCEPT ![f] = s]
      /\ UNCHANGED <<AnsweredSet, GoneSet>>
  BY LetterMoves DEF FailureStatus, Resolved
<1>2. h \in Replaying(f) /\ \A g : g # f => h \notin Replaying(g)
  BY DEF Replaying, Carries
<1>3. \A g : Replaying(g)' = Replaying(g) \ {h}
  BY HandsAfter
<1>4. h \in Hands[f] /\ Hands' = [Hands EXCEPT ![f] = @ \ {h}]
  BY <1>1, <1>2, <1>3 DEF Hands
<1>5. Queue!LetGo(h, f, s)
  BY <1>1, <1>4 DEF Queue!LetGo, Letters, Hands, AnsweredSet, GoneSet
<1>6. CASE s = "pending_retry"
  BY <1>5, <1>6 DEF Queue!Work, Queue!GiveBack
<1>7. CASE s = "replayed"
  BY <1>5, <1>7 DEF Queue!Work, Queue!Close, AnsweredSet
<1> QED
  BY <1>6, <1>7

\* A failure whose message has gone out is dismissed.
LEMMA Dismisses ==
  ASSUME IInv, NEW f \in DOMAIN dlq, AlreadySent(f), Settle(f, "already_delivered"),
         \A g : Replaying(g)' = Replaying(g), UNCHANGED delivered
  PROVE  Queue!Work
<1>0. TypeOK
  BY DEF IInv
<1>1. /\ DOMAIN dlq' = DOMAIN dlq /\ Letters' = [Letters EXCEPT ![f] = "already_delivered"]
      /\ UNCHANGED <<AnsweredSet, GoneSet>>
  BY <1>0, LetterMoves DEF Settle, FailureStatus, Resolved
<1>2. Published(dlq[f].msg, inbox[dlq[f].msg].key) /\ inbox[dlq[f].msg].key \in Key
  BY <1>0, EntryFields DEF IInv, NothingDropped, AlreadySent, TypeOK, Message
<1>3. f \in GoneSet
  BY <1>2 DEF GoneSet, Published, Key
<1>4. UNCHANGED Hands
  BY <1>1 DEF Hands
<1>5. Queue!Dismiss(f)
  BY <1>1, <1>3, <1>4 DEF Queue!Dismiss, Letters, Hands, AnsweredSet, GoneSet
<1> QED
  BY <1>5 DEF Queue!Work

\* The network publishes: what was answered stays so, and nothing moves in the queue.
LEMMA Publishes ==
  ASSUME IInv, NEW h \in Handlers, op[h].pc = "calling", NEW r, Sound(r),
         r.kind = op[h].kind, r.fid = op[h].fid, r.pc \in {"calling", "ok", "bad"}, Publish(h, r)
  PROVE  Queue!Work
<1>0. TypeOK /\ Engaged
  BY DEF IInv
<1>1. /\ SameFailures /\ DOMAIN dlq' = DOMAIN dlq /\ Lasting
      /\ \A f \in DOMAIN dlq : dlq'[f].status = dlq[f].status
  BY <1>0, PublishFrame, InboxAssumption
<1>2. PICK n : op' = [op EXCEPT ![h] = n] /\ n.kind = r.kind /\ n.fid = r.fid /\ n.pc = r.pc
  <2>1. CASE op[h].kind = "approve"
    <3> DEFINE n == [r EXCEPT !.news = @ + IF delivered[op[h].msg][op[h].key] = None THEN 1 ELSE 0]
    <3>1. op' = [op EXCEPT ![h] = n]
      BY <2>1 DEF Publish
    <3>2. n.kind = r.kind /\ n.fid = r.fid /\ n.pc = r.pc
      BY DEF Sound, Request
    <3> QED
      BY <3>1, <3>2
  <2>2. CASE op[h].kind # "approve"
    BY <2>2 DEF Publish
  <2> QED
    BY <2>1, <2>2
<1>3. \A f : Carries(n, f) <=> Carries(op[h], f)
  BY <1>2 DEF Carries
<1>4. \A f : Replaying(f)' = Replaying(f)
  BY <1>0, <1>2, <1>3, SameHands
<1>5. UNCHANGED <<Letters, Hands>> /\ DOMAIN Letters = DOMAIN dlq
  BY <1>1, <1>4 DEF Letters, Hands
<1>6. /\ AnsweredSet \subseteq AnsweredSet' /\ GoneSet \subseteq GoneSet'
      /\ AnsweredSet' \cup GoneSet' \subseteq DOMAIN Letters
  BY <1>0, <1>1, <1>5, EntryFields DEF AnsweredSet, GoneSet, Published, SameFailures, Lasting
<1>7. Queue!Publish
  BY <1>5, <1>6 DEF Queue!Publish, Letters, Hands, AnsweredSet, GoneSet
<1> QED
  BY <1>7 DEF Queue!Work

\* A reply that failed is filed at the end of the queue, in nobody's hands.
LEMMA Files ==
  ASSUME IInv, NEW h \in Handlers, ApproveFailed(h)
  PROVE  Queue!Work
<1>0. TypeOK /\ Engaged /\ dlq \in Seq(Failure)
  BY DEF IInv, TypeOK
<1> DEFINE n == Len(dlq) + 1
           e == [msg |-> op[h].msg, text |-> op[h].text, key |-> op[h].key,
                 status |-> "pending_retry", news |-> op[h].news]
<1>1. /\ dlq' = Append(dlq, e) /\ UNCHANGED delivered
      /\ DOMAIN dlq = 1 .. Len(dlq) /\ DOMAIN dlq' = 1 .. n /\ Len(dlq) \in Nat
      /\ dlq'[n] = e /\ \A f \in DOMAIN dlq : dlq'[f] = dlq[f]
  BY <1>0 DEF ApproveFailed
<1>2. /\ op' = [op EXCEPT ![h] = [op[h] EXCEPT !.pc = "filed", !.fid = n]]
      /\ op[h] \in Request
  BY <1>0 DEF ApproveFailed, TypeOK
<1>3. \A f : ~Carries([op[h] EXCEPT !.pc = "filed", !.fid = n], f) /\ ~Carries(op[h], f)
  BY <1>2 DEF Carries, Request, ApproveFailed
<1>4. \A f : Replaying(f)' = Replaying(f)
  BY <1>0, <1>2, <1>3, SameHands
<1>5. Replaying(n) = {}
  <2>1. \A g \in Handlers : op[g].fid = n => ~Carries(op[g], n)
    BY <1>0, <1>1 DEF Engaged, OnFailure, Carries
  <2> QED
    BY <2>1 DEF Replaying, Carries
<1>6. Letters \in Seq(FailureStatus) /\ Len(Letters) = Len(dlq)
  BY <1>0, <1>1, EntryFields, SeqDef DEF Letters
<1>7. Letters' = Append(Letters, "pending_retry")
  <2>1. e.status = "pending_retry"
    OBVIOUS
  <2> QED
    BY <1>1, <1>6, <2>1 DEF Letters, FailureStatus
<1>8. Hands \in Seq(SUBSET Handlers) /\ Len(Hands) = Len(dlq)
  BY <1>1, SeqDef DEF Hands, Replaying
<1>9. Hands' = Append(Hands, {})
  <2>1. Hands' = [f \in 1 .. n |-> Replaying(f)]
    BY <1>1, <1>4 DEF Hands
  <2>2. Hands = [f \in 1 .. Len(dlq) |-> Replaying(f)]
    BY <1>1 DEF Hands
  <2> QED
    BY <1>1, <1>5, <1>8, <2>1, <2>2
<1>10. PICK A \in SUBSET {n}, G \in SUBSET {n} :
         AnsweredSet' = AnsweredSet \cup A /\ GoneSet' = GoneSet \cup G
  <2>0. DOMAIN dlq' = DOMAIN dlq \cup {n} /\ n \notin DOMAIN dlq
    BY <1>1
  <2> HIDE DEF n, e
  <2>1. AnsweredSet' = AnsweredSet \cup (AnsweredSet' \cap {n})
    <3>1. \A f \in DOMAIN dlq : f \in AnsweredSet' <=> f \in AnsweredSet
      BY <1>1, <2>0 DEF AnsweredSet, Published
    <3>2. AnsweredSet' \subseteq DOMAIN dlq' /\ AnsweredSet \subseteq DOMAIN dlq
      BY DEF AnsweredSet
    <3> QED
      BY <2>0, <3>1, <3>2
  <2>2. GoneSet' = GoneSet \cup (GoneSet' \cap {n})
    <3>1. \A f \in DOMAIN dlq : f \in GoneSet' <=> f \in GoneSet
      BY <1>1, <2>0 DEF GoneSet, Published
    <3>2. GoneSet' \subseteq DOMAIN dlq' /\ GoneSet \subseteq DOMAIN dlq
      BY DEF GoneSet
    <3> QED
      BY <2>0, <3>1, <3>2
  <2> QED
    BY <2>1, <2>2
<1> HIDE DEF e
<1>11. Queue!File
  BY <1>6, <1>7, <1>9, <1>10 DEF Queue!File, Letters, Hands, AnsweredSet, GoneSet
<1> QED
  BY <1>11 DEF Queue!Work

\* A step that changes neither failures, hands nor what is published is a stutter.
LEMMA Stays ==
  ASSUME TypeOK, UNCHANGED <<dlq, delivered>>, \A f : Replaying(f)' = Replaying(f)
  PROVE  UNCHANGED Queued
<1>1. SameFailures
  BY DEF SameFailures
<1> QED
  BY <1>1, QueueStutters

\* A request that goes on to its next item, or ends, has nothing in its hands.
LEMMA OnwardEmpty ==
  ASSUME NEW h \in Handlers, NEW todo, Onward(h, todo)
  PROVE  \E r : op' = [op EXCEPT ![h] = r] /\ \A f : ~Carries(r, f)
<1> DEFINE r == IF todo = <<>> THEN Idle
                ELSE [Idle EXCEPT !.pc = "next", !.kind = "bulk", !.todo = todo]
<1>1. op' = [op EXCEPT ![h] = r]
  BY DEF Onward
<1>2. \A f : ~Carries(r, f)
  BY DEF Idle, Carries
<1> HIDE DEF r
<1> QED
  BY <1>1, <1>2

\* ... so that the hands stay as they were when it had nothing before.
LEMMA OnwardKeeps ==
  ASSUME TypeOK, NEW h \in Handlers, NEW todo, Onward(h, todo), op[h].pc \in {"idle", "next"}
  PROVE  \A f : Replaying(f)' = Replaying(f)
<1>1. PICK r : op' = [op EXCEPT ![h] = r] /\ \A f : ~Carries(r, f)
  BY OnwardEmpty
<1>2. \A f : ~Carries(op[h], f)
  BY DEF Carries
<1> QED
  BY <1>1, <1>2, SameHands

\* The handlers of the thread pool resolve letters or do not touch the queue.
LEMMA PoolMoves ==
  ASSUME IInv, Pool
  PROVE  Queue!Work \/ UNCHANGED Queued
<1>0. TypeOK
  BY DEF IInv
<1>1. ASSUME NEW F \in SUBSET (DOMAIN dlq), Resolve(F) PROVE Queue!Work
  <2>1. /\ SameFailures /\ DOMAIN dlq' = DOMAIN dlq
        /\ \A f \in F : dlq'[f].status = "manual_followup"
        /\ \A f \in DOMAIN dlq \ F : dlq'[f] = dlq[f]
        /\ UNCHANGED <<op, delivered>>
    BY <1>0, <1>1, ResolveFrame DEF Resolve
  <2>2. \A f \in F : Letters[f] \in Queue!Open
    BY <1>0, <1>1, EntryFields DEF Resolve, Letters, Queue!Open, FailureStatus
  <2>3. Letters' = [f \in DOMAIN Letters |-> IF f \in F THEN "manual_followup" ELSE Letters[f]]
    BY <2>1 DEF Letters
  <2>4. UNCHANGED <<Hands, AnsweredSet, GoneSet>>
    BY <2>1 DEF Hands, Replaying, AnsweredSet, GoneSet, Published, SameFailures
  <2>5. Queue!Resolve(F)
    BY <2>2, <2>3, <2>4 DEF Queue!Resolve, Letters, Hands, AnsweredSet, GoneSet
  <2>6. DOMAIN Letters = DOMAIN dlq
    BY DEF Letters
  <2> QED
    BY <2>5, <2>6 DEF Queue!Work, Letters
<1>2. ASSUME UNCHANGED <<dlq, op, delivered>> PROVE UNCHANGED Queued
  BY <1>0, <1>2, Stays DEF Replaying
<1> QED
  BY <1>1, <1>2 DEF Pool, AutoRespond, Reject, UpdateMessage

LEMMA StartMoves ==
  ASSUME IInv, NEW h \in Handlers, Start(h)
  PROVE  Queue!Work \/ UNCHANGED Queued
<1>0. TypeOK
  BY DEF IInv
<1>1. ASSUME NEW m \in Messages, Approve(h, m) PROVE UNCHANGED Queued
  <2> DEFINE r == [pc |-> "calling", kind |-> "approve", msg |-> m, text |-> inbox[m].preview,
                   key |-> KeyFor(m), fid |-> 0, left |-> Attempts, todo |-> <<>>, news |-> 0]
  <2>1. op' = [op EXCEPT ![h] = r]
    BY <1>1 DEF Approve
  <2>2. \A f : ~Carries(r, f) /\ ~Carries(op[h], f)
    BY <1>1 DEF Approve, Carries
  <2> HIDE DEF r
  <2> QED
    BY <1>0, <1>1, <2>1, <2>2, SameHands, Stays DEF Approve
<1>2. ASSUME NEW f \in FailureIds, Replay(h, f) PROVE Queue!Work
  <2>1. CASE AlreadySent(f) /\ Settle(f, "already_delivered") /\ UNCHANGED op
    <3>1. \A g : Replaying(g)' = Replaying(g)
      BY <2>1 DEF Replaying
    <3> QED
      BY <1>2, <2>1, <3>1, Dismisses DEF Replay
  <2>2. CASE Replayable(f) /\ TakeUp(h, f, "replay", <<>>)
    BY <1>0, <1>2, <2>2, TakesUp DEF Replay
  <2> QED
    BY <1>2, <2>1, <2>2 DEF Replay
<1>3. ASSUME NEW ids, ReplayBulk(h, ids) \/ ReplayPending(h, ids) PROVE UNCHANGED Queued
  BY <1>0, <1>3, OnwardKeeps, Stays DEF ReplayBulk, ReplayPending
<1> QED
  BY <1>1, <1>2, <1>3 DEF Start

\* A request under way: its outcome, if it has one, is its letter's.
LEMMA ProceedMoves ==
  ASSUME IInv, NEW h \in Handlers, Proceed(h)
  PROVE  Queue!Work \/ UNCHANGED Queued
<1>0. TypeOK /\ Engaged /\ op[h] \in Request
  BY DEF IInv, TypeOK
<1> PICK f : f = op[h].fid
  OBVIOUS
<1>1. op[h].kind \in {"replay", "bulk"} /\ op[h].pc \in {"calling", "ok", "bad"}
        => f \in DOMAIN dlq /\ Carries(op[h], f)
  BY <1>0 DEF Engaged, OnFailure, Carries
<1>2. op[h].kind \in {"replay", "bulk"} /\ op[h].pc = "ok" => f \in AnsweredSet
  BY <1>0, <1>1 DEF IInv, Answering, Engaged, OnFailure, AnsweredSet
<1>3. ASSUME op[h].pc \in {"filed", "closed"} \/ op[h].kind = "approve",
             Done(h), UNCHANGED <<dlq, delivered>>
      PROVE  UNCHANGED Queued
  <2>1. \A g : ~Carries(Idle, g) /\ ~Carries(op[h], g)
    BY <1>3 DEF Carries, Idle
  <2> QED
    BY <1>0, <1>3, <2>1, SameHands, Stays DEF Done
<1>4. CASE NextItem(h)
  <2> DEFINE e == Head(op[h].todo)
             rest == Tail(op[h].todo)
  <2>1. CASE UNCHANGED dlq /\ Onward(h, rest)
    BY <1>0, <1>4, <2>1, OnwardKeeps, Stays DEF NextItem
  <2>2. CASE e \in DOMAIN dlq /\ AlreadySent(e) /\ Settle(e, "already_delivered") /\ Onward(h, rest)
    BY <1>0, <1>4, <2>2, OnwardKeeps, Dismisses DEF NextItem
  <2>3. CASE e \in DOMAIN dlq /\ Replayable(e) /\ TakeUp(h, e, "bulk", rest)
    BY <1>0, <1>4, <2>3, TakesUp DEF NextItem
  <2> QED
    BY <1>4, <2>1, <2>2, <2>3 DEF NextItem
<1>5. CASE Answered(h)
  <2> DEFINE r == [op[h] EXCEPT !.pc = "ok", !.left = 0]
  <2>1. Sound(r) /\ op[h].pc = "calling" /\ Publish(h, r)
    BY <1>0, <1>5, AnsweredSound, InboxAssumption DEF Answered
  <2>2. r.kind = op[h].kind /\ r.fid = op[h].fid /\ r.pc \in {"calling", "ok", "bad"}
    BY <1>0 DEF Request
  <2> HIDE DEF r
  <2> QED
    BY <2>1, <2>2, Publishes
<1>6. CASE AnswerLost(h) \/ Refused(h)
  <2>1. op[h].pc = "calling" /\ Sound(Failed(h))
    BY <1>0, <1>6, FailedSound, InboxAssumption DEF AnswerLost, Refused
  <2>2. /\ Failed(h).kind = op[h].kind /\ Failed(h).fid = op[h].fid
        /\ Failed(h).pc \in {"calling", "ok", "bad"}
    BY <1>0, <2>1 DEF Failed, Request
  <2>3. CASE AnswerLost(h)
    BY <2>1, <2>2, <2>3, Publishes DEF AnswerLost
  <2>4. CASE Refused(h)
    <3>1. \A g : Carries(Failed(h), g) <=> Carries(op[h], g)
      BY <2>1, <2>2 DEF Carries
    <3> QED
      BY <1>0, <2>4, <3>1, SameHands, Stays DEF Refused
  <2> QED
    BY <1>6, <2>3, <2>4
<1>7. CASE ApproveSent(h)
  BY <1>3, <1>7 DEF ApproveSent
<1>8. CASE ApproveFailed(h)
  BY <1>8, Files
<1>9. CASE ReplaySent(h) \/ ReplayFailed(h)
  <2> DEFINE r == IF op[h].pc = "ok" THEN [op[h] EXCEPT !.pc = "closed"]
                                     ELSE [op[h] EXCEPT !.pc = "filed"]
             s == IF op[h].pc = "ok" THEN "replayed" ELSE "pending_retry"
  <2>1. /\ op' = [op EXCEPT ![h] = r] /\ dlq' = [dlq EXCEPT ![f].status = s]
        /\ UNCHANGED delivered /\ op[h].kind = "replay" /\ op[h].pc \in {"ok", "bad"}
    BY <1>9 DEF ReplaySent, ReplayFailed, Settle, Reopen
  <2>2. \A g : ~Carries(r, g)
    BY <1>0 DEF Carries, Request
  <2>3. s \in {"pending_retry", "replayed"} /\ (s = "replayed" => f \in AnsweredSet)
    BY <1>2, <2>1
  <2> HIDE DEF r, s
  <2> QED
    BY <1>0, <1>1, <2>1, <2>2, <2>3, LetsGo
<1>10. CASE MessageWritten(h)
  BY <1>3, <1>10 DEF MessageWritten
<1>11. CASE ItemSent(h) \/ ItemFailed(h)
  <2> DEFINE s == IF op[h].pc = "ok" THEN "replayed" ELSE "pending_retry"
  <2>1. /\ dlq' = [dlq EXCEPT ![f].status = s] /\ Onward(h, op[h].todo)
        /\ UNCHANGED delivered /\ op[h].kind = "bulk" /\ op[h].pc \in {"ok", "bad"}
    BY <1>11 DEF ItemSent, ItemFailed, Settle, Reopen
  <2>2. PICK r : op' = [op EXCEPT ![h] = r] /\ \A g : ~Carries(r, g)
    BY <2>1, OnwardEmpty
  <2>3. s \in {"pending_retry", "replayed"} /\ (s = "replayed" => f \in AnsweredSet)
    BY <1>2, <2>1
  <2> HIDE DEF s
  <2> QED
    BY <1>0, <1>1, <2>1, <2>2, <2>3, LetsGo
<1> QED
  BY <1>4, <1>5, <1>6, <1>7, <1>8, <1>9, <1>10, <1>11 DEF Proceed

\* Requests that die let go of what they had in their hands, and nothing else happens.
LEMMA PerishMoves ==
  ASSUME TypeOK, NEW H \in SUBSET Handlers, Perish(H)
  PROVE  Queue!Drop(H)
<1>1. UNCHANGED <<dlq, delivered>> /\ \A g \in Handlers : op'[g] = IF g \in H THEN Idle ELSE op[g]
  BY DEF Perish
<1>2. \A f : Replaying(f)' = Replaying(f) \ H
  BY <1>1 DEF Replaying, Idle
<1>3. UNCHANGED <<Letters, AnsweredSet, GoneSet>>
  BY <1>1 DEF Letters, AnsweredSet, GoneSet, Published
<1>4. Hands' = [f \in DOMAIN Hands |-> Hands[f] \ H]
  BY <1>1, <1>2 DEF Hands
<1> QED
  BY <1>3, <1>4 DEF Queue!Drop, Letters, Hands, AnsweredSet, GoneSet

\* Every step works on the queue, leaves it alone, or is the death of requests.
LEMMA StepMoves ==
  ASSUME IInv, [Next]_vars
  PROVE  \/ Queue!Work \/ UNCHANGED Queued
         \/ Crash \/ \E h \in Handlers : Cancel(h)
<1>1. CASE UNCHANGED vars
  <2>1. TypeOK /\ UNCHANGED <<dlq, op, delivered>>
    BY <1>1 DEF IInv, vars
  <2> QED
    BY <2>1, Stays DEF Replaying
<1> QED
  BY <1>1, PoolMoves, StartMoves, ProceedMoves DEF Next

\* Approvals, retries, replays, batches, operators and deaths at once implement what the
\* inbox promises about its dead-letter queue.
THEOREM DeadLettersImplemented == Spec => ImplementsDeadLetters
<1>1. Init => Queue!Init
  <2> SUFFICES ASSUME Init PROVE Queue!Init
    OBVIOUS
  <2>1. DOMAIN dlq = {}
    BY DEF Init
  <2>2. Letters = <<>> /\ Hands = <<>>
    BY <2>1 DEF Letters, Hands
  <2>3. AnsweredSet = {} /\ GoneSet = {}
    BY <2>1 DEF AnsweredSet, GoneSet
  <2> QED
    BY <2>2, <2>3 DEF Queue!Init, Letters, Hands, AnsweredSet, GoneSet
<1>2. IInv /\ [Next]_vars => [Queue!Next]_Queued
  <2> SUFFICES ASSUME IInv, [Next]_vars PROVE Queue!Next \/ UNCHANGED Queued
    OBVIOUS
  <2>1. ASSUME NEW H \in SUBSET Handlers, Perish(H) PROVE Queue!Next
    BY <2>1, PerishMoves DEF IInv, Queue!Next
  <2>2. CASE Crash \/ \E h \in Handlers : Cancel(h)
    BY <2>1, <2>2 DEF Crash, Cancel
  <2> QED
    BY <2>2, StepMoves DEF Queue!Next
<1> QED
  BY <1>1, <1>2, InboxInvariant, PTL
     DEF Spec, ImplementsDeadLetters, Queue!Spec, Queue!vars, Queued, Letters, Hands,
         AnsweredSet, GoneSet

-----------------------------------------------------------------------------
\* What the promise is worth: the status of every letter is accounted for.
AnsweredFor ==
  \A f \in DOMAIN dlq :
    /\ dlq[f].status = "replayed" => Published(dlq[f].msg, dlq[f].key)
    /\ dlq[f].status = "already_delivered" => \E k \in Texts : Published(dlq[f].msg, k)

\* The same of the letters alone, which are a sequence.
LettersStand ==
  /\ \E n \in Nat : DOMAIN Letters = 1 .. n
  /\ \A f \in DOMAIN Letters : /\ Letters[f] = "replayed" => f \in AnsweredSet
                               /\ Letters[f] = "already_delivered" => f \in GoneSet

LEMMA LettersMean == LettersStand => AnsweredFor
BY DEF LettersStand, AnsweredFor, Letters, AnsweredSet, GoneSet

\* What appending does to a list that is known by its domain.
LEMMA Appended ==
  ASSUME NEW n \in Nat, NEW S, NEW q \in [1 .. n -> S], NEW e
  PROVE  /\ DOMAIN Append(q, e) = 1 .. (n + 1) /\ Append(q, e)[n + 1] = e
         /\ \A i \in 1 .. n : Append(q, e)[i] = q[i]
<1> DEFINE T == S \cup {e}
<1>1. q \in [1 .. n -> T]
  OBVIOUS
<1>2. q \in Seq(T)
  BY <1>1, SeqDef
<1>3. Len(q) = n
  BY <1>1, <1>2, LenProperties
<1> QED
  BY <1>2, <1>3, AppendProperties

\* A letter is filed.
LEMMA Filing ==
  ASSUME NEW n \in Nat, DOMAIN Letters = 1 .. n, Queue!File
  PROVE  /\ DOMAIN Letters' = 1 .. (n + 1) /\ Letters'[n + 1] = "pending_retry"
         /\ \A f \in 1 .. n : Letters'[f] = Letters[f] /\ Hands'[f] = Hands[f]
         /\ AnsweredSet \subseteq AnsweredSet' /\ GoneSet \subseteq GoneSet'
<1>0. DOMAIN dlq = 1 .. n
  BY DEF Letters
<1>1. /\ Letters' = Append(Letters, "pending_retry") /\ Hands' = Append(Hands, {})
      /\ AnsweredSet \subseteq AnsweredSet' /\ GoneSet \subseteq GoneSet'
  BY DEF Queue!File, Letters, Hands, AnsweredSet, GoneSet
<1>2. /\ DOMAIN Letters' = 1 .. (n + 1) /\ Letters'[n + 1] = "pending_retry"
      /\ \A f \in 1 .. n : Letters'[f] = Letters[f]
  <2>1. Letters \in [1 .. n -> {dlq[f].status : f \in 1 .. n}]
    BY <1>0 DEF Letters
  <2> QED
    BY <1>1, <2>1, Appended
<1>3. \A f \in 1 .. n : Hands'[f] = Hands[f]
  <2>1. Hands \in [1 .. n -> {Replaying(f) : f \in 1 .. n}]
    BY <1>0 DEF Hands
  <2>2. PICK A, B : A = Hands /\ B = Append(A, {})
    OBVIOUS
  <2>3. \A f \in 1 .. n : B[f] = A[f]
    BY <2>1, <2>2, Appended
  <2> QED
    BY <1>1, <2>2, <2>3
<1> QED
  BY <1>1, <1>2, <1>3

LEMMA FileStands ==
  ASSUME LettersStand, Queue!File
  PROVE  LettersStand'
<1>1. PICK n \in Nat : DOMAIN Letters = 1 .. n
  BY DEF LettersStand
<1>2. /\ DOMAIN Letters' = 1 .. (n + 1) /\ Letters'[n + 1] = "pending_retry"
      /\ \A f \in 1 .. n : Letters'[f] = Letters[f]
      /\ AnsweredSet \subseteq AnsweredSet' /\ GoneSet \subseteq GoneSet'
  BY <1>1, Filing
<1> QED
  BY <1>1, <1>2 DEF LettersStand

\* A step that changes the status of one letter.
LEMMA OneLetterStands ==
  ASSUME LettersStand, NEW f \in DOMAIN Letters, NEW s,
         Letters' = [Letters EXCEPT ![f] = s], UNCHANGED <<AnsweredSet, GoneSet>>,
         s = "replayed" => f \in AnsweredSet,
         s = "already_delivered" => f \in GoneSet
  PROVE  LettersStand'
<1>1. DOMAIN Letters' = DOMAIN Letters
  BY DEF Letters
<1>2. \A g \in DOMAIN Letters : Letters'[g] = IF g = f THEN s ELSE Letters[g]
  BY DEF LettersStand, Letters
<1> QED
  BY <1>1, <1>2 DEF LettersStand

\* Every step of the promise keeps what it is worth.
LEMMA LettersStep == LettersStand /\ [Queue!Next]_Queued => LettersStand'
<1> SUFFICES ASSUME LettersStand, [Queue!Next]_Queued PROVE LettersStand'
  OBVIOUS
<1>1. CASE UNCHANGED Queued
  BY <1>1 DEF Queued, LettersStand
<1>2. CASE Queue!File
  BY <1>2, FileStands
<1>3. ASSUME Letters' = Letters, AnsweredSet \subseteq AnsweredSet', GoneSet \subseteq GoneSet'
      PROVE  LettersStand'
  BY <1>3 DEF LettersStand
<1>4. CASE Queue!Publish
  BY <1>3, <1>4 DEF Queue!Publish, Letters, Hands, AnsweredSet, GoneSet
<1>5. ASSUME NEW f \in DOMAIN dlq, Queue!Dismiss(f) PROVE LettersStand'
  <2>1. PICK g \in DOMAIN Letters : g = f /\ Queue!Dismiss(g)
    BY <1>5 DEF Letters
  <2>2. /\ g \in GoneSet /\ Letters' = [Letters EXCEPT ![g] = "already_delivered"]
        /\ UNCHANGED <<AnsweredSet, GoneSet>>
    BY <2>1 DEF Queue!Dismiss, Letters, Hands, AnsweredSet, GoneSet
  <2> QED
    BY <2>2, OneLetterStands
<1>6. ASSUME NEW f \in DOMAIN dlq, NEW h \in Handlers, Queue!TakeUp(h, f) PROVE LettersStand'
  <2>1. PICK g \in DOMAIN Letters : g = f /\ Queue!TakeUp(h, g)
    BY <1>6 DEF Letters
  <2>2. Letters' = [Letters EXCEPT ![g] = "replaying"] /\ UNCHANGED <<AnsweredSet, GoneSet>>
    BY <2>1 DEF Queue!TakeUp, Letters, Hands, AnsweredSet, GoneSet
  <2> QED
    BY <2>2, OneLetterStands
<1>7. ASSUME NEW f \in DOMAIN dlq, NEW h \in Handlers, Queue!GiveBack(h, f) \/ Queue!Close(h, f)
      PROVE  LettersStand'
  <2>1. PICK g \in DOMAIN Letters, s \in {"pending_retry", "replayed"} :
          /\ g = f /\ Letters' = [Letters EXCEPT ![g] = s] /\ UNCHANGED <<AnsweredSet, GoneSet>>
          /\ s = "replayed" => g \in AnsweredSet
    BY <1>7 DEF Queue!GiveBack, Queue!Close, Queue!LetGo, Letters, Hands, AnsweredSet, GoneSet
  <2> QED
    BY <2>1, OneLetterStands
<1>8. ASSUME NEW F \in SUBSET (DOMAIN dlq), Queue!Resolve(F) PROVE LettersStand'
  <2>1. PICK G \in SUBSET DOMAIN Letters :
          /\ Letters' = [g \in DOMAIN Letters |-> IF g \in G THEN "manual_followup" ELSE Letters[g]]
          /\ UNCHANGED <<AnsweredSet, GoneSet>>
    BY <1>8 DEF Queue!Resolve, Letters, Hands, AnsweredSet, GoneSet
  <2> QED
    BY <2>1 DEF LettersStand
<1>9. ASSUME NEW H, Queue!Drop(H) PROVE LettersStand'
  <2>1. PICK D : D = H /\ Queue!Drop(D)
    BY <1>9
  <2>2. UNCHANGED <<Letters, AnsweredSet, GoneSet>>
    BY <2>1 DEF Queue!Drop, Letters, Hands, AnsweredSet, GoneSet
  <2> QED
    BY <1>3, <2>2
<1> QED
  BY <1>1, <1>2, <1>4, <1>5, <1>6, <1>7, <1>8, <1>9 DEF Queue!Next, Queue!Work

\* Whatever implements DeadLetters closes no letter that is not answered for.
THEOREM DeadLettersSuffice == ImplementsDeadLetters => []AnsweredFor
<1>1. Queue!Init => LettersStand
  <2> SUFFICES ASSUME Letters = <<>> PROVE LettersStand
    BY DEF Queue!Init, Letters, Hands
  <2>1. DOMAIN Letters = 1 .. 0
    OBVIOUS
  <2> QED
    BY <2>1 DEF LettersStand
<1> QED
  BY <1>1, LettersStep, LettersMean, PTL
     DEF ImplementsDeadLetters, Queue!Spec, Queue!vars, Queued, Letters, Hands, AnsweredSet, GoneSet

-----------------------------------------------------------------------------
\* Letter f is marked as being replayed, and is in nobody's hands.
Alone(f) == Letters[f] = "replaying" /\ Hands[f] = {}

\* Work on the queue leaves no letter alone that was not.
LEMMA WorkLeavesNone ==
  ASSUME TypeOK, Queue!Work, NEW f \in DOMAIN Letters, Alone(f)'
  PROVE  Alone(f)
<1>1. /\ DOMAIN Hands = DOMAIN Letters /\ DOMAIN dlq = DOMAIN Letters
      /\ Letters'[f] = "replaying" /\ Hands'[f] = {}
  BY DEF Letters, Hands, Alone
<1>2. ASSUME Letters'[f] = Letters[f], Hands'[f] = Hands[f] PROVE Alone(f)
  BY <1>1, <1>2 DEF Alone
<1>3. CASE Queue!Publish
  BY <1>2, <1>3 DEF Queue!Publish, Letters, Hands, AnsweredSet, GoneSet
<1>4. CASE Queue!File
  <2>1. DOMAIN Letters = 1 .. Len(dlq) /\ Len(dlq) \in Nat
    BY DEF TypeOK, Letters
  <2> QED
    BY <1>2, <1>4, <2>1, Filing
<1>5. ASSUME NEW g \in DOMAIN dlq, Queue!Dismiss(g) PROVE Alone(f)
  <2>1. PICK e \in DOMAIN Letters : e = g /\ Queue!Dismiss(e)
    BY <1>1, <1>5
  <2>2. Letters' = [Letters EXCEPT ![e] = "already_delivered"] /\ Hands' = Hands
    BY <2>1 DEF Queue!Dismiss, Letters, Hands, AnsweredSet, GoneSet
  <2>3. Letters'[f] = IF f = e THEN "already_delivered" ELSE Letters[f]
    BY <2>2 DEF Letters
  <2> QED
    BY <1>1, <1>2, <2>2, <2>3
<1>6. ASSUME NEW g \in DOMAIN dlq, NEW h \in Handlers, Queue!TakeUp(h, g) PROVE Alone(f)
  <2>1. PICK e \in DOMAIN Letters : e = g /\ Queue!TakeUp(h, e)
    BY <1>1, <1>6
  <2>2. /\ Letters' = [Letters EXCEPT ![e] = "replaying"]
        /\ Hands' = [Hands EXCEPT ![e] = @ \cup {h}]
    BY <2>1 DEF Queue!TakeUp, Letters, Hands, AnsweredSet, GoneSet
  <2>3. /\ Letters'[f] = IF f = e THEN "replaying" ELSE Letters[f]
        /\ Hands'[f] = IF f = e THEN Hands[e] \cup {h} ELSE Hands[f]
    BY <1>1, <2>2 DEF Letters, Hands
  <2>4. f # e
    BY <1>1, <2>3
  <2> QED
    BY <1>2, <2>3, <2>4
<1>7. ASSUME NEW g \in DOMAIN dlq, NEW h \in Handlers, Queue!GiveBack(h, g) \/ Queue!Close(h, g)
      PROVE  Alone(f)
  <2>1. PICK e \in DOMAIN Letters, s \in {"pending_retry", "replayed"} :
          /\ e = g /\ Letters' = [Letters EXCEPT ![e] = s]
          /\ Hands' = [Hands EXCEPT ![e] = @ \ {h}]
    BY <1>1, <1>7
       DEF Queue!GiveBack, Queue!Close, Queue!LetGo, Letters, Hands, AnsweredSet, GoneSet
  <2>2. /\ Letters'[f] = IF f = e THEN s ELSE Letters[f]
        /\ Hands'[f] = IF f = e THEN Hands[e] \ {h} ELSE Hands[f]
    BY <1>1, <2>1 DEF Letters, Hands
  <2>3. f # e
    BY <1>1, <2>2
  <2> QED
    BY <1>2, <2>2, <2>3
<1>8. ASSUME NEW F \in SUBSET (DOMAIN dlq), Queue!Resolve(F) PROVE Alone(f)
  <2>1. PICK G \in SUBSET DOMAIN Letters :
          /\ Letters' = [g \in DOMAIN Letters |-> IF g \in G THEN "manual_followup" ELSE Letters[g]]
          /\ Hands' = Hands
    BY <1>1, <1>8 DEF Queue!Resolve, Letters, Hands, AnsweredSet, GoneSet
  <2>2. Letters'[f] = IF f \in G THEN "manual_followup" ELSE Letters[f]
    BY <2>1
  <2> QED
    BY <1>1, <1>2, <2>1, <2>2
<1>9. DOMAIN Letters = DOMAIN dlq
  BY <1>1
<1> QED
  BY <1>3, <1>4, <1>5, <1>6, <1>7, <1>8, <1>9 DEF Queue!Work, Letters

\* A replay that comes to its end leaves no failure abandoned: only requests that are
\* cancelled or lost with the process do.
THEOREM ReplaysEnd == Spec => NoneAbandoned
<1>1. ASSUME IInv, [Next]_vars, NEW f \in DOMAIN dlq, ~Abandoned(f), Abandoned(f)'
      PROVE  Crash \/ \E h \in Replaying(f) : Cancel(h)
  <2>0. TypeOK /\ f \in DOMAIN Letters
    BY <1>1 DEF IInv, Letters
  <2>1. Abandoned(f) <=> Alone(f)
    BY <1>1 DEF Abandoned, Alone, Letters, Hands
  <2>2. ASSUME f \in DOMAIN dlq' PROVE Abandoned(f)' => Alone(f)'
    BY <2>2 DEF Abandoned, Alone, Letters, Hands
  <2>3. f \in DOMAIN dlq'
    <3>1. TypeOK' /\ Engaged
      BY <1>1, TypeStep, InboxAssumption DEF IInv
    <3>2. SameFailures
      <4>1. CASE UNCHANGED vars
        BY <4>1 DEF vars, SameFailures
      <4> QED
        BY <1>1, <3>1, <4>1, InboxAssumption, PoolStep, StartStep, ProceedStep, PerishStep
           DEF Next, Cancel, Crash
    <3> QED
      BY <1>1, <3>2 DEF SameFailures
  <2>4. Alone(f)' /\ ~Alone(f)
    BY <1>1, <2>1, <2>2, <2>3
  <2>5. CASE Queue!Work
    BY <2>0, <2>4, <2>5, WorkLeavesNone
  <2>6. CASE UNCHANGED Queued
    BY <2>4, <2>6 DEF Queued, Alone
  <2>7. ASSUME NEW h \in Handlers, Cancel(h) PROVE h \in Replaying(f)
    <3>1. dlq' = dlq /\ \A g \in Handlers : g # h => op'[g] = op[g]
      BY <2>7 DEF Cancel, Perish
    <3>2. Replaying(f) # {} /\ Replaying(f)' = {}
      BY <1>1, <3>1 DEF Abandoned
    <3> QED
      BY <3>1, <3>2 DEF Replaying
  <2> QED
    BY <1>1, <2>5, <2>6, <2>7, StepMoves
<1>2. IInv /\ [Next]_vars =>
        [\A f \in DOMAIN dlq :
           ~Abandoned(f) /\ Abandoned(f)' => Crash \/ \E h \in Replaying(f) : Cancel(h)]_vars
  BY <1>1
<1> QED
  BY <1>2, InboxInvariant, PTL DEF Spec, NoneAbandoned

-----------------------------------------------------------------------------
\* While a message shows the same failure and that is not resolved, it is actionable.
LEMMA StillActionable ==
  ASSUME IInv, SameFailures, NEW m \in Messages, Actionable(m),
         inbox'[m].delivery = inbox[m].delivery, inbox'[m].failure = inbox[m].failure,
         inbox[m].delivery = "failed" => dlq'[inbox[m].failure].status \notin Resolved
  PROVE  Actionable(m)'
<1>1. inbox[m].delivery = "failed" => inbox[m].failure \in DOMAIN dlq
  BY DEF IInv, Engaged
<1> QED
  BY <1>1 DEF Actionable, SameFailures

LEMMA ActionableSteps ==
  ASSUME InboxAssumption, IInv, Next, NEW m \in Messages, Actionable(m),
         \A h \in Handlers : /\ ~(op[h].pc = "filed" /\ op[h].msg = m)
                             /\ ~(op'[h].pc = "closed" /\ op'[h].msg = m)
  PROVE  Actionable(m)'
<1> DEFINE f == inbox[m].failure
<1>0. TypeOK /\ Engaged
  BY DEF IInv
<1>1. SameFailures
  <2>1. TypeOK'
    BY <1>0, TypeStep
  <2> QED
    BY <2>1, PoolStep, StartStep, ProceedStep, PerishStep DEF Next, Cancel, Crash
<1>2. inbox[m].delivery = "failed" =>
        f \in DOMAIN dlq /\ dlq[f].msg = m /\ dlq[f].status \notin Resolved
  BY <1>0 DEF Engaged, Actionable
<1>3. ASSUME inbox'[m].delivery = inbox[m].delivery, inbox'[m].failure = inbox[m].failure,
             inbox[m].delivery = "failed" => dlq'[f].status = dlq[f].status
      PROVE  Actionable(m)'
  BY <1>1, <1>2, <1>3, StillActionable
<1>4. ASSUME NEW e \in DOMAIN dlq, NEW s \in FailureStatus, dlq' = [dlq EXCEPT ![e].status = s],
             UNCHANGED inbox, s \notin Resolved \/ AlreadySent(e)
      PROVE  Actionable(m)'
  <2>1. /\ dlq'[e].status = s
        /\ \A g \in DOMAIN dlq : g # e => dlq'[g] = dlq[g]
    BY <1>0, <1>4, SettleFrame
  <2>2. CASE inbox[m].delivery = "failed" /\ f = e
    <3>1. ~AlreadySent(e)
      BY <1>2, <2>2 DEF AlreadySent
    <3> QED
      BY <1>1, <1>4, <2>1, <2>2, <3>1, StillActionable
  <2>3. CASE ~(inbox[m].delivery = "failed" /\ f = e)
    BY <1>2, <1>3, <1>4, <2>1, <2>3
  <2> QED
    BY <2>2, <2>3
<1>5. ASSUME NEW h \in Handlers, NEW e \in DOMAIN dlq, NEW kind, NEW todo,
             TakeUp(h, e, kind, todo), UNCHANGED inbox
      PROVE  Actionable(m)'
  BY <1>4, <1>5 DEF TakeUp, FailureStatus, Resolved
<1>6. ASSUME NEW e \in DOMAIN dlq, AlreadySent(e), Settle(e, "already_delivered"), UNCHANGED inbox
      PROVE  Actionable(m)'
  BY <1>4, <1>6 DEF Settle, FailureStatus, Resolved
<1>7. ASSUME NEW n \in Messages, NEW t, NEW s,
             \/ inbox' = [inbox EXCEPT ![n].preview = t, ![n].status = s]
             \/ inbox' = [inbox EXCEPT ![n].status = s],
             UNCHANGED dlq
      PROVE  Actionable(m)'
  <2>1. CASE inbox' = [inbox EXCEPT ![n].preview = t, ![n].status = s]
    <3>1. inbox'[m].delivery = inbox[m].delivery /\ inbox'[m].failure = inbox[m].failure
      BY <1>0, <2>1 DEF TypeOK, Message
    <3> QED
      BY <1>3, <1>7, <3>1
  <2>2. CASE inbox' = [inbox EXCEPT ![n].status = s]
    <3>1. inbox'[m].delivery = inbox[m].delivery /\ inbox'[m].failure = inbox[m].failure
      BY <1>0, <2>2 DEF TypeOK, Message
    <3> QED
      BY <1>3, <1>7, <3>1
  <2> QED
    BY <1>7, <2>1, <2>2
<1>8. CASE Pool
  <2>1. ASSUME NEW F \in SUBSET (DOMAIN dlq), Resolve(F) PROVE Actionable(m)'
    <3>1. CASE m \in {dlq[e].msg : e \in F}
      <4>0. inbox[m] \in Message
        BY <1>0 DEF TypeOK
      <4>1. inbox'[m].delivery = "manual_followup_required"
        BY <2>1, <3>1, <4>0 DEF Resolve, Message
      <4> QED
        BY <4>1 DEF Actionable
    <3>2. CASE m \notin {dlq[e].msg : e \in F}
      <4>1. inbox'[m] = inbox[m]
        BY <2>1, <3>2 DEF Resolve
      <4>2. inbox[m].delivery = "failed" => dlq'[f] = dlq[f]
        BY <1>2, <2>1, <3>2 DEF Resolve
      <4> QED
        BY <1>3, <4>1, <4>2
    <3> QED
      BY <3>1, <3>2
  <2>2. ASSUME NEW n \in Messages, NEW t \in Texts, NEW a \in BOOLEAN, AutoRespond(n, t, a)
        PROVE  Actionable(m)'
    BY <1>7, <2>2 DEF AutoRespond
  <2>3. ASSUME NEW n \in Messages, NEW s, UpdateMessage(n, s) PROVE Actionable(m)'
    BY <1>7, <2>3 DEF UpdateMessage
  <2>4. ASSUME NEW n \in Messages, Reject(n) PROVE Actionable(m)'
    BY <1>7, <2>4 DEF Reject
  <2> QED
    BY <1>8, <2>1, <2>2, <2>3, <2>4 DEF Pool
<1>9. ASSUME NEW h \in Handlers, Start(h) PROVE Actionable(m)'
  <2>1. ASSUME NEW e \in FailureIds, Replay(h, e) PROVE Actionable(m)'
    BY <1>5, <1>6, <2>1 DEF Replay
  <2>2. ASSUME UNCHANGED <<inbox, dlq>> PROVE Actionable(m)'
    BY <1>3, <2>2
  <2> QED
    BY <1>9, <2>1, <2>2 DEF Start, Approve, ReplayBulk, ReplayPending
<1>10. ASSUME NEW h \in Handlers, op[h].pc = "calling", NEW r, Sound(r), Publish(h, r),
              UNCHANGED inbox
       PROVE  Actionable(m)'
  <2>1. \A e \in DOMAIN dlq : dlq'[e].status = dlq[e].status
    BY <1>0, <1>10, PublishFrame
  <2> QED
    BY <1>2, <1>3, <1>10, <2>1
<1>11. ASSUME NEW h \in Handlers, op[h].pc \in {"ok", "closed"}, MarkSent(h),
              \A e \in DOMAIN dlq : dlq[e].msg # op[h].msg => dlq'[e] = dlq[e]
       PROVE  Actionable(m)'
  <2>1. op[h].msg \in Messages
    BY <1>0, <1>11, Sender
  <2>2. CASE m = op[h].msg
    <3>1. inbox'[m].delivery = "sent"
      BY <1>0, <1>11, <2>1, <2>2 DEF MarkSent, TypeOK, Message
    <3> QED
      BY <3>1 DEF Actionable
  <2>3. CASE m # op[h].msg
    <3>1. inbox'[m] = inbox[m]
      BY <1>0, <1>11, <2>1, <2>3 DEF MarkSent, TypeOK
    <3>2. inbox[m].delivery = "failed" => dlq'[f] = dlq[f]
      BY <1>2, <1>11, <2>3
    <3> QED
      BY <1>3, <3>1, <3>2
  <2> QED
    BY <2>2, <2>3
<1>12. ASSUME NEW h \in Handlers, op[h].kind \in {"replay", "bulk"}, op[h].pc \in {"ok", "bad"}
       PROVE  op[h].fid \in DOMAIN dlq /\ dlq[op[h].fid].msg = op[h].msg
  BY <1>0, <1>12 DEF Engaged, OnFailure
<1>13. ASSUME NEW h \in Handlers, Proceed(h) PROVE Actionable(m)'
  <2>1. CASE NextItem(h)
    BY <1>3, <1>5, <1>6, <2>1 DEF NextItem
  <2>2. CASE Answered(h)
    BY <1>0, <1>10, <2>2, AnsweredSound DEF Answered
  <2>3. CASE AnswerLost(h)
    BY <1>0, <1>10, <2>3, FailedSound DEF AnswerLost
  <2>4. CASE Refused(h)
    BY <1>3, <2>4 DEF Refused
  <2>5. CASE ApproveSent(h)
    BY <1>11, <2>5 DEF ApproveSent
  <2>6. CASE ApproveFailed(h)
    <3>1. UNCHANGED inbox /\ \A e \in DOMAIN dlq : dlq'[e].status = dlq[e].status
      BY <1>0, <2>6, Filed DEF ApproveFailed
    <3> QED
      BY <1>2, <1>3, <3>1
  <2>7. CASE ReplaySent(h)
    <3>1. op[h] \in Request /\ op'[h] = [op[h] EXCEPT !.pc = "closed"]
      BY <1>0, <2>7 DEF ReplaySent, TypeOK
    <3>2. op'[h].pc = "closed" /\ op'[h].msg = op[h].msg
      BY <3>1 DEF Request
    <3>3. dlq[op[h].fid].msg # m
      BY <1>12, <2>7, <3>2 DEF ReplaySent
    <3>4. /\ UNCHANGED inbox
          /\ \A e \in DOMAIN dlq : e # op[h].fid => dlq'[e] = dlq[e]
      BY <1>0, <1>12, <2>7, SettleFrame DEF ReplaySent, Settle, FailureStatus, Resolved
    <3> QED
      BY <1>2, <1>3, <3>3, <3>4
  <2>8. CASE ReplayFailed(h)
    BY <1>4, <1>12, <2>8 DEF ReplayFailed, Reopen, FailureStatus, Resolved
  <2>9. CASE MessageWritten(h)
    <3>1. CASE op[h].pc = "closed" /\ MarkSent(h)
      BY <1>11, <2>9, <3>1 DEF MessageWritten
    <3>2. CASE op[h].pc = "filed" /\ MarkFailed(h)
      <4>1. op[h].msg # m /\ op[h].msg \in Messages
        BY <1>0, <3>2, Sender
      <4>2. inbox'[m] = inbox[m] /\ UNCHANGED dlq
        BY <1>0, <2>9, <3>2, <4>1 DEF MessageWritten, MarkFailed, TypeOK
      <4> QED
        BY <1>3, <4>2
    <3> QED
      BY <2>9, <3>1, <3>2 DEF MessageWritten
  <2>10. CASE ItemSent(h)
    <3>1. \A e \in DOMAIN dlq : e # op[h].fid => dlq'[e] = dlq[e]
      BY <1>0, <1>12, <2>10, SettleFrame DEF ItemSent, Settle, FailureStatus, Resolved
    <3> QED
      BY <1>11, <1>12, <2>10, <3>1 DEF ItemSent
  <2>11. CASE ItemFailed(h)
    <3>1. /\ op[h].fid \in DOMAIN dlq /\ dlq[op[h].fid].msg = op[h].msg
          /\ dlq'[op[h].fid].status = "pending_retry"
          /\ \A e \in DOMAIN dlq : e # op[h].fid => dlq'[e] = dlq[e]
      BY <1>0, <1>12, <2>11, SettleFrame DEF ItemFailed, Reopen, FailureStatus
    <3>2. op[h].msg \in Messages /\ inbox[op[h].msg] \in Message
      BY <1>0, <2>11, Sender DEF ItemFailed, TypeOK
    <3>3. CASE m = op[h].msg
      <4>1. inbox'[m].delivery = "failed" /\ inbox'[m].failure = op[h].fid
        BY <1>0, <2>11, <3>2, <3>3 DEF ItemFailed, MarkFailed, TypeOK, Message
      <4>2. dlq'[op[h].fid].msg = m
        BY <1>1, <3>1, <3>3 DEF SameFailures
      <4> QED
        BY <3>1, <4>1, <4>2 DEF Actionable, Resolved
    <3>4. CASE m # op[h].msg
      <4>1. inbox'[m] = inbox[m]
        BY <1>0, <2>11, <3>2, <3>4 DEF ItemFailed, MarkFailed, TypeOK
      <4>2. inbox[m].delivery = "failed" => dlq'[f] = dlq[f]
        BY <1>2, <3>1, <3>4
      <4> QED
        BY <1>3, <4>1, <4>2
    <3> QED
      BY <3>3, <3>4
  <2> QED
    BY <1>13, <2>1, <2>2, <2>3, <2>4, <2>5, <2>6, <2>7, <2>8, <2>9, <2>10, <2>11 DEF Proceed
<1>14. ASSUME NEW H, Perish(H) PROVE Actionable(m)'
  BY <1>3, <1>14 DEF Perish
<1> QED
  BY <1>8, <1>9, <1>13, <1>14 DEF Next, Cancel, Crash

\* A message that shows a failure shows one that an operator can act on, except inside
\* the two critical sections of one request.
THEOREM FailuresAreActionable == Spec => OnlyBetweenSections
<1>1. InboxAssumption /\ IInv /\ [Next]_vars =>
        [\A m \in Messages :
           Actionable(m) /\ ~Actionable(m)' =>
             \E h \in Handlers : \/ op[h].pc = "filed" /\ op[h].msg = m
                                 \/ op'[h].pc = "closed" /\ op'[h].msg = m]_vars
  BY ActionableSteps
<1> QED
  BY <1>1, InboxInvariant, InboxAssumption, PTL DEF Spec, OnlyBetweenSections

=============================================================================

--------------------------- MODULE ContentApproval ---------------------------
(***************************************************************************)
(* Sign-off of scheduled posts: a request for a post is approved when its  *)
(* levels have signed it off, rejected by any of them, or expires.         *)
(*                                                                         *)
(* The endpoints are plain functions that FastAPI runs on a thread pool,   *)
(* each in one READ COMMITTED transaction that reads a row without a lock  *)
(* and later updates, by primary key, only the columns it changed.  So a   *)
(* call is three steps (it takes the time, it reads, it writes and         *)
(* commits), and calls interleave between them.  A refusal raises, which   *)
(* rolls back what the call had changed.                                   *)
(*                                                                         *)
(* Left out: comments, previews, audit entries, rate limits, and tenants   *)
(* (rows of two tenants never meet: every query is scoped to one).         *)
(***************************************************************************)

CONSTANTS
  Requests,  \* approval request ids
  Posts,     \* scheduled posts
  Levels,    \* reviewer roles
  Callers,   \* people whose calls may overlap, one call each at a time
  RolesOf,   \* the levels each caller may sign off (an admin: all of them)
  Admins,    \* callers with the admin role
  Default,   \* DEFAULT_LEVELS
  None       \* no post, no request, no role

ASSUME ApprovalAssumption ==
  /\ RolesOf \in [Callers -> SUBSET Levels]
  /\ Admins \subseteq Callers
  /\ Default \in (SUBSET Levels) \ {{}}
  /\ None \notin Requests \cup Posts \cup Levels

VARIABLES
  config,    \* the chain given to new requests: its levels, and all or any of them
  post,      \* the post of each request
  chain,     \* the configuration copied into each request
  status,    \* its status
  received,  \* the levels in approvals_received
  due,       \* requests whose expires_at has passed
  pc,        \* what each call is doing
  now,       \* the requests that were due when the call took the time
  stale,     \* pending rows it read as due, which it will mark expired
  target,    \* the request it decides, or the post it submits
  role,      \* the level it signs, or None to reject
  seen,      \* approvals_received as it read them
  signed,    \* history: who has been told a sign-off of each request was recorded
  vetoed,    \* history: requests whose rejection was answered with success
  overlapped \* history: requests a call has read between another's read and its commit

row == <<post, chain, status, received>>
call == <<now, stale, target, role, seen>>
vars == <<config, post, chain, status, received, due, pc, now, stale, target, role, seen,
          signed, vetoed, overlapped>>

Chain == [levels : (SUBSET Levels) \ {{}}, mode : {"all", "any"}]

TypeOK ==
  /\ config \in Chain
  /\ post \in [Requests -> Posts \cup {None}]
  /\ chain \in [Requests -> Chain]
  /\ status \in [Requests -> {"none", "pending", "approved", "rejected", "expired"}]
  /\ received \in [Requests -> SUBSET Levels]
  /\ due \subseteq Requests
  /\ pc \in [Callers -> {"idle", "arrived", "submit", "list", "approve", "reject"}]
  /\ now \in [Callers -> SUBSET Requests]
  /\ stale \in [Callers -> SUBSET Requests]
  /\ target \in [Callers -> Requests \cup Posts \cup {None}]
  /\ role \in [Callers -> Levels \cup {None}]
  /\ seen \in [Callers -> SUBSET Levels]
  /\ signed \in [Requests -> SUBSET (Callers \X Levels)]
  /\ vetoed \subseteq Requests /\ overlapped \subseteq Requests
  /\ \A c \in Callers :
       /\ pc[c] = "submit" => target[c] \in Posts
       /\ pc[c] \in {"approve", "reject"} => target[c] \in Requests /\ role[c] \in Levels

DefaultChain == [levels |-> Default, mode |-> "all"]

Init ==
  /\ config = DefaultChain
  /\ post = [r \in Requests |-> None]
  /\ chain = [r \in Requests |-> DefaultChain]
  /\ status = [r \in Requests |-> "none"]
  /\ received = [r \in Requests |-> {}]
  /\ due = {}
  /\ pc = [c \in Callers |-> "idle"]
  /\ now = [c \in Callers |-> {}]
  /\ stale = [c \in Callers |-> {}]
  /\ target = [c \in Callers |-> None]
  /\ role = [c \in Callers |-> None]
  /\ seen = [c \in Callers |-> {}]
  /\ signed = [r \in Requests |-> {}]
  /\ vetoed = {} /\ overlapped = {}

-----------------------------------------------------------------------------
\* expires_at passes.
FallDue(r) ==
  /\ status[r] # "none" /\ r \notin due
  /\ due' = due \cup {r}
  /\ UNCHANGED <<config, row, pc, call, signed, vetoed, overlapped>>

\* Every handler takes the time before it opens its session.
Arrive(c) ==
  /\ pc[c] = "idle"
  /\ pc' = [pc EXCEPT ![c] = "arrived"]
  /\ now' = [now EXCEPT ![c] = due]
  /\ UNCHANGED <<config, row, due, stale, target, role, seen, signed, vetoed, overlapped>>

Goes(c, from, to) == pc[c] = from /\ pc' = [pc EXCEPT ![c] = to]

\* The call is over: what it had read is gone.
Done(c) ==
  /\ pc' = [pc EXCEPT ![c] = "idle"]
  /\ now' = [now EXCEPT ![c] = {}]
  /\ stale' = [stale EXCEPT ![c] = {}]
  /\ target' = [target EXCEPT ![c] = None]
  /\ role' = [role EXCEPT ![c] = None]
  /\ seen' = [seen EXCEPT ![c] = {}]

\* A call that only reads, or that one of its checks refuses: whatever
\* _expire_if_due had changed in its session is rolled back.
Leave(c) ==
  /\ pc[c] = "arrived"
  /\ Done(c)
  /\ UNCHANGED <<config, row, due, signed, vetoed, overlapped>>

\* Mutant of Configure: a chain without levels is accepted.
ConfigureEmpty(c) ==
  /\ pc[c] = "arrived" /\ c \in Admins
  /\ config' \in [levels : SUBSET Levels, mode : {"all", "any"}]
  /\ Done(c)
  /\ UNCHANGED <<row, due, signed, vetoed, overlapped>>

\* An admin replaces the chain.  Two updates that overlap each write the columns
\* they changed, so any combination of levels and mode may come out.
Configure(c) ==
  /\ pc[c] = "arrived" /\ c \in Admins
  /\ config' \in Chain
  /\ Done(c)
  /\ UNCHANGED <<row, due, signed, vetoed, overlapped>>

\* Calls that have read a request they will write.
InHand(r) == {c \in Callers : r \in stale[c] \/ (pc[c] \in {"approve", "reject"} /\ target[c] = r)}

\* Requests R are read, to be written: those in another call's hands are overlapped.
Reads(R) == overlapped' = overlapped \cup {r \in R : InHand(r) # {}}

PendingFor(p) == {r \in Requests : post[r] = p /\ status[r] = "pending"}

\* The bound on submissions: ids not yet used.
Fresh == {r \in Requests : status[r] = "none"}

\* submit_for_approval reads the pending requests of the post: one that is not
\* due refuses the call, one that is due will be marked expired.
SubmitRead(c, p) ==
  /\ Fresh # {} /\ Goes(c, "arrived", "submit")
  /\ PendingFor(p) \subseteq now[c]
  /\ stale' = [stale EXCEPT ![c] = PendingFor(p)]
  /\ target' = [target EXCEPT ![c] = p]
  /\ Reads(PendingFor(p))
  /\ UNCHANGED <<config, row, due, now, role, seen, signed, vetoed>>

\* Mutant of Unopposed: there is no unique index.
UnopposedAlways(c) == TRUE

\* The partial unique index admits the new row: once the stale ones are expired, no
\* other request of the post is pending.
Unopposed(c) == PendingFor(target[c]) \subseteq stale[c]

\* Its commit: the due row expires and a new request starts, unless the
\* index refuses it (or the ids have run out), which rolls both back.
SubmitWrite(c) ==
  /\ pc[c] = "submit"
  /\ IF Unopposed(c) /\ Fresh # {}
     THEN \E new \in Fresh :
            /\ status' = [r \in Requests |-> IF r = new THEN "pending"
                                             ELSE IF r \in stale[c] THEN "expired" ELSE status[r]]
            /\ post' = [post EXCEPT ![new] = target[c]]
            /\ chain' = [chain EXCEPT ![new] = config]
            /\ UNCHANGED received
     ELSE UNCHANGED row
  /\ Done(c)
  /\ UNCHANGED <<config, due, signed, vetoed, overlapped>>

\* list_approval_requests reads the pending rows that are due ...
ListRead(c) ==
  /\ Goes(c, "arrived", "list")
  /\ stale' = [stale EXCEPT ![c] = {r \in now[c] : status[r] = "pending"}]
  /\ stale'[c] # {} /\ Reads(stale'[c])
  /\ UNCHANGED <<config, row, due, now, target, role, seen, signed, vetoed>>

\* ... and commits them as expired.
ListWrite(c) ==
  /\ pc[c] = "list"
  /\ status' = [r \in Requests |-> IF r \in stale[c] THEN "expired" ELSE status[r]]
  /\ Done(c)
  /\ UNCHANGED <<config, post, chain, received, due, signed, vetoed, overlapped>>

\* Mutant of DecideRead: the request need not be pending.
DecideReadSettled(c, r, level, decision) ==
  /\ Goes(c, "arrived", decision)
  /\ status[r] # "none" /\ r \notin now[c] /\ level \in chain[r].levels \cap RolesOf[c]
  /\ target' = [target EXCEPT ![c] = r] /\ role' = [role EXCEPT ![c] = level]
  /\ seen' = [seen EXCEPT ![c] = received[r]] /\ Reads({r})
  /\ UNCHANGED <<config, row, due, now, stale, signed, vetoed>>

\* decide_approval reads the request and runs its checks: it is pending and not
\* due, the level is one of its levels, and the caller holds that role.
DecideRead(c, r, level, decision) ==
  /\ Goes(c, "arrived", decision)
  /\ status[r] = "pending" /\ r \notin now[c]
  /\ level \in chain[r].levels /\ level \in RolesOf[c]
  /\ target' = [target EXCEPT ![c] = r]
  /\ role' = [role EXCEPT ![c] = level]
  /\ seen' = [seen EXCEPT ![c] = received[r]]
  /\ Reads({r})
  /\ UNCHANGED <<config, row, due, now, stale, signed, vetoed>>

\* Mutant of Complete: any level is enough.
CompleteAny(r, approvals) == approvals # {}

\* Enough levels have signed, counting from what the call read.
Complete(r, approvals) == chain[r].mode = "any" \/ chain[r].levels \subseteq approvals

\* Mutant of Approve: the whole row is written back as it was read.
ApproveWholeRow(c) ==
  LET r == target[c]
      approvals == seen[c] \cup {role[c]}
  IN /\ pc[c] = "approve"
     /\ received' = [received EXCEPT ![r] = approvals]
     /\ status' = [status EXCEPT ![r] = IF Complete(r, approvals) THEN "approved" ELSE "pending"]
     /\ signed' = [signed EXCEPT ![r] = @ \cup {<<c, role[c]>>}]
     /\ Done(c)
     /\ UNCHANGED <<config, post, chain, due, vetoed, overlapped>>

\* A sign-off commits: approvals_received is replaced when the level is new in
\* it, and the status is written only when it changes.
Approve(c) ==
  LET r == target[c]
      approvals == seen[c] \cup {role[c]}
  IN /\ pc[c] = "approve"
     /\ received' = IF role[c] \in seen[c] THEN received
                    ELSE [received EXCEPT ![r] = approvals]
     /\ status' = IF Complete(r, approvals) THEN [status EXCEPT ![r] = "approved"] ELSE status
     /\ signed' = [signed EXCEPT ![r] = @ \cup {<<c, role[c]>>}]
     /\ Done(c)
     /\ UNCHANGED <<config, post, chain, due, vetoed, overlapped>>

RejectRequest(c) ==
  /\ pc[c] = "reject"
  /\ status' = [status EXCEPT ![target[c]] = "rejected"]
  /\ vetoed' = vetoed \cup {target[c]}
  /\ Done(c)
  /\ UNCHANGED <<config, post, chain, received, due, signed, overlapped>>

Next ==
  \/ \E r \in Requests : FallDue(r)
  \/ \E c \in Callers :
       \/ Arrive(c) \/ Leave(c) \/ Configure(c)
       \/ (\E p \in Posts : SubmitRead(c, p)) \/ SubmitWrite(c)
       \/ ListRead(c) \/ ListWrite(c)
       \/ \E r \in Requests, level \in Levels, d \in {"approve", "reject"} :
            DecideRead(c, r, level, d)
       \/ Approve(c) \/ RejectRequest(c)

Spec == Init /\ [][Next]_vars

-----------------------------------------------------------------------------
(* Properties.                                                             *)

SignedLevels(r) == {level \in Levels : \E c \in Callers : <<c, level>> \in signed[r]}

SignedOff(r) == IF chain[r].mode = "any" THEN SignedLevels(r) # {}
                                       ELSE chain[r].levels \subseteq SignedLevels(r)

\* Nothing is approved that the levels have not signed: whatever sign-offs are
\* lost, every level that counted was signed by somebody who holds its role.
ApprovedWasSigned ==
  \A r \in Requests :
    /\ status[r] = "approved" => SignedOff(r)
    /\ \A s \in signed[r] : s[2] \in RolesOf[s[1]] \cap chain[r].levels

\* Why: what is recorded, and what a call has read or is about to write, was
\* signed by those who may.
RecordedWasSigned == \A r \in Requests : received[r] \subseteq SignedLevels(r)
Authorised(c) ==
  /\ pc[c] \in {"approve", "reject"} =>
       /\ status[target[c]] # "none"
       /\ role[c] \in chain[target[c]].levels \cap RolesOf[c]
       /\ seen[c] \subseteq SignedLevels(target[c])
  /\ \A r \in stale[c] : status[r] # "none"
UnusedIsEmpty ==
  \A r \in Requests : status[r] = "none" => signed[r] = {} /\ received[r] = {}
SignOffs == ApprovedWasSigned /\ RecordedWasSigned /\ UnusedIsEmpty
            /\ \A c \in Callers : Authorised(c)

\* Two submissions of one post, in any order with expiries and decisions, never
\* leave it with two pending requests.
OnePendingPerPost ==
  \A r, s \in Requests : r # s /\ status[r] = "pending" /\ status[s] = "pending"
                           => post[r] # post[s]

\* A call that read a pending row never turns a settled request back to pending:
\* it writes only the columns it changed.
NeverReopened ==
  [][\A r \in Requests : status[r] \notin {"none", "pending"} => status'[r] # "pending"]_status

\* Calls on a request that do not overlap lose nothing: as long as no call has read it
\* between another's read and its commit, its row holds every sign-off and every rejection
\* that was answered with success, and it is approved as soon as enough levels have signed.
TellsAll(r) ==
  /\ received[r] = SignedLevels(r)
  /\ status[r] = "rejected" <=> r \in vetoed
  /\ status[r] = "approved" <=> SignedOff(r)
OnlyOverlapsLose == \A r \in Requests \ overlapped : TellsAll(r)

\* Why: one call at most has such a request in hand, and what it read is still so.
HeldAsRead(r) ==
  /\ \A c, d \in InHand(r) : c = d
  /\ InHand(r) # {} => status[r] = "pending"
  /\ \A c \in Callers : pc[c] \in {"approve", "reject"} /\ target[c] = r => seen[c] = received[r]
InTurn == OnlyOverlapsLose /\ \A r \in Requests \ overlapped : HeldAsRead(r)

\* Why nothing expires early: a call marks what was due when it took the time.
StaleIsDue == \A c \in Callers : stale[c] \subseteq now[c] /\ now[c] \subseteq due

\* The endpoints, however their calls overlap, implement what approval promises: one
\* pending request per post, decided only by those who hold a role of its chain, approved
\* with enough sign-offs, expired only when due, and never pending again.
Promise == INSTANCE Approvals
ImplementsApprovals == Promise!Spec

\* "Rejection immediately marks the request as rejected": and it stays rejected.
RejectionStands == \A r \in vetoed : status[r] = "rejected"

=============================================================================

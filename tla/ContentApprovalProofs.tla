------------------------ MODULE ContentApprovalProofs ------------------------
(***************************************************************************)
(* Proofs about ContentApproval for every set of requests, posts, levels   *)
(* and callers, whatever roles they hold.                                  *)
(***************************************************************************)
EXTENDS ContentApproval, TLAPS

\* Every step keeps the rows and the calls in their types.
THEOREM ApprovalTypeCorrect == Spec => []TypeOK
<1>1. Init => TypeOK
  BY ApprovalAssumption DEF Init, TypeOK, Chain, DefaultChain
<1>2. TypeOK /\ [Next]_vars => TypeOK'
  <2> SUFFICES ASSUME TypeOK, [Next]_vars PROVE TypeOK'
    OBVIOUS
  <2> USE ApprovalAssumption DEF TypeOK, row, call, Goes, Done
  <2>1. ASSUME NEW r \in Requests, FallDue(r) PROVE TypeOK'
    BY <2>1 DEF FallDue
  <2>2. ASSUME NEW c \in Callers, Arrive(c) PROVE TypeOK'
    BY <2>2 DEF Arrive
  <2>3. ASSUME NEW c \in Callers, Leave(c) \/ Configure(c) PROVE TypeOK'
    BY <2>3 DEF Leave, Configure
  <2>4. ASSUME NEW c \in Callers, NEW p \in Posts, SubmitRead(c, p) PROVE TypeOK'
    <3>1. PendingFor(p) \in SUBSET Requests /\ overlapped' \in SUBSET Requests
      BY <2>4 DEF SubmitRead, PendingFor, Reads
    <3>2. QED
      BY <2>4, <3>1 DEF SubmitRead
  <2>5. ASSUME NEW c \in Callers, SubmitWrite(c) PROVE TypeOK'
    <3>1. CASE UNCHANGED row
      BY <2>5, <3>1 DEF SubmitWrite
    <3>2. ASSUME NEW new \in Fresh,
                 status' = [r \in Requests |-> IF r = new THEN "pending"
                              ELSE IF r \in stale[c] THEN "expired" ELSE status[r]],
                 post' = [post EXCEPT ![new] = target[c]],
                 chain' = [chain EXCEPT ![new] = config],
                 UNCHANGED received
          PROVE  TypeOK'
      <4>1. status' \in [Requests -> {"none", "pending", "approved", "rejected", "expired"}]
        BY <3>2, Zenon
      <4>2. target[c] \in Posts
        BY <2>5 DEF SubmitWrite
      <4>3. post' \in [Requests -> Posts \cup {None}] /\ chain' \in [Requests -> Chain]
        BY <3>2, <4>2 DEF Fresh
      <4>4. Done(c) /\ UNCHANGED <<config, due, signed, vetoed, overlapped>>
        BY <2>5 DEF SubmitWrite
      <4>5. QED
        BY <3>2, <4>1, <4>3, <4>4
    <3>3. QED
      BY <2>5, <3>1, <3>2 DEF SubmitWrite
  <2>6. ASSUME NEW c \in Callers, ListRead(c) \/ ListWrite(c) PROVE TypeOK'
    <3>1. CASE ListRead(c)
      <4>1. stale' \in [Callers -> SUBSET Requests]
        BY <3>1 DEF ListRead
      <4>2. overlapped' \in SUBSET Requests
        BY <3>1, <4>1 DEF ListRead, Reads
      <4>3. QED
        BY <3>1, <4>1, <4>2 DEF ListRead
    <3>2. CASE ListWrite(c)
      BY <3>2 DEF ListWrite
    <3>3. QED
      BY <2>6, <3>1, <3>2
  <2>7. ASSUME NEW c \in Callers, NEW r \in Requests, NEW level \in Levels,
               NEW d \in {"approve", "reject"}, DecideRead(c, r, level, d)
        PROVE  TypeOK'
    <3>1. overlapped' \in SUBSET Requests
      BY <2>7 DEF DecideRead, Reads
    <3>2. QED
      BY <2>7, <3>1 DEF DecideRead
  <2>8. ASSUME NEW c \in Callers, Approve(c) \/ RejectRequest(c) PROVE TypeOK'
    <3>1. CASE Approve(c)
      <4>1. /\ status' \in [Requests -> {"none", "pending", "approved", "rejected", "expired"}]
            /\ received' \in [Requests -> SUBSET Levels]
            /\ signed' \in [Requests -> SUBSET (Callers \X Levels)]
        BY <3>1 DEF Approve
      <4>2. QED
        BY <3>1, <4>1 DEF Approve
    <3>2. CASE RejectRequest(c)
      BY <3>2 DEF RejectRequest
    <3>3. QED
      BY <2>8, <3>1, <3>2
  <2>9. CASE UNCHANGED vars
    BY <2>9 DEF vars
  <2>10. QED
    BY <2>1, <2>2, <2>3, <2>4, <2>5, <2>6, <2>7, <2>8, <2>9 DEF Next
<1>3. QED
  BY <1>1, <1>2, PTL DEF Spec

\* What every step does to the rows: sign-offs are kept, and a request that exists
\* goes on existing under the chain it was given.
Grows ==
  \A r \in Requests : /\ signed[r] \subseteq signed'[r]
                      /\ status[r] # "none" => status'[r] # "none" /\ chain'[r] = chain[r]

LEMMA LevelsGrow ==
  ASSUME Grows, NEW r \in Requests
  PROVE  SignedLevels(r) \subseteq SignedLevels(r)'
BY DEF Grows, SignedLevels

\* A call that takes no step keeps what it relies on.
LEMMA BystanderKeeps ==
  ASSUME TypeOK, Grows, NEW c \in Callers, Authorised(c),
         pc'[c] = pc[c], target'[c] = target[c], role'[c] = role[c],
         seen'[c] = seen[c], stale'[c] = stale[c]
  PROVE  Authorised(c)'
<1>1. \A r \in stale[c] : status'[r] # "none"
  BY DEF TypeOK, Grows, Authorised
<1>2. ASSUME pc[c] \in {"approve", "reject"}
      PROVE  /\ status'[target[c]] # "none"
             /\ role[c] \in chain'[target[c]].levels \cap RolesOf[c]
             /\ seen[c] \subseteq SignedLevels(target[c])'
  <2>1. target[c] \in Requests
    BY <1>2 DEF TypeOK
  <2>2. QED
    BY <1>2, <2>1, LevelsGrow DEF Authorised, Grows
<1>3. QED
  BY <1>1, <1>2 DEF Authorised, SignedLevels

\* A call that is over relies on nothing.
LEMMA DoneIsAuthorised ==
  ASSUME TypeOK, NEW c \in Callers, Done(c)
  PROVE  Authorised(c)'
BY DEF TypeOK, Done, Authorised

\* Every approval rests on sign-offs by those who hold the roles, in any interleaving
\* of calls: what is read early is still true late, because sign-offs are never undone.
THEOREM SignOffsCorrect == Spec => []SignOffs
<1>1. Init => SignOffs
  BY DEF Init, SignOffs, ApprovedWasSigned, RecordedWasSigned, Authorised, UnusedIsEmpty
<1> DEFINE Rows == ApprovedWasSigned /\ RecordedWasSigned /\ UnusedIsEmpty
<1>2. TypeOK /\ SignOffs /\ [Next]_vars => SignOffs'
  <2> SUFFICES ASSUME TypeOK, SignOffs, [Next]_vars PROVE SignOffs'
    OBVIOUS
  <2>0. Rows /\ \A c \in Callers : Authorised(c)
    BY DEF SignOffs
  <2>1. ASSUME UNCHANGED <<row, signed>> PROVE Rows' /\ Grows
    BY <2>0, <2>1 DEF row, Grows, ApprovedWasSigned, SignedOff, SignedLevels, RecordedWasSigned,
                      UnusedIsEmpty
  <2>2. ASSUME NEW c \in Callers, Rows', Grows, Authorised(c)',
               pc' = [pc EXCEPT ![c] = pc'[c]], target' = [target EXCEPT ![c] = target'[c]],
               role' = [role EXCEPT ![c] = role'[c]], seen' = [seen EXCEPT ![c] = seen'[c]],
               stale' = [stale EXCEPT ![c] = stale'[c]]
        PROVE  SignOffs'
    <3>1. ASSUME NEW d \in Callers, d # c PROVE Authorised(d)'
      BY <2>0, <2>2, <3>1, BystanderKeeps DEF TypeOK
    <3>2. QED
      BY <2>2, <3>1 DEF SignOffs
  <2>3. ASSUME NEW c \in Callers, Rows', Grows, Done(c) PROVE SignOffs'
    BY <2>2, <2>3, DoneIsAuthorised DEF Done, TypeOK
  <2>4. ASSUME UNCHANGED <<row, signed, pc, target, role, seen, stale>> PROVE SignOffs'
    BY <2>0, <2>1, <2>4, BystanderKeeps DEF SignOffs
  <2>5. ASSUME NEW c \in Callers, Arrive(c) PROVE SignOffs'
    <3>1. Authorised(c)'
      BY <2>0, <2>5 DEF Arrive, Authorised, TypeOK, row
    <3>2. QED
      BY <2>1, <2>2, <2>5, <3>1 DEF Arrive, TypeOK
  <2>6. ASSUME NEW c \in Callers, NEW p \in Posts, SubmitRead(c, p) PROVE SignOffs'
    <3>1. Authorised(c)'
      BY <2>6 DEF SubmitRead, Goes, PendingFor, Authorised, TypeOK, row
    <3>2. QED
      BY <2>1, <2>2, <2>6, <3>1 DEF SubmitRead, Goes, TypeOK
  <2>7. ASSUME NEW c \in Callers, SubmitWrite(c) PROVE SignOffs'
    <3>1. Done(c) /\ UNCHANGED signed
      BY <2>7 DEF SubmitWrite
    <3>2. CASE UNCHANGED row
      BY <2>1, <2>3, <3>1, <3>2
    <3>3. ASSUME NEW new \in Fresh,
                 status' = [r \in Requests |-> IF r = new THEN "pending"
                              ELSE IF r \in stale[c] THEN "expired" ELSE status[r]],
                 chain' = [chain EXCEPT ![new] = config],
                 UNCHANGED received
          PROVE  SignOffs'
      <4>1. Grows
        BY <3>1, <3>3 DEF Grows, Fresh, TypeOK
      <4>2. new \in Requests /\ signed[new] = {} /\ received[new] = {}
        BY <2>0, <3>3 DEF Fresh, UnusedIsEmpty
      <4>3. UnusedIsEmpty' /\ RecordedWasSigned'
        BY <2>0, <3>1, <3>3 DEF UnusedIsEmpty, RecordedWasSigned, SignedLevels, Fresh, TypeOK
      <4>4. ASSUME NEW r \in Requests, r # new
            PROVE  chain'[r] = chain[r] /\ signed'[r] = signed[r]
                   /\ (status'[r] = "approved" => status[r] = "approved")
        BY <3>1, <3>3, <4>4 DEF Fresh, TypeOK
      <4>5. status'[new] = "pending" /\ signed'[new] = {}
        BY <3>1, <3>3, <4>2
      <4>6. ApprovedWasSigned'
        BY <2>0, <4>4, <4>5 DEF ApprovedWasSigned, SignedOff, SignedLevels
      <4>7. QED
        BY <2>3, <3>1, <4>1, <4>3, <4>6
    <3>4. QED
      BY <2>7, <3>2, <3>3 DEF SubmitWrite
  <2>8. ASSUME NEW c \in Callers, ListRead(c) PROVE SignOffs'
    <3>1. Authorised(c)'
      BY <2>8 DEF ListRead, Goes, Authorised, TypeOK, row
    <3>2. QED
      <4>1. pc' = [pc EXCEPT ![c] = pc'[c]] /\ stale' = [stale EXCEPT ![c] = stale'[c]]
        BY <2>8 DEF ListRead, Goes, TypeOK
      <4>2. /\ target' = [target EXCEPT ![c] = target'[c]]
            /\ role' = [role EXCEPT ![c] = role'[c]] /\ seen' = [seen EXCEPT ![c] = seen'[c]]
        BY <2>8 DEF ListRead, TypeOK
      <4>3. Rows' /\ Grows
        BY <2>1, <2>8 DEF ListRead
      <4>4. QED
        BY <2>2, <3>1, <4>1, <4>2, <4>3
  <2>9. ASSUME NEW c \in Callers, ListWrite(c) PROVE SignOffs'
    <3>1. \A r \in Requests : /\ status'[r] = "approved" => status[r] = "approved"
                              /\ status'[r] = "none" <=> status[r] = "none"
      BY <2>0, <2>9 DEF ListWrite, TypeOK, Authorised
    <3>2. Grows /\ UNCHANGED <<chain, received, signed>>
      BY <2>9, <3>1 DEF ListWrite, Grows
    <3>3. \A r \in Requests : /\ SignedLevels(r)' = SignedLevels(r)
                              /\ SignedOff(r)' <=> SignedOff(r)
      BY <3>2 DEF SignedOff, SignedLevels
    <3>4. Rows'
      BY <2>0, <3>1, <3>2, <3>3 DEF ApprovedWasSigned, RecordedWasSigned, UnusedIsEmpty
    <3>5. QED
      BY <2>3, <2>9, <3>2, <3>4 DEF ListWrite
  <2>10. ASSUME NEW c \in Callers, NEW r \in Requests, NEW level \in Levels,
                NEW d \in {"approve", "reject"}, DecideRead(c, r, level, d)
         PROVE  SignOffs'
    <3>1. received[r] \subseteq SignedLevels(r)
      BY <2>0 DEF RecordedWasSigned
    <3>2. target'[c] = r /\ role'[c] = level /\ seen'[c] = received[r] /\ stale'[c] = stale[c]
      BY <2>10 DEF DecideRead, TypeOK
    <3>3. Authorised(c)'
      BY <2>0, <2>10, <3>1, <3>2 DEF DecideRead, Authorised, SignedLevels, row
    <3>4. QED
      BY <2>1, <2>2, <2>10, <3>3 DEF DecideRead, Goes, TypeOK
  <2>11. ASSUME NEW c \in Callers, Approve(c) PROVE SignOffs'
    <3>0. PICK r \in Requests, approvals \in SUBSET Levels :
            r = target[c] /\ approvals = seen[c] \cup {role[c]}
      BY <2>11 DEF Approve, TypeOK
    <3>1. /\ role[c] \in Levels /\ status[r] # "none"
          /\ role[c] \in chain[r].levels \cap RolesOf[c] /\ seen[c] \subseteq SignedLevels(r)
      BY <2>0, <2>11, <3>0 DEF Approve, TypeOK, Authorised
    <3>2. /\ signed' = [signed EXCEPT ![r] = @ \cup {<<c, role[c]>>}]
          /\ UNCHANGED chain /\ Done(c)
      BY <2>11, <3>0 DEF Approve
    <3>3. \A q \in Requests : q # r => /\ status'[q] = status[q] /\ received'[q] = received[q]
                                       /\ signed'[q] = signed[q]
      BY <2>11, <3>0 DEF Approve, TypeOK
    <3>4. /\ status'[r] \in {status[r], "approved"} /\ received'[r] \in {received[r], approvals}
          /\ signed'[r] = signed[r] \cup {<<c, role[c]>>}
      BY <2>11, <3>0, <3>1 DEF Approve, TypeOK
    <3>5. Grows
      BY <3>1, <3>2, <3>3, <3>4 DEF Grows
    <3>6. approvals \subseteq SignedLevels(r)' /\ SignedLevels(r) \subseteq SignedLevels(r)'
      <4>1. role[c] \in SignedLevels(r)'
        BY <3>1, <3>4 DEF SignedLevels
      <4>2. QED
        BY <3>0, <3>1, <3>5, <4>1, LevelsGrow
    <3>7. ASSUME status'[r] = "approved" PROVE SignedOff(r)'
      <4>1. CASE status[r] = "approved"
        BY <2>0, <3>1, <3>2, <3>6, <4>1 DEF ApprovedWasSigned, SignedOff
      <4>2. CASE Complete(r, approvals)
        BY <3>0, <3>2, <3>6, <4>2 DEF Complete, SignedOff
      <4>3. status' = IF Complete(r, approvals) THEN [status EXCEPT ![r] = "approved"]
                                                ELSE status
        BY <2>11, <3>0 DEF Approve
      <4>4. QED
        BY <3>7, <4>1, <4>2, <4>3
    <3>8. \A s \in signed'[r] : s[2] \in RolesOf[s[1]] \cap chain'[r].levels
      BY <2>0, <3>1, <3>2, <3>4 DEF ApprovedWasSigned
    <3>9. ApprovedWasSigned'
      BY <2>0, <3>2, <3>3, <3>7, <3>8 DEF ApprovedWasSigned, SignedOff, SignedLevels
    <3>10. RecordedWasSigned'
      <4>1. received'[r] \subseteq SignedLevels(r)'
        BY <2>0, <3>1, <3>4, <3>6 DEF RecordedWasSigned
      <4>2. ASSUME NEW q \in Requests, q # r PROVE received'[q] \subseteq SignedLevels(q)'
        BY <2>0, <3>3, <4>2 DEF RecordedWasSigned, SignedLevels
      <4>3. QED
        BY <4>1, <4>2 DEF RecordedWasSigned, SignedLevels
    <3>11. UnusedIsEmpty'
      BY <2>0, <3>1, <3>3, <3>4 DEF UnusedIsEmpty
    <3>12. QED
      BY <2>3, <3>2, <3>5, <3>9, <3>10, <3>11
  <2>12. ASSUME NEW c \in Callers, RejectRequest(c) PROVE SignOffs'
    <3>1. target[c] \in Requests /\ status[target[c]] # "none"
      BY <2>0, <2>12 DEF RejectRequest, TypeOK, Authorised
    <3>2. /\ \A r \in Requests : /\ status'[r] = "approved" => status[r] = "approved"
                                 /\ status'[r] = "none" <=> status[r] = "none"
          /\ UNCHANGED <<chain, received, signed>>
      BY <2>12, <3>1 DEF RejectRequest, TypeOK
    <3>3. Grows /\ Rows'
      BY <2>0, <3>2 DEF Grows, ApprovedWasSigned, SignedOff, SignedLevels, RecordedWasSigned,
                        UnusedIsEmpty
    <3>4. QED
      BY <2>3, <2>12, <3>3 DEF RejectRequest
  <2>13. QED
    BY <2>1, <2>3, <2>4, <2>5, <2>6, <2>7, <2>8, <2>9, <2>10, <2>11, <2>12
       DEF Next, FallDue, Leave, Configure, call, vars, row
<1>3. QED
  BY <1>1, <1>2, ApprovalTypeCorrect, PTL DEF Spec

\* Approved posts were signed off, by callers who held the roles.
THEOREM ApprovalsAreSigned == Spec => []ApprovedWasSigned
BY SignOffsCorrect, PTL DEF SignOffs

\* Only a submission makes a request pending, and it takes a fresh one whose post has
\* no other pending request.
LEMMA PendingComesFromFresh ==
  ASSUME TypeOK, [Next]_vars, NEW r \in Requests, status'[r] = "pending", status[r] # "pending"
  PROVE  /\ status[r] = "none"
         /\ \A s \in Requests : s # r /\ status'[s] = "pending" => post'[s] # post'[r]
         /\ \A s \in Requests : s # r => post'[s] = post[s] /\ (status'[s] = "pending" => status[s] = "pending")
<1>1. PICK c \in Callers : SubmitWrite(c)
  <2>1. ASSUME NEW c \in Callers, ListWrite(c) PROVE FALSE
    BY <2>1 DEF ListWrite, TypeOK
  <2>2. ASSUME NEW c \in Callers, Approve(c) \/ RejectRequest(c) PROVE FALSE
    BY <2>2 DEF Approve, RejectRequest, TypeOK
  <2>3. status' # status
    OBVIOUS
  <2>4. QED
    BY <2>1, <2>2, <2>3 DEF Next, vars, row, FallDue, Arrive, Leave, Configure, SubmitRead,
                            ListRead, DecideRead
<1>2. PICK new \in Fresh :
        /\ status' = [q \in Requests |-> IF q = new THEN "pending"
                        ELSE IF q \in stale[c] THEN "expired" ELSE status[q]]
        /\ post' = [post EXCEPT ![new] = target[c]]
        /\ PendingFor(target[c]) \subseteq stale[c]
  BY <1>1 DEF SubmitWrite, Unopposed, row
<1>3. r = new
  BY <1>2
<1>4. QED
  BY <1>2, <1>3 DEF Fresh, PendingFor, TypeOK

\* Posts keep their request: a row's post never changes once it is submitted.
LEMMA PostStands ==
  ASSUME TypeOK, [Next]_vars, NEW r \in Requests, status[r] # "none"
  PROVE  post'[r] = post[r]
<1>1. CASE UNCHANGED post
  BY <1>1
<1>2. ASSUME NEW c \in Callers, SubmitWrite(c) PROVE post'[r] = post[r]
  BY <1>2 DEF SubmitWrite, Fresh, row, TypeOK
<1>3. QED
  BY <1>1, <1>2 DEF Next, vars, row, call, FallDue, Arrive, Leave, Configure, SubmitRead, ListRead,
                    ListWrite, DecideRead, Approve, RejectRequest

\* A post never has two pending requests, however submissions overlap.
THEOREM PendingIsUnique == Spec => []OnePendingPerPost
<1>1. Init => OnePendingPerPost
  BY DEF Init, OnePendingPerPost
<1>2. TypeOK /\ OnePendingPerPost /\ [Next]_vars => OnePendingPerPost'
  <2> SUFFICES ASSUME TypeOK, OnePendingPerPost, [Next]_vars,
                      NEW r \in Requests, NEW s \in Requests, r # s,
                      status'[r] = "pending", status'[s] = "pending"
               PROVE  post'[r] # post'[s]
    BY DEF OnePendingPerPost
  <2>1. CASE status[r] # "pending" \/ status[s] # "pending"
    BY <2>1, PendingComesFromFresh
  <2>2. CASE status[r] = "pending" /\ status[s] = "pending"
    BY <2>2, PostStands DEF OnePendingPerPost
  <2>3. QED
    BY <2>1, <2>2
<1>3. QED
  BY <1>1, <1>2, ApprovalTypeCorrect, PTL DEF Spec

\* A settled request is never pending again: overlapping calls may disagree on how it
\* was settled, but none reopens it.
THEOREM SettledStaysSettled == Spec => NeverReopened
<1>1. TypeOK /\ [Next]_vars =>
        [\A r \in Requests : status[r] \notin {"none", "pending"} => status'[r] # "pending"]_status
  BY PendingComesFromFresh
<1>2. QED
  BY <1>1, ApprovalTypeCorrect, PTL DEF Spec, NeverReopened

\* A call that is over has nothing in hand, and the others have what they had.
LEMMA DoneHands ==
  ASSUME TypeOK, NEW c \in Callers, Done(c), NEW r \in Requests
  PROVE  /\ InHand(r)' = InHand(r) \ {c}
         /\ \A d \in Callers : d # c => UNCHANGED <<pc[d], target[d], seen[d]>>
         /\ pc'[c] = "idle"
BY DEF Done, InHand, TypeOK

\* A request whose row and history are as they were is still told in full.
LEMMA TellsStill ==
  ASSUME NEW r \in Requests, TellsAll(r),
         UNCHANGED <<status[r], received[r], signed[r], chain[r], r \in vetoed>>
  PROVE  TellsAll(r)'
BY DEF TellsAll, SignedOff, SignedLevels

\* The end of a call that did not write the request.
LEMMA EndsElsewhere ==
  ASSUME TypeOK, NEW c \in Callers, Done(c), NEW r \in Requests, TellsAll(r), HeldAsRead(r),
         UNCHANGED <<status[r], received[r], signed[r], chain[r], r \in vetoed>>
  PROVE  TellsAll(r)' /\ HeldAsRead(r)'
<1>1. TellsAll(r)'
  BY TellsStill
<1>2. HeldAsRead(r)'
  BY DoneHands DEF HeldAsRead
<1> QED
  BY <1>1, <1>2

\* The end of the one call that had the request in hand.
LEMMA EndsHere ==
  ASSUME TypeOK, NEW c \in Callers, Done(c), NEW r \in Requests, HeldAsRead(r),
         c \in InHand(r) \/ InHand(r) = {}
  PROVE  HeldAsRead(r)'
<1>1. InHand(r)' = {}
  BY DoneHands DEF HeldAsRead, InHand
<1> QED
  BY <1>1 DEF HeldAsRead, InHand

\* Calls with a request in hand, one after the other, keep what its row tells.
LEMMA TurnsTellAll ==
  ASSUME TypeOK, SignOffs, InTurn, [Next]_vars, NEW r \in Requests \ overlapped'
  PROVE  TellsAll(r)' /\ HeldAsRead(r)'
<1> USE DEF row, Goes
<1> DEFINE Same == UNCHANGED <<status[r], received[r], signed[r], chain[r], r \in vetoed>>
<1>1. r \in Requests \ overlapped /\ TellsAll(r) /\ HeldAsRead(r)
  <2>1. CASE UNCHANGED vars \/ \E q \in Requests : FallDue(q)
    BY <2>1 DEF FallDue, vars, InTurn, OnlyOverlapsLose
  <2>2. ASSUME NEW c \in Callers, Arrive(c) \/ Leave(c) \/ Configure(c) \/ SubmitWrite(c)
                                  \/ ListWrite(c) \/ Approve(c) \/ RejectRequest(c)
        PROVE  UNCHANGED overlapped
    BY <2>2 DEF Arrive, Leave, Configure, SubmitWrite, ListWrite, Approve, RejectRequest
  <2>3. ASSUME NEW R \in SUBSET Requests, Reads(R) PROVE overlapped \subseteq overlapped'
    BY <2>3 DEF Reads
  <2>4. ASSUME NEW c \in Callers, NEW p \in Posts, SubmitRead(c, p)
        PROVE  overlapped \subseteq overlapped'
    BY <2>3, <2>4 DEF SubmitRead, PendingFor
  <2>5. ASSUME NEW c \in Callers, ListRead(c) PROVE overlapped \subseteq overlapped'
    BY <2>5 DEF ListRead, Reads
  <2>6. ASSUME NEW c \in Callers, NEW q \in Requests, NEW level \in Levels,
               NEW d \in {"approve", "reject"}, DecideRead(c, q, level, d)
        PROVE  overlapped \subseteq overlapped'
    BY <2>6 DEF DecideRead, Reads
  <2> QED
    BY <2>1, <2>2, <2>4, <2>5, <2>6 DEF Next, InTurn, OnlyOverlapsLose
<1>2. ASSUME NEW E \in SUBSET Requests, NEW c \in Callers, Done(c), r \in E, E \subseteq stale[c],
             status'[r] = "expired",
             UNCHANGED <<received[r], signed[r], chain[r], r \in vetoed>>
      PROVE  TellsAll(r)' /\ HeldAsRead(r)'
  <2>1. c \in InHand(r) /\ status[r] = "pending"
    BY <1>1, <1>2 DEF InHand, HeldAsRead
  <2>2. TellsAll(r)'
    BY <1>1, <1>2, <2>1 DEF TellsAll, SignedOff, SignedLevels
  <2> QED
    BY <1>1, <1>2, <2>1, <2>2, EndsHere
<1>3. ASSUME NEW c \in Callers, SubmitWrite(c) PROVE TellsAll(r)' /\ HeldAsRead(r)'
  <2>1. Done(c) /\ UNCHANGED <<signed, vetoed>>
    BY <1>3 DEF SubmitWrite
  <2>2. CASE UNCHANGED row
    BY <1>1, <2>1, <2>2, EndsElsewhere
  <2>3. ASSUME NEW new \in Fresh,
               status' = [q \in Requests |-> IF q = new THEN "pending"
                            ELSE IF q \in stale[c] THEN "expired" ELSE status[q]],
               chain' = [chain EXCEPT ![new] = config],
               UNCHANGED received
        PROVE  TellsAll(r)' /\ HeldAsRead(r)'
    <3>1. CASE r = new
      <4>1. status[r] = "none" /\ status'[r] = "pending" /\ chain'[r] = config
        BY <2>3, <3>1 DEF Fresh, TypeOK
      <4>2. received[r] = {} /\ signed[r] = {} /\ r \notin vetoed
        BY <1>1, <4>1 DEF SignOffs, UnusedIsEmpty, TellsAll
      <4>3. SignedLevels(r)' = {}
        BY <2>1, <4>2 DEF SignedLevels
      <4>4. ~SignedOff(r)'
        BY <4>1, <4>3 DEF SignedOff, TypeOK, Chain
      <4>5. TellsAll(r)'
        BY <2>1, <2>3, <4>1, <4>2, <4>3, <4>4 DEF TellsAll
      <4>6. InHand(r) = {}
        BY <1>1, <4>1 DEF HeldAsRead
      <4> QED
        BY <1>1, <2>1, <4>5, <4>6, EndsHere
    <3>2. CASE r # new /\ r \in stale[c]
      <4>1. status'[r] = "expired" /\ chain'[r] = chain[r]
        BY <2>3, <3>2 DEF TypeOK
      <4>2. stale[c] \in SUBSET Requests
        BY DEF TypeOK
      <4> QED
        BY <1>2, <2>1, <2>3, <3>2, <4>1, <4>2
    <3>3. CASE r # new /\ r \notin stale[c]
      <4>1. status'[r] = status[r] /\ chain'[r] = chain[r]
        BY <2>3, <3>3 DEF TypeOK
      <4> QED
        BY <1>1, <2>1, <2>3, <4>1, EndsElsewhere
    <3> QED
      BY <3>1, <3>2, <3>3
  <2> QED
    BY <1>3, <2>2, <2>3 DEF SubmitWrite
<1>4. ASSUME NEW c \in Callers, ListWrite(c) PROVE TellsAll(r)' /\ HeldAsRead(r)'
  <2>1. Done(c) /\ UNCHANGED <<signed, vetoed, received, chain>>
    BY <1>4 DEF ListWrite
  <2>2. status'[r] = IF r \in stale[c] THEN "expired" ELSE status[r]
    BY <1>4 DEF ListWrite
  <2>3. stale[c] \in SUBSET Requests
    BY DEF TypeOK
  <2> QED
    BY <1>1, <1>2, <2>1, <2>2, <2>3, EndsElsewhere
<1>5. ASSUME NEW c \in Callers, Approve(c) PROVE TellsAll(r)' /\ HeldAsRead(r)'
  <2>1. Done(c) /\ UNCHANGED <<chain, vetoed>> /\ pc[c] = "approve"
    BY <1>5 DEF Approve
  <2>2. CASE r # target[c]
    <3>1. UNCHANGED <<status[r], received[r], signed[r]>>
      BY <1>5, <2>2 DEF Approve, TypeOK
    <3> QED
      BY <1>1, <2>1, <3>1, EndsElsewhere
  <2>3. CASE r = target[c]
    <3>1. c \in InHand(r) /\ status[r] = "pending" /\ seen[c] = received[r]
      BY <1>1, <2>1, <2>3 DEF InHand, HeldAsRead
    <3>2. role[c] \in Levels
      BY <2>1 DEF TypeOK
    <3> DEFINE approvals == seen[c] \cup {role[c]}
    <3>3. received'[r] = approvals
      BY <1>5, <2>3, <3>1 DEF Approve, TypeOK
    <3>4. signed'[r] = signed[r] \cup {<<c, role[c]>>}
      BY <1>5, <2>3 DEF Approve, TypeOK
    <3>5. SignedLevels(r)' = approvals
      BY <1>1, <3>1, <3>2, <3>4 DEF SignedLevels, TellsAll
    <3>6. status'[r] = IF Complete(r, approvals) THEN "approved" ELSE "pending"
      BY <1>5, <2>3, <3>1 DEF Approve, TypeOK
    <3>7. Complete(r, approvals) <=> SignedOff(r)'
      BY <2>1, <3>5 DEF Complete, SignedOff, TypeOK, Chain
    <3>8. r \notin vetoed
      BY <1>1, <3>1 DEF TellsAll
    <3>9. TellsAll(r)'
      BY <2>1, <3>3, <3>5, <3>6, <3>7, <3>8 DEF TellsAll
    <3> QED
      BY <1>1, <2>1, <3>1, <3>9, EndsHere
  <2> QED
    BY <2>2, <2>3
<1>6. ASSUME NEW c \in Callers, RejectRequest(c) PROVE TellsAll(r)' /\ HeldAsRead(r)'
  <2>1. Done(c) /\ UNCHANGED <<chain, received, signed>> /\ pc[c] = "reject"
    BY <1>6 DEF RejectRequest
  <2>2. CASE r # target[c]
    <3>1. status'[r] = status[r] /\ (r \in vetoed' <=> r \in vetoed)
      BY <1>6, <2>2 DEF RejectRequest, TypeOK
    <3> QED
      BY <1>1, <2>1, <3>1, EndsElsewhere
  <2>3. CASE r = target[c]
    <3>1. c \in InHand(r) /\ status[r] = "pending"
      BY <1>1, <2>1, <2>3 DEF InHand, HeldAsRead
    <3>2. status'[r] = "rejected" /\ r \in vetoed'
      BY <1>6, <2>3 DEF RejectRequest, TypeOK
    <3>3. TellsAll(r)'
      BY <1>1, <2>1, <3>1, <3>2 DEF TellsAll, SignedOff, SignedLevels
    <3> QED
      BY <1>1, <2>1, <3>1, <3>3, EndsHere
  <2> QED
    BY <2>2, <2>3
<1>7. ASSUME NEW c \in Callers, Leave(c) \/ Configure(c) PROVE TellsAll(r)' /\ HeldAsRead(r)'
  <2>1. Done(c) /\ Same
    BY <1>7 DEF Leave, Configure
  <2> QED
    BY <1>1, <2>1, EndsElsewhere
<1>8. ASSUME NEW c \in Callers, NEW R \in SUBSET Requests, Reads(R), Same,
             \A q \in R : status[q] = "pending",
             \A d \in Callers : d # c => UNCHANGED <<pc[d], stale[d], target[d], seen[d]>>,
             r \in R \/ InHand(r)' \subseteq InHand(r),
             pc'[c] \in {"approve", "reject"} /\ target'[c] = r => r \in R /\ seen'[c] = received[r]
      PROVE  TellsAll(r)' /\ HeldAsRead(r)'
  <2>1. TellsAll(r)'
    BY <1>1, <1>8, TellsStill
  <2>2. CASE r \in R
    <3>1. InHand(r) = {}
      BY <1>8, <2>2 DEF Reads
    <3>2. InHand(r)' \subseteq {c}
      BY <1>8, <3>1 DEF InHand
    <3>3. \A d \in Callers : pc'[d] \in {"approve", "reject"} /\ target'[d] = r => d = c
      BY <3>2 DEF InHand
    <3> QED
      BY <1>8, <2>1, <2>2, <3>2, <3>3 DEF HeldAsRead
  <2>3. CASE r \notin R
    <3>1. \A d \in Callers : pc'[d] \in {"approve", "reject"} /\ target'[d] = r =>
            pc[d] \in {"approve", "reject"} /\ target[d] = r /\ seen'[d] = seen[d]
      BY <1>8, <2>3
    <3> QED
      BY <1>1, <1>8, <2>1, <2>3, <3>1 DEF HeldAsRead
  <2> QED
    BY <2>2, <2>3
<1>9. ASSUME NEW c \in Callers, NEW p \in Posts, SubmitRead(c, p)
      PROVE  TellsAll(r)' /\ HeldAsRead(r)'
  <2>1. PendingFor(p) \in SUBSET Requests /\ \A q \in PendingFor(p) : status[q] = "pending"
    BY DEF PendingFor
  <2>2. /\ Reads(PendingFor(p)) /\ Same /\ pc'[c] = "submit" /\ stale'[c] = PendingFor(p)
        /\ \A d \in Callers : d # c => UNCHANGED <<pc[d], stale[d], target[d], seen[d]>>
    BY <1>9 DEF SubmitRead, TypeOK
  <2>3. r \notin PendingFor(p) => InHand(r)' \subseteq InHand(r)
    BY <2>2 DEF InHand
  <2> QED
    BY <1>8, <2>1, <2>2, <2>3
<1>10. ASSUME NEW c \in Callers, ListRead(c) PROVE TellsAll(r)' /\ HeldAsRead(r)'
  <2>1. /\ Reads(stale'[c]) /\ Same /\ pc'[c] = "list"
        /\ stale'[c] = {q \in now[c] : status[q] = "pending"}
        /\ \A d \in Callers : d # c => UNCHANGED <<pc[d], stale[d], target[d], seen[d]>>
    BY <1>10 DEF ListRead, TypeOK
  <2>2. stale'[c] \in SUBSET Requests /\ \A q \in stale'[c] : status[q] = "pending"
    BY <2>1 DEF TypeOK
  <2>3. r \notin stale'[c] => InHand(r)' \subseteq InHand(r)
    BY <2>1 DEF InHand
  <2> QED
    BY <1>8, <2>1, <2>2, <2>3
<1>11. ASSUME NEW c \in Callers, NEW q \in Requests, NEW level \in Levels,
              NEW d \in {"approve", "reject"}, DecideRead(c, q, level, d)
       PROVE  TellsAll(r)' /\ HeldAsRead(r)'
  <2>1. /\ Reads({q}) /\ Same /\ target'[c] = q /\ seen'[c] = received[q] /\ stale' = stale
        /\ status[q] = "pending"
        /\ \A e \in Callers : e # c => UNCHANGED <<pc[e], target[e], seen[e]>>
    BY <1>11 DEF DecideRead, TypeOK
  <2>2. r # q => InHand(r)' \subseteq InHand(r)
    BY <2>1 DEF InHand
  <2>3. \A e \in Callers : e # c => UNCHANGED <<pc[e], stale[e], target[e], seen[e]>>
    BY <2>1
  <2> QED
    BY <1>8, <2>1, <2>2, <2>3
<1>12. ASSUME NEW c \in Callers, Arrive(c) PROVE TellsAll(r)' /\ HeldAsRead(r)'
  <2>1. /\ Same /\ UNCHANGED <<stale, target, seen>>
        /\ \A d \in Callers : pc'[d] \in {"approve", "reject"} => pc[d] = pc'[d]
    BY <1>12 DEF Arrive, TypeOK
  <2>2. InHand(r)' \subseteq InHand(r)
    BY <2>1 DEF InHand
  <2>3. TellsAll(r)'
    BY <1>1, <2>1, TellsStill
  <2> QED
    BY <1>1, <2>1, <2>2, <2>3 DEF HeldAsRead
<1>13. CASE UNCHANGED vars \/ \E q \in Requests : FallDue(q)
  <2>1. Same /\ UNCHANGED <<pc, stale, target, seen>>
    BY <1>13 DEF vars, FallDue, call
  <2>2. TellsAll(r)'
    BY <1>1, <2>1, TellsStill
  <2> QED
    BY <1>1, <2>1, <2>2 DEF HeldAsRead, InHand
<1> QED
  BY <1>3, <1>4, <1>5, <1>6, <1>7, <1>9, <1>10, <1>11, <1>12, <1>13 DEF Next

\* As long as calls on a request do not overlap, its row tells every decision on it.
THEOREM OverlapsAloneLose == Spec => []OnlyOverlapsLose
<1>1. Init => InTurn
  <2> SUFFICES ASSUME Init, NEW r \in Requests PROVE TellsAll(r) /\ HeldAsRead(r)
    BY DEF InTurn, OnlyOverlapsLose
  <2>1. SignedLevels(r) = {} /\ InHand(r) = {}
    BY DEF Init, SignedLevels, InHand
  <2>2. ~SignedOff(r)
    BY <2>1, ApprovalAssumption DEF Init, SignedOff, DefaultChain
  <2> QED
    BY <2>1, <2>2 DEF Init, TellsAll, HeldAsRead
<1>2. TypeOK /\ SignOffs /\ InTurn /\ [Next]_vars => InTurn'
  BY TurnsTellAll DEF InTurn, OnlyOverlapsLose
<1>3. InTurn => OnlyOverlapsLose
  BY DEF InTurn
<1> QED
  BY <1>1, <1>2, <1>3, ApprovalTypeCorrect, SignOffsCorrect, PTL DEF Spec

-----------------------------------------------------------------------------
\* A call marks as expired only what was due when it took the time.
LEMMA ExpiresWhenDue == Spec => []StaleIsDue
<1>1. Init => StaleIsDue
  BY DEF Init, StaleIsDue
<1>2. TypeOK /\ StaleIsDue /\ [Next]_vars => StaleIsDue'
  <2> SUFFICES ASSUME TypeOK, StaleIsDue, [Next]_vars PROVE StaleIsDue'
    OBVIOUS
  <2> USE DEF StaleIsDue, TypeOK
  <2>1. ASSUME NEW c \in Callers, Done(c), UNCHANGED due PROVE StaleIsDue'
    BY <2>1 DEF Done
  <2>2. ASSUME NEW r \in Requests, FallDue(r) PROVE StaleIsDue'
    BY <2>2 DEF FallDue, call
  <2>3. ASSUME NEW c \in Callers, Arrive(c) PROVE StaleIsDue'
    <3>1. stale[c] \subseteq due
      OBVIOUS
    <3>2. now' = [now EXCEPT ![c] = due] /\ UNCHANGED <<stale, due>>
      BY <2>3 DEF Arrive
    <3> QED
      BY <3>1, <3>2
  <2>4. ASSUME NEW c \in Callers, NEW p \in Posts, SubmitRead(c, p) PROVE StaleIsDue'
    BY <2>4 DEF SubmitRead
  <2>5. ASSUME NEW c \in Callers, ListRead(c) PROVE StaleIsDue'
    BY <2>5 DEF ListRead
  <2>6. ASSUME NEW c \in Callers, NEW r \in Requests, NEW level \in Levels,
               NEW d \in {"approve", "reject"}, DecideRead(c, r, level, d)
        PROVE  StaleIsDue'
    BY <2>6 DEF DecideRead
  <2>7. ASSUME NEW c \in Callers,
               Leave(c) \/ Configure(c) \/ SubmitWrite(c) \/ ListWrite(c)
                 \/ Approve(c) \/ RejectRequest(c)
        PROVE  StaleIsDue'
    BY <2>1, <2>7 DEF Leave, Configure, SubmitWrite, ListWrite, Approve, RejectRequest
  <2>8. CASE UNCHANGED vars
    BY <2>8 DEF vars, call
  <2> QED
    BY <2>2, <2>3, <2>4, <2>5, <2>6, <2>7, <2>8 DEF Next
<1> QED
  BY <1>1, <1>2, ApprovalTypeCorrect, PTL DEF Spec

\* What a call is about to mark as expired may be.
LEMMA StaleMayExpire ==
  ASSUME TypeOK, SignOffs, StaleIsDue, NEW c \in Callers
  PROVE  stale[c] \in SUBSET Requests /\ Promise!MayExpire(stale[c])
BY DEF TypeOK, SignOffs, Authorised, StaleIsDue, Promise!MayExpire

\* A submission is one, or is refused and changes nothing.
LEMMA SubmitPromised ==
  ASSUME TypeOK, SignOffs, StaleIsDue, NEW c \in Callers, SubmitWrite(c)
  PROVE  Promise!Next \/ UNCHANGED Promise!vars
<1>1. UNCHANGED <<signed, due>>
  BY DEF SubmitWrite
<1>2. CASE UNCHANGED row
  BY <1>1, <1>2 DEF row, Promise!vars
<1>3. ASSUME NEW new \in Fresh, Unopposed(c),
             status' = [r \in Requests |-> IF r = new THEN "pending"
                          ELSE IF r \in stale[c] THEN "expired" ELSE status[r]],
             post' = [post EXCEPT ![new] = target[c]],
             chain' = [chain EXCEPT ![new] = config]
      PROVE  Promise!Next
  <2>1. PICK p \in Posts : p = target[c]
    BY DEF SubmitWrite, TypeOK
  <2>2. PICK E \in SUBSET Requests : E = stale[c] /\ Promise!MayExpire(E)
    BY StaleMayExpire
  <2>3. new \in Requests /\ status[new] = "none"
    BY DEF Fresh
  <2>4. status' = [Promise!Ends(E, status) EXCEPT ![new] = "pending"]
    BY <1>3, <2>2, <2>3 DEF Promise!Ends
  <2>5. \A r \in Requests : status[r] = "pending" /\ post[r] = p => r \in E
    BY <1>3, <2>1, <2>2 DEF Unopposed, PendingFor
  <2>6. \E g \in Promise!Chains : chain' = [chain EXCEPT ![new] = g]
    BY <1>3 DEF TypeOK, Promise!Chains, Chain
  <2>7. Promise!Submit(new, p, E)
    BY <1>1, <1>3, <2>1, <2>2, <2>3, <2>4, <2>5, <2>6 DEF Promise!Submit
  <2> QED
    BY <2>2, <2>3, <2>7 DEF Promise!Next
<1> QED
  BY <1>2, <1>3 DEF SubmitWrite

\* A recorded sign-off is one by somebody who may, and approves only with enough.
LEMMA ApprovePromised ==
  ASSUME TypeOK, SignOffs, SignOffs', NEW c \in Callers, Approve(c)
  PROVE  Promise!Next
<1>0. PICK r \in Requests, level \in Levels, approvals \in SUBSET Levels :
        r = target[c] /\ level = role[c] /\ approvals = seen[c] \cup {level}
  BY DEF Approve, TypeOK
<1>1. status[r] # "none" /\ level \in RolesOf[c] \cap chain[r].levels /\ seen[c] \subseteq SignedLevels(r)
  BY <1>0 DEF Approve, SignOffs, Authorised
<1>2. signed' = [signed EXCEPT ![r] = @ \cup {<<c, level>>}] /\ UNCHANGED <<post, chain, due>>
  BY <1>0 DEF Approve
<1>3. status' = IF Complete(r, approvals) THEN [status EXCEPT ![r] = "approved"] ELSE status
  BY <1>0 DEF Approve
<1>4. ASSUME Complete(r, approvals) PROVE Promise!Enough(r, signed'[r])
  <2>1. signed'[r] = signed[r] \cup {<<c, level>>}
    BY <1>2 DEF TypeOK
  <2>2. \A l \in approvals : \E d \in Callers : <<d, l>> \in signed'[r]
    BY <1>0, <1>1, <2>1 DEF SignedLevels
  <2> QED
    BY <1>4, <2>1, <2>2 DEF Complete, Promise!Enough
<1>5. Promise!Sign(c, r, level)
  BY <1>1, <1>2, <1>3, <1>4 DEF Promise!Sign
<1> QED
  BY <1>5 DEF Promise!Next

\* However calls overlap, the endpoints implement what approval promises.
THEOREM ApprovalsImplemented == Spec => ImplementsApprovals
<1>1. Init => Promise!Init
  BY ApprovalAssumption DEF Init, Promise!Init, DefaultChain, Promise!Chains
<1>2. TypeOK /\ SignOffs /\ SignOffs' /\ StaleIsDue /\ [Next]_vars => [Promise!Next]_(Promise!vars)
  <2> SUFFICES ASSUME TypeOK, SignOffs, SignOffs', StaleIsDue, [Next]_vars
               PROVE  Promise!Next \/ UNCHANGED Promise!vars
    OBVIOUS
  <2>1. ASSUME NEW r \in Requests, FallDue(r) PROVE Promise!Next
    BY <2>1 DEF FallDue, row, Promise!FallDue, Promise!Next
  <2>2. ASSUME UNCHANGED <<row, due, signed>> PROVE UNCHANGED Promise!vars
    BY <2>2 DEF row, Promise!vars
  <2>3. ASSUME NEW c \in Callers,
               Arrive(c) \/ Leave(c) \/ Configure(c) \/ ListRead(c) \/ \E p \in Posts : SubmitRead(c, p)
        PROVE  UNCHANGED Promise!vars
    BY <2>2, <2>3 DEF Arrive, Leave, Configure, ListRead, SubmitRead
  <2>4. ASSUME NEW c \in Callers, NEW r \in Requests, NEW level \in Levels,
               NEW d \in {"approve", "reject"}, DecideRead(c, r, level, d)
        PROVE  UNCHANGED Promise!vars
    BY <2>2, <2>4 DEF DecideRead
  <2>5. ASSUME NEW c \in Callers, ListWrite(c) PROVE Promise!Next
    <3>1. PICK E \in SUBSET Requests : E = stale[c] /\ Promise!MayExpire(E)
      BY StaleMayExpire
    <3>2. Promise!Expire(E)
      BY <2>5, <3>1 DEF ListWrite, Promise!Expire, Promise!Ends
    <3> QED
      BY <3>2 DEF Promise!Next
  <2>6. ASSUME NEW c \in Callers, RejectRequest(c) PROVE Promise!Next
    <3>1. PICK r \in Requests : r = target[c]
      BY <2>6 DEF RejectRequest, TypeOK
    <3>2. status[r] # "none" /\ RolesOf[c] \cap chain[r].levels # {}
      BY <2>6, <3>1 DEF RejectRequest, SignOffs, Authorised
    <3>3. Promise!Reject(c, r)
      BY <2>6, <3>1, <3>2 DEF RejectRequest, Promise!Reject
    <3> QED
      BY <3>3 DEF Promise!Next
  <2>7. ASSUME UNCHANGED vars PROVE UNCHANGED Promise!vars
    BY <2>7 DEF vars, Promise!vars
  <2> QED
    BY <2>1, <2>3, <2>4, <2>5, <2>6, <2>7, SubmitPromised, ApprovePromised DEF Next
<1> QED
  BY <1>1, <1>2, ApprovalTypeCorrect, SignOffsCorrect, ExpiresWhenDue, PTL
     DEF Spec, ImplementsApprovals, Promise!Spec

-----------------------------------------------------------------------------
(* What the promise is worth: whoever relies on Approvals alone has the    *)
(* properties the endpoints were built for.                                *)

\* The values an implementation of Approvals ranges over; an unused request is unsigned.
Promising ==
  /\ status \in [Requests -> {"none", "pending", "approved", "rejected", "expired"}]
  /\ post \in [Requests -> Posts \cup {None}]
  /\ chain \in [Requests -> Promise!Chains]
  /\ signed \in [Requests -> SUBSET (Callers \X Levels)]
  /\ \A r \in Requests : status[r] = "none" => signed[r] = {}

\* What it keeps, and what no step of it does.
Promised == Promising /\ ApprovedWasSigned /\ OnePendingPerPost
StaysSettled ==
  \A r \in Requests : status[r] \notin {"none", "pending"} => status'[r] # "pending"

\* Enough signatures in the abstract are enough in the code.
LEMMA EnoughIsSignedOff ==
  Promising => \A r \in Requests : Promise!Enough(r, signed[r]) => SignedOff(r)
<1> SUFFICES ASSUME NEW r \in Requests, Promising, Promise!Enough(r, signed[r])
             PROVE  SignedOff(r)
  OBVIOUS
<1>1. signed[r] \subseteq Callers \X Levels /\ chain[r].levels \subseteq Levels
  BY DEF Promising, Promise!Chains
<1>2. CASE chain[r].mode = "any"
  <2>1. PICK c \in Callers, level \in Levels : <<c, level>> \in signed[r]
    BY <1>1, <1>2 DEF Promise!Enough
  <2> QED
    BY <1>2, <2>1 DEF SignedOff, SignedLevels
<1>3. CASE chain[r].mode # "any"
  BY <1>1, <1>3 DEF SignedOff, SignedLevels, Promise!Enough
<1> QED
  BY <1>2, <1>3

\* The same of the state after a step.
LEMMA EnoughWillDo ==
  Promising' => (\A r \in Requests : Promise!Enough(r, signed[r]) => SignedOff(r))'
BY EnoughIsSignedOff, PTL

\* Further signatures by those who may leave what is approved approved.
LEMMA SignaturesStand ==
  ASSUME Promised, NEW r \in Requests, chain'[r] = chain[r], signed'[r] = signed[r],
         status'[r] = "approved" => status[r] = "approved"
  PROVE  /\ status'[r] = "approved" => SignedOff(r)'
         /\ \A s \in signed'[r] : s[2] \in RolesOf[s[1]] \cap chain'[r].levels
BY DEF Promised, ApprovedWasSigned, SignedOff, SignedLevels

\* A new request, with what expires for it, leaves everything promised as it was.
LEMMA PromisedSubmit ==
  ASSUME Promised, NEW new \in Requests, NEW p \in Posts, NEW E \in SUBSET Requests,
         Promise!Submit(new, p, E)
  PROVE  Promised' /\ StaysSettled
<1>1. /\ status[new] = "none" /\ \A r \in E : status[r] # "none"
      /\ \A r \in Requests : status[r] = "pending" /\ post[r] = p => r \in E
      /\ post' = [post EXCEPT ![new] = p] /\ signed' = signed
      /\ \E c \in Promise!Chains : chain' = [chain EXCEPT ![new] = c]
  BY DEF Promise!Submit, Promise!MayExpire
<1>2. status' = [r \in Requests |-> IF r = new THEN "pending"
                   ELSE IF r \in E THEN "expired" ELSE status[r]]
  BY DEF Promise!Submit, Promise!Ends
<1>3. Promising'
  <2>1. status' \in [Requests -> {"none", "pending", "approved", "rejected", "expired"}]
    BY <1>2 DEF Promised, Promising
  <2>2. post' \in [Requests -> Posts \cup {None}] /\ chain' \in [Requests -> Promise!Chains]
    BY <1>1 DEF Promised, Promising
  <2>3. \A r \in Requests : status'[r] = "none" => signed'[r] = {}
    BY <1>1, <1>2 DEF Promised, Promising
  <2> QED
    BY <1>1, <2>1, <2>2, <2>3 DEF Promised, Promising, Promise!Chains
<1>4. ApprovedWasSigned'
  <2>1. status'[new] = "pending" /\ signed'[new] = {}
    BY <1>1, <1>2 DEF Promised, Promising
  <2>2. ASSUME NEW r \in Requests, r # new
        PROVE  chain'[r] = chain[r] /\ (status'[r] = "approved" => status[r] = "approved")
    BY <1>1, <1>2, <2>2 DEF Promised, Promising
  <2> QED
    BY <1>1, <2>1, <2>2, SignaturesStand DEF ApprovedWasSigned
<1>5. ASSUME NEW r \in Requests, r # new, status'[r] = "pending"
      PROVE  status[r] = "pending" /\ post'[r] = post[r] /\ post'[r] # post'[new]
  BY <1>1, <1>2, <1>5 DEF Promised, Promising
<1>6. OnePendingPerPost'
  BY <1>5 DEF Promised, OnePendingPerPost
<1>7. StaysSettled
  BY <1>1, <1>5 DEF StaysSettled
<1> QED
  BY <1>3, <1>4, <1>6, <1>7 DEF Promised

\* A request that somebody who may signs off, rejects or lets expire.
LEMMA PromisedDecision ==
  ASSUME Promised, Promise!Next, UNCHANGED <<post, chain>>,
         \A r \in Requests : status'[r] = "pending" => status[r] = "pending",
         Promising', ApprovedWasSigned'
  PROVE  Promised' /\ StaysSettled
BY DEF Promised, OnePendingPerPost, StaysSettled

\* Every step of the promise keeps what it is worth.
LEMMA PromisedStep == Promised /\ [Promise!Next]_(Promise!vars) => Promised' /\ [StaysSettled]_status
<1> SUFFICES ASSUME Promised, [Promise!Next]_(Promise!vars)
             PROVE  Promised' /\ [StaysSettled]_status
  OBVIOUS
<1>0. ASSUME UNCHANGED <<post, chain, status, signed>> PROVE Promised' /\ [StaysSettled]_status
  <2>1. Promising'
    BY <1>0 DEF Promised, Promising, Promise!Chains
  <2>2. ApprovedWasSigned' /\ OnePendingPerPost'
    BY <1>0 DEF Promised, ApprovedWasSigned, OnePendingPerPost, SignedOff, SignedLevels
  <2> QED
    BY <1>0, <2>1, <2>2 DEF Promised
<1>1. CASE UNCHANGED Promise!vars
  BY <1>0, <1>1 DEF Promise!vars
<1>2. ASSUME NEW r \in Requests, Promise!FallDue(r) PROVE Promised' /\ [StaysSettled]_status
  BY <1>0, <1>2 DEF Promise!FallDue
<1>3. ASSUME NEW E \in SUBSET Requests, Promise!Expire(E), Promise!Next
      PROVE  Promised' /\ [StaysSettled]_status
  <2>1. /\ UNCHANGED <<post, chain, signed>> /\ \A r \in E : status[r] # "none"
        /\ status' = [r \in Requests |-> IF r \in E THEN "expired" ELSE status[r]]
    BY <1>3 DEF Promise!Expire, Promise!Ends, Promise!MayExpire
  <2>2. Promising'
    BY <2>1 DEF Promised, Promising, Promise!Chains
  <2>3. ApprovedWasSigned'
    BY <2>1, SignaturesStand DEF ApprovedWasSigned
  <2> QED
    BY <1>3, <2>1, <2>2, <2>3, PromisedDecision
<1>4. ASSUME NEW c \in Callers, NEW r \in Requests, Promise!Reject(c, r), Promise!Next
      PROVE  Promised' /\ [StaysSettled]_status
  <2>1. UNCHANGED <<post, chain, signed>> /\ status' = [status EXCEPT ![r] = "rejected"]
    BY <1>4 DEF Promise!Reject
  <2>2. Promising'
    BY <2>1 DEF Promised, Promising, Promise!Chains
  <2>3. \A q \in Requests : status'[q] \in {status[q], "rejected"}
    BY <2>1 DEF Promised, Promising
  <2>4. ApprovedWasSigned'
    BY <2>1, <2>3, SignaturesStand DEF ApprovedWasSigned
  <2> QED
    BY <1>4, <2>1, <2>2, <2>3, <2>4, PromisedDecision
<1>5. ASSUME NEW c \in Callers, NEW r \in Requests, NEW l \in Levels, Promise!Sign(c, r, l), Promise!Next
      PROVE  Promised' /\ [StaysSettled]_status
  <2>1. /\ UNCHANGED <<post, chain>> /\ status[r] # "none" /\ l \in RolesOf[c] \cap chain[r].levels
        /\ signed' = [signed EXCEPT ![r] = @ \cup {<<c, l>>}]
    BY <1>5 DEF Promise!Sign
  <2>2. status' = status \/ status' = [status EXCEPT ![r] = "approved"]
    BY <1>5 DEF Promise!Sign
  <2>3. signed'[r] = signed[r] \cup {<<c, l>>} /\ \A q \in Requests \ {r} : signed'[q] = signed[q]
    BY <2>1 DEF Promised, Promising
  <2>4. \A q \in Requests : /\ status'[q] \in {status[q], "approved"}
                            /\ q # r => status'[q] = status[q]
    BY <2>2 DEF Promised, Promising
  <2>5. Promising'
    <3>1. signed' \in [Requests -> SUBSET (Callers \X Levels)]
      BY <2>1 DEF Promised, Promising
    <3>2. status' \in [Requests -> {"none", "pending", "approved", "rejected", "expired"}]
      BY <2>2 DEF Promised, Promising
    <3>3. \A q \in Requests : status'[q] = "none" => signed'[q] = {}
      BY <2>1, <2>3, <2>4 DEF Promised, Promising
    <3> QED
      BY <2>1, <3>1, <3>2, <3>3 DEF Promised, Promising, Promise!Chains
  <2>6. \A s \in signed'[r] : s[2] \in RolesOf[s[1]] \cap chain'[r].levels
    BY <2>1, <2>3 DEF Promised, ApprovedWasSigned
  <2>7. status'[r] = "approved" => SignedOff(r)'
    <3>1. CASE status[r] = "approved"
      BY <2>1, <2>3, <3>1 DEF Promised, ApprovedWasSigned, SignedOff, SignedLevels
    <3>2. CASE status'[r] # status[r]
      <4>1. Promise!Enough(r, signed'[r])
        BY <1>5, <3>2 DEF Promise!Sign
      <4>2. Promise!Enough(r, signed[r])'
        BY <2>1, <4>1 DEF Promise!Enough
      <4> QED
        BY <2>5, <4>2, EnoughWillDo
    <3> QED
      BY <3>1, <3>2
  <2>8. ASSUME NEW q \in Requests, q # r
        PROVE  /\ status'[q] = "approved" => SignedOff(q)'
               /\ \A s \in signed'[q] : s[2] \in RolesOf[s[1]] \cap chain'[q].levels
    BY <2>1, <2>3, <2>4, <2>8, SignaturesStand
  <2>9. ApprovedWasSigned'
    BY <2>6, <2>7, <2>8 DEF ApprovedWasSigned
  <2> QED
    BY <1>5, <2>1, <2>4, <2>5, <2>9, PromisedDecision
<1>6. ASSUME NEW new \in Requests, NEW p \in Posts, NEW E \in SUBSET Requests, Promise!Submit(new, p, E)
      PROVE  Promised' /\ [StaysSettled]_status
  BY <1>6, PromisedSubmit
<1> QED
  BY <1>1, <1>2, <1>3, <1>4, <1>5, <1>6 DEF Promise!Next

\* Whatever implements Approvals approves nothing unsigned, keeps one pending request per
\* post and reopens nothing, so its callers need not read the endpoints to know.
THEOREM ApprovalsSuffice ==
  ImplementsApprovals => [](ApprovedWasSigned /\ OnePendingPerPost) /\ NeverReopened
<1>1. Promise!Init => Promised
  BY DEF Promise!Init, Promised, Promising, ApprovedWasSigned, OnePendingPerPost
<1>2. Promised => ApprovedWasSigned /\ OnePendingPerPost
  BY DEF Promised
<1> QED
  BY <1>1, <1>2, PromisedStep, PTL DEF ImplementsApprovals, Promise!Spec, NeverReopened, StaysSettled
=============================================================================

------------------------------ MODULE Approvals ------------------------------
(***************************************************************************)
(* What content approval promises, whoever calls and however their calls   *)
(* overlap: a post has one pending request, which keeps the chain it was   *)
(* submitted under; only holders of a role of that chain sign it off or    *)
(* reject it; it is approved by a sign-off with which there are enough; it *)
(* expires only once it is due; and it never goes back to pending.  That a *)
(* decision is final is not promised: another may replace it.              *)
(***************************************************************************)
CONSTANTS Requests, Posts, Levels, Callers, RolesOf, None

VARIABLES
  post, chain, status,  \* what was submitted, under which chain, and where it stands
  signed,               \* who signed which level of each request
  due                   \* requests whose time is over

vars == <<post, chain, status, signed, due>>

Chains == [levels : (SUBSET Levels) \ {{}}, mode : {"all", "any"}]

Init ==
  /\ status = [r \in Requests |-> "none"] /\ due = {}
  /\ post = [r \in Requests |-> None] /\ chain \in [Requests -> Chains]
  /\ signed = [r \in Requests |-> {}]

FallDue(r) ==
  /\ status[r] # "none" /\ due' = due \cup {r}
  /\ UNCHANGED <<post, chain, status, signed>>

Ends(E, s) == [r \in Requests |-> IF r \in E THEN "expired" ELSE s[r]]
MayExpire(E) == E \subseteq due /\ \A r \in E : status[r] # "none"

\* A new request, once whatever was pending for its post has expired.
Submit(new, p, E) ==
  /\ status[new] = "none" /\ MayExpire(E)
  /\ \A r \in Requests : status[r] = "pending" /\ post[r] = p => r \in E
  /\ status' = [Ends(E, status) EXCEPT ![new] = "pending"]
  /\ post' = [post EXCEPT ![new] = p]
  /\ \E c \in Chains : chain' = [chain EXCEPT ![new] = c]
  /\ UNCHANGED <<signed, due>>

Expire(E) ==
  /\ MayExpire(E) /\ status' = Ends(E, status)
  /\ UNCHANGED <<post, chain, signed, due>>

Enough(r, signatures) ==
  IF chain[r].mode = "any" THEN signatures # {}
  ELSE \A level \in chain[r].levels : \E c \in Callers : <<c, level>> \in signatures

Sign(c, r, level) ==
  /\ status[r] # "none" /\ level \in RolesOf[c] \cap chain[r].levels
  /\ signed' = [signed EXCEPT ![r] = @ \cup {<<c, level>>}]
  /\ \/ UNCHANGED status
     \/ Enough(r, signed'[r]) /\ status' = [status EXCEPT ![r] = "approved"]
  /\ UNCHANGED <<post, chain, due>>

Reject(c, r) ==
  /\ status[r] # "none" /\ RolesOf[c] \cap chain[r].levels # {}
  /\ status' = [status EXCEPT ![r] = "rejected"]
  /\ UNCHANGED <<post, chain, signed, due>>

Next ==
  \/ \E r \in Requests : FallDue(r)
  \/ \E E \in SUBSET Requests : Expire(E) \/ \E r \in Requests, p \in Posts : Submit(r, p, E)
  \/ \E c \in Callers, r \in Requests : Reject(c, r) \/ \E l \in Levels : Sign(c, r, l)

Spec == Init /\ [][Next]_vars
=============================================================================

---------------------------- MODULE JobLifecycle ----------------------------
(***************************************************************************)
(* What durable_jobs promises about one AI generation job, whoever runs    *)
(* it: a committed job is never forgotten or un-created, nobody runs it    *)
(* before it was launched (handed to the broker, or to the in-process      *)
(* runner), and only the API may declare an unlaunched job failed.         *)
(* Execution is at least once: a duplicate delivery may run a job again.   *)
(***************************************************************************)
CONSTANTS Jobs, Production

VARIABLES
  state,     \* job_executions.status
  launched   \* jobs somebody was given to run

vars == <<state, launched>>

Init ==
  /\ state = [j \in Jobs |-> "none"]
  /\ launched = {}

\* create_job: the job is durable from here on.
Submit(j) ==
  /\ state[j] = "none"
  /\ state' = [state EXCEPT ![j] = "queued"]
  /\ UNCHANGED launched

Launch(j) ==
  /\ state[j] # "none" /\ j \notin launched
  /\ launched' = launched \cup {j}
  /\ UNCHANGED state

\* A launched job starts, restarts, or ends; its last writer decides its status.
Progress(j, s) ==
  /\ j \in launched
  /\ state' = [state EXCEPT ![j] = s]
  /\ UNCHANGED launched

\* Production gives up on dispatching; the job may still be launched later.
Reject(j) ==
  /\ Production /\ state[j] # "none"
  /\ state' = [state EXCEPT ![j] = "failed"]
  /\ UNCHANGED launched

Next ==
  \E j \in Jobs :
    \/ Submit(j) \/ Launch(j) \/ Reject(j)
    \/ \E s \in {"running", "completed", "failed"} : Progress(j, s)

Spec == Init /\ [][Next]_vars

\* At-least-once hand-over: every committed job is launched in the end.
FairSpec == Spec /\ \A j \in Jobs : WF_vars(Launch(j))
=============================================================================

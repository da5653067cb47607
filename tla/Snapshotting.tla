---------------------------- MODULE Snapshotting ----------------------------
(***************************************************************************)
(* What a snapshot promises about records that live in memory, however     *)
(* many threads write it and whenever the process dies: records are kept   *)
(* only when they were there, what is kept is never given up for something *)
(* older, and what comes back after a restart is what was kept last.       *)
(***************************************************************************)
VARIABLES
  current,  \* the changes memory includes; once the process has ended, those it will start with
  kept      \* the changes the snapshot includes

vars == <<current, kept>>

Init == current = {} /\ kept = {}

Change == current \subseteq current' /\ UNCHANGED kept

\* The snapshot catches up, wholly or in part: memory may have moved on since.
Save == kept \subseteq kept' /\ kept' \subseteq current /\ UNCHANGED current

Restart == current' = kept /\ UNCHANGED kept

Next == Change \/ Save \/ Restart

Spec == Init /\ [][Next]_vars
=============================================================================

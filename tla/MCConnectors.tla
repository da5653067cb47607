---------------------------- MODULE MCConnectors ----------------------------
(* Instances of Connectors for TLC. *)
EXTENDS Connectors, TLC

Symmetry == Permutations(Calls)

\* One retry, a circuit that opens at once, a target that half the requests meet,
\* and a latency only a healthy connector meets.
Strict == [retries |-> 1, threshold |-> 1, availability |-> 5000, latency |-> 150, replay |-> TRUE]
NoReplay == [Strict EXCEPT !.replay = FALSE, !.retries = 0, !.latency = 500, !.threshold = 2]
AllPolicies == {Strict, NoReplay}
=============================================================================

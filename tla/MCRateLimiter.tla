--------------------------- MODULE MCRateLimiter ---------------------------
(* Instances of RateLimiter for TLC: two threads of one process. *)
EXTENDS RateLimiter, TLC

CONSTANTS p1, c1, c2

Threads == {c1, c2}
Placement == [c \in Threads |-> p1]
Symmetry == Permutations(Threads)
=============================================================================

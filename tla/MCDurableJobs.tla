--------------------------- MODULE MCDurableJobs ---------------------------
(* Instances of DurableJobs for TLC. *)
EXTENDS DurableJobs, TLC

\* All jobs belong to one tenant.
SameTenant == [j \in Jobs |-> CHOOSE t \in Tenants : TRUE]

Symmetry == Permutations(Jobs) \cup Permutations(Relays) \cup Permutations(Workers)
=============================================================================

------------------------- MODULE MCContentApproval -------------------------
(* Instances of ContentApproval for TLC: an admin, who may sign any level, *)
(* and reviewers who hold one level each.                                  *)
EXTENDS ContentApproval, TLC

CONSTANTS ann, bob, editor, legal

Roles == [c \in Callers |-> IF c = ann THEN Levels ELSE {legal}]
Symmetry == Permutations(Requests)
=============================================================================

--------------------------- MODULE MCPublicBudget ---------------------------
(* Model-checking instances of PublicBudget. *)
EXTENDS PublicBudget, TLC

CONSTANTS c1, c2

\* c1 has a limit, c2 has none.
MCFirstLimit == [c \in Campaigns |-> IF c = c1 THEN 3 ELSE 0]

Symmetry == Permutations(Requests)
=============================================================================

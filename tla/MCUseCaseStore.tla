--------------------------- MODULE MCUseCaseStore ---------------------------
(* An instance of UseCaseStore: the slug of one name is a built-in case, the *)
(* slug of the other is the id the first one gets instead.                   *)
EXTENDS UseCaseStore, TLC

CONSTANTS h1, h2, q1, q2, s1

MCSlug     == [n \in Names |-> IF n = "case" THEN "case" ELSE "case-2"]
MCSuffixed == [n \in Names |-> [k \in {2} |-> IF n = "case" THEN "case-2" ELSE "case 2-2"]]

\* Sound for the invariants: nothing but equality tells these values apart.
Symmetry == Permutations(Handlers) \cup Permutations(QuestionMaps)
=============================================================================

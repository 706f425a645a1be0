--------------------------- MODULE MCSourceRegistry ---------------------------
(* SourceRegistry on one organisation, a seed and a project of its own.       *)
EXTENDS SourceRegistry

CONSTANTS o1, s1, c1

Slugs == [v \in Version |-> IF v = s1 THEN "seed" ELSE "own"]
Owners == [v \in Version \ Bundled |-> o1]
Symmetry == Permutations(Request)
=============================================================================

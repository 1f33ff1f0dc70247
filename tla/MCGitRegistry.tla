---------------------------- MODULE MCGitRegistry ----------------------------
(* A small repository: every set of ids is interchangeable.                  *)
EXTENDS GitRegistry, TLC
Symmetry == Permutations(Calls) \cup Permutations(Paths) \cup Permutations(Branches)
              \cup Permutations(Rows) \cup Permutations(Tasks)
=============================================================================

---------------------------- MODULE MCHarnessRun ----------------------------
(* Two retries of the operator, or one and a mishap, or two mishaps.         *)
EXTENDS HarnessRun

MCWorlds ==
    {[retries |-> 0, ops |-> 2, crashes |-> 0, faults |-> 0],
     [retries |-> 0, ops |-> 1, crashes |-> 1, faults |-> 0],
     [retries |-> 1, ops |-> 1, crashes |-> 0, faults |-> 1],
     [retries |-> 1, ops |-> 0, crashes |-> 1, faults |-> 1]}

Symmetry == Permutations(Criteria)
=============================================================================

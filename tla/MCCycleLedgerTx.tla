-------------------------- MODULE MCCycleLedgerTx --------------------------
(* Model-checking instances of CycleLedgerTx: two interchangeable writers on *)
(* one task, which in some behaviours takes turns and in others does not.    *)
EXTENDS CycleLedgerTx, TLC

Symmetry == Permutations(Writers)
=============================================================================

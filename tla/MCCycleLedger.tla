--------------------------- MODULE MCCycleLedger ---------------------------
(* Model-checking instance of CycleLedger.  Tasks do not interact in this    *)
(* module, so one task with several attempts is the interesting instance.    *)
EXTENDS CycleLedger
=============================================================================

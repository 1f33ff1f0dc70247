--------------------------- MODULE MCMemoryQueue ---------------------------
(* Model-checking instance of MemoryQueue.  The run checks liveness, so it   *)
(* uses no symmetry.                                                         *)
EXTENDS MemoryQueue
=============================================================================

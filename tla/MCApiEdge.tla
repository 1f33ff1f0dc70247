----------------------------- MODULE MCApiEdge -------------------------------
(* Every goroutine that publishes is a request; keys and requests are        *)
(* interchangeable.                                                          *)
EXTENDS ApiEdge, TLC
Symmetry == Permutations(Requests) \cup Permutations(Keys)
=============================================================================

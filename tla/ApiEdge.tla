------------------------------- MODULE ApiEdge -------------------------------
(****************************************************************************)
(* The HTTP edge of one process: requests with an idempotency key run       *)
(* handlers that commit a change and publish it before they answer, and a   *)
(* browser follows the event stream of the same process. The middleware and *)
(* the hub share no lock, only the goroutine that goes through both, and    *)
(* they lose what they keep together when the process restarts.             *)
(****************************************************************************)
EXTENDS EventStream, Idempotency

CONSTANT MaxRestarts  \* bound

ASSUME HandlersAssumption == Requests \subseteq Publishers

edgeVars == <<streamVars, idempVars>>

EdgeInit == StreamInit /\ IdempInit

\* ServeHTTP of the leader up to the commit, and the call of Publish after it.
Handle(c) == Effect(c) /\ CommitChange(c)

\* The handler returns from Publish before it answers.
Reply(c) ==
  /\ pub[c] = NoPub
  /\ \/ Answer(c)
     \/ \E size \in Sizes, prune \in BOOLEAN : Settle(c, size, prune)
  /\ UNCHANGED streamVars

Restart ==
  /\ epoch < MaxRestarts
  /\ RestartHub
  /\ RestartIdempotency

EdgeNext ==
  \/ \E c \in Requests :
       \/ \E k \in Keys : Lookup(c, k) /\ UNCHANGED streamVars
       \/ Do(c) /\ UNCHANGED streamVars
       \/ Handle(c)
       \/ Reply(c)
  \/ Expire /\ UNCHANGED streamVars
  \/ StreamNext /\ UNCHANGED idempVars
  \/ Restart

EdgeSpec == EdgeInit /\ [][EdgeNext]_edgeVars
=============================================================================

---------------------------- MODULE MCWorkerPool ----------------------------
(* Model-checking instances of WorkerPool.  SharedHome binds every task to   *)
(* one worktree, so runs compete for its gate; a second worktree is there    *)
(* where a PATCH may rebind the task.                                        *)
EXTENDS WorkerPool, TLC

CONSTANTS t1, t2, s1, s2, wa, wb

OneTask == {t1}
TwoTasks == {t1, t2}
TwoSlots == {s1, s2}

SharedHome == [t \in Tasks |-> wa]

(* Three small worlds in one run: t1 alone with a verify retry, t1 alone with *)
(* an operator call, or t2 beside it, where every agent does its work on the *)
(* first try.  t2 comes before the first cycle of t1 or never, while t1 may  *)
(* come at any time.  Of a step that carries fairness only alternatives are  *)
(* cut, never the step, so nothing is stopped that the code would do.        *)
Beside == row'[t2].status # "absent"
VerifyRetry(s) == At(s, "verify") /\ slot'[s].at \in {"startExecute", "startVerify"}
Retried == \E a \in DOMAIN cycles[t1] : Len(cycles[t1][a].phases) > 2
Returns(s, place) == At(s, place) /\ slot'[s].at # place
Detour(s) ==
    \/ Returns(s, "execute") /\ PhaseIsMine(s) /\ slot'[s].at # "startVerify"
    \/ Returns(s, "verify") /\ slot'[s].out # "succeeded"

LiveNext ==
    /\ Next
    /\ Beside => ops' = 0 /\ \A s \in Slots : ~Detour(s)
    /\ Beside /\ row[t2].status = "absent" => cycles[t1] = <<>>
    /\ ops' > 0 => \A s \in Slots : ~VerifyRetry(s)
    /\ ops' > ops => ~Retried

LiveSpec == Init /\ [][LiveNext]_vars /\ Fairness

(* For safety, a refused done is one event among the others, and a run in    *)
(* the company of an event fails in execute rather than in verify, which the *)
(* steps after it do not tell apart.                                         *)
Events == ops + rebinds + crashes
FailsInVerify(s) == Returns(s, "verify") /\ slot'[s].out = "failed"

SafeNext ==
    /\ Next
    /\ Events' > 0 => /\ \A t \in Tasks : by'[t] # "refused"
                      /\ \A s \in Slots : ~FailsInVerify(s)

SafeSpec == Init /\ [][SafeNext]_vars

Symmetry == Permutations(Slots) \cup Permutations(Tasks)
=============================================================================

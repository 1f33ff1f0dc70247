---------------------------- MODULE MCSupervisor ----------------------------
(* Model-checking instance of Supervisor. *)
EXTENDS Supervisor, TLC

CONSTANTS boot, p1, p2, t1, t2, s1, s2, sa, sb

(* Two small worlds in one run: a pool of two slots with two tasks, which    *)
(* the operator cancels twice and may retry twice (one cancel and no retry   *)
(* if there is a drain); or settings calls against pools that use one slot   *)
(* for one task, which is retried once under the first two pools.  The tasks *)
(* are alike, so t1 is the first taken.                                      *)
Swapped == \E c \in Callers \ {Boot} : call[c].at # "idle"
Fresh2 == task[t2] = [status |-> "ready", cycle |-> "none", phase |-> {}]
Crowded ==
    \/ cancels > 0 \/ retries > 1 \/ ~Fresh2
    \/ \E i \in DOMAIN pool : slot[<<i, s2>>] # Idle
OneWorld ==
    /\ ~(Swapped /\ Crowded)
    /\ Len(pool) > 2 => retries = 0
    /\ Crowded /\ drained => retries = 0 /\ cancels <= 1
    /\ ~Fresh2 => task[t1].status # "ready" \/ task[t1].cycle # "none"

Symmetry == Permutations({p1, p2})
=============================================================================

---------------------------- MODULE CycleLedger ----------------------------
(* The contract of the execution ledger: the task_cycles and                 *)
(* task_cycle_phases rows written by pkgs/tasks/store/internal/cycles, each  *)
(* store call taken as one atomic step.  A task has a list of attempts       *)
(* (cycles), an attempt a list of phases; attempt_seq and phase_seq are the  *)
(* positions in those lists, because the store assigns max + 1 and never     *)
(* deletes a row.  CycleLedgerTx splits the same calls into SQL statements.  *)
EXTENDS Naturals, Sequences

CONSTANTS
    Tasks,
    MaxAttempts,    \* bound: cycles per task
    MaxPhases       \* bound: phases per cycle

ASSUME BoundsAssumption == MaxAttempts \in Nat /\ MaxPhases \in Nat

VARIABLE
    cycles          \* cycles[t][a]: attempt a of task t

PhaseKinds == {"execute", "verify"}

\* A phase finalized after a restart is failed with summary process_restart;
\* "interrupted" stands for that combination.
TerminalPhaseStatus == {"succeeded", "failed", "skipped", "interrupted"}
TerminalCycleStatus == {"succeeded", "failed", "aborted"}

PhaseRow == [kind : PhaseKinds, status : {"running"} \cup TerminalPhaseStatus]
CycleRow == [status : {"running"} \cup TerminalCycleStatus, phases : Seq(PhaseRow)]

Init == cycles = [t \in Tasks |-> <<>>]

-----------------------------------------------------------------------------
(* Reads the store's guards are built from.                                  *)

HasRunningCycle(t) == \E a \in DOMAIN cycles[t] : cycles[t][a].status = "running"

HasRunningPhase(t, a) ==
    \E p \in DOMAIN cycles[t][a].phases : cycles[t][a].phases[p].status = "running"

ValidPhaseTransition(prev, next) ==
    \/ prev.kind = "execute" /\ next = "verify"
    \/ prev.kind = "verify" /\ next = "execute"

ValidInterruptResumeTransition(prev, next) ==
    prev.kind = next /\ prev.status = "interrupted"

ValidVerifyOnlyRetryTransition(prev, next) ==
    /\ next = "verify"
    /\ prev.kind = "verify"
    /\ prev.status \in {"failed", "interrupted"}

\* May a phase of kind next be appended after these phases?
MayAppend(phases, next) ==
    IF phases = <<>>
    THEN next = "execute"
    ELSE LET last == phases[Len(phases)]
         IN  \/ ValidPhaseTransition(last, next)
             \/ ValidInterruptResumeTransition(last, next)
             \/ ValidVerifyOnlyRetryTransition(last, next)

-----------------------------------------------------------------------------
(* The store's calls.                                                        *)

NewCycle == [status |-> "running", phases |-> <<>>]

\* Start without assertNoRunningCycleForTaskInTx.
StartCycleUnguarded(t) ==
    /\ Len(cycles[t]) < MaxAttempts
    /\ cycles' = [cycles EXCEPT ![t] = Append(@, NewCycle)]

StartCycle(t) ==
    /\ ~HasRunningCycle(t)
    /\ Len(cycles[t]) < MaxAttempts
    /\ cycles' = [cycles EXCEPT ![t] = Append(@, NewCycle)]

NewPhase(kind) == [kind |-> kind, status |-> "running"]

\* StartPhase that does not look at the cycle's own status.
StartPhaseAfterClose(t, a, kind) ==
    /\ ~HasRunningPhase(t, a)
    /\ MayAppend(cycles[t][a].phases, kind)
    /\ Len(cycles[t][a].phases) < MaxPhases
    /\ cycles' = [cycles EXCEPT ![t][a].phases = Append(@, NewPhase(kind))]

\* StartPhase without assertNoRunningPhaseForCycleInTx.
StartPhaseOverlapping(t, a, kind) ==
    /\ cycles[t][a].status = "running"
    /\ MayAppend(cycles[t][a].phases, kind)
    /\ Len(cycles[t][a].phases) < MaxPhases
    /\ cycles' = [cycles EXCEPT ![t][a].phases = Append(@, NewPhase(kind))]

\* StartPhase without the transition check.
StartPhaseAnyKind(t, a, kind) ==
    /\ cycles[t][a].status = "running"
    /\ ~HasRunningPhase(t, a)
    /\ Len(cycles[t][a].phases) < MaxPhases
    /\ cycles' = [cycles EXCEPT ![t][a].phases = Append(@, NewPhase(kind))]

StartPhase(t, a, kind) ==
    /\ cycles[t][a].status = "running"
    /\ ~HasRunningPhase(t, a)
    /\ MayAppend(cycles[t][a].phases, kind)
    /\ Len(cycles[t][a].phases) < MaxPhases
    /\ cycles' = [cycles EXCEPT ![t][a].phases = Append(@, NewPhase(kind))]

\* CompletePhase that accepts a phase already closed.
CompletePhaseAgain(t, a, p, status) ==
    cycles' = [cycles EXCEPT ![t][a].phases[p].status = status]

\* CompletePhase, also the body of FinalizeInterruptedPhases (status
\* "interrupted").  It does not look at the status of the cycle.
CompletePhase(t, a, p, status) ==
    /\ cycles[t][a].phases[p].status = "running"
    /\ cycles' = [cycles EXCEPT ![t][a].phases[p].status = status]

\* Terminate that takes a terminal status of the other enum.
TerminateAsSkipped(t, a, status) ==
    /\ cycles[t][a].status = "running"
    /\ ~HasRunningPhase(t, a)
    /\ cycles' = [cycles EXCEPT ![t][a].status = "skipped"]

Terminate(t, a, status) ==
    /\ cycles[t][a].status = "running"
    /\ ~HasRunningPhase(t, a)
    /\ cycles' = [cycles EXCEPT ![t][a].status = status]

-----------------------------------------------------------------------------
CycleStep(t, a) ==
    \/ \E kind \in PhaseKinds : StartPhase(t, a, kind)
    \/ \E p \in DOMAIN cycles[t][a].phases, status \in TerminalPhaseStatus :
          CompletePhase(t, a, p, status)
    \/ \E status \in TerminalCycleStatus : Terminate(t, a, status)

Next ==
    \E t \in Tasks :
        \/ StartCycle(t)
        \/ \E a \in DOMAIN cycles[t] : CycleStep(t, a)

Spec == Init /\ [][Next]_cycles

-----------------------------------------------------------------------------
TypeOK == cycles \in [Tasks -> Seq(CycleRow)]

(* docs/data-model.md, store invariants: at most one running cycle per task. *)
(* Start appends only when nothing runs, so the running one is the newest.   *)
OnlyLatestCycleRuns ==
    \A t \in Tasks : \A a \in DOMAIN cycles[t] :
        cycles[t][a].status = "running" => a = Len(cycles[t])

(* At most one running phase per cycle, and it is the newest.                *)
OnlyLatestPhaseRuns ==
    \A t \in Tasks : \A a \in DOMAIN cycles[t] : \A p \in DOMAIN cycles[t][a].phases :
        cycles[t][a].phases[p].status = "running" => p = Len(cycles[t][a].phases)

(* Terminate refuses a cycle with a running phase and StartPhase a terminal  *)
(* cycle: together, no phase runs under a closed attempt.                    *)
ClosedCycleIsQuiet ==
    \A t \in Tasks : \A a \in DOMAIN cycles[t] :
        cycles[t][a].status # "running" => ~HasRunningPhase(t, a)

(* Every attempt reads as a path of the phase machine in                     *)
(* domain/cycle_state.go: it opens with execute, and each later phase is     *)
(* allowed by the final row before it (not only by the row as it stood when  *)
(* the phase was opened).                                                    *)
PhasesFollowTheMachine ==
    \A t \in Tasks : \A a \in DOMAIN cycles[t] : \A p \in DOMAIN cycles[t][a].phases :
        MayAppend(SubSeq(cycles[t][a].phases, 1, p - 1), cycles[t][a].phases[p].kind)

\* A step from row to new changes nothing that is closed.
KeepsClosed(row, new) ==
    /\ row.status # "running" => new.status = row.status
    /\ \A p \in DOMAIN row.phases :
          row.phases[p].status # "running" =>
             p \in DOMAIN new.phases /\ new.phases[p] = row.phases[p]

KeepsClosedRows ==
    \A t \in Tasks : \A a \in DOMAIN cycles[t] :
        a \in DOMAIN cycles'[t] /\ KeepsClosed(cycles[t][a], cycles'[t][a])

(* docs/data-model.md: "Terminal rows are read-only".  No call changes the   *)
(* status of a closed attempt, or a closed phase, or removes a row.          *)
ClosedRowsAreFrozen == [][KeepsClosedRows]_cycles
=============================================================================

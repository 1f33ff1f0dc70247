--------------------------- MODULE CycleLedgerTx ---------------------------
(* The store calls of CycleLedger as the SQL transactions they are, under    *)
(* READ COMMITTED: every statement reads the committed rows of its own       *)
(* instant, and what a transaction writes shows at its commit.  None of the  *)
(* reads takes a lock.  Two things make concurrent transactions wait: the    *)
(* unique indexes on (task_id, attempt_seq) and (cycle_id, phase_seq) block  *)
(* an insert of a key another transaction has inserted and not committed,    *)
(* and an UPDATE locks its row until its transaction ends.                   *)
(*                                                                           *)
(* The lock NextEventSeq takes on the task row, after the guards, falls      *)
(* between the write and the commit and orders commits only; it is part of   *)
(* the commit step.                                                          *)
EXTENDS CycleLedger

CONSTANTS
    Writers,        \* worker slots and HTTP handlers, one call at a time each
    PhaseOutcomes,  \* terminal phase statuses the callers ask for
    CycleOutcomes   \* terminal cycle statuses the callers ask for

ASSUME OutcomesAssumption ==
    PhaseOutcomes \subseteq TerminalPhaseStatus /\ CycleOutcomes \subseteq TerminalCycleStatus

VARIABLES
    tx,         \* tx[w]: the transaction w has open
    turns       \* tasks whose callers take turns; fixed throughout a behaviour

txvars == <<cycles, tx, turns>>

NoTx == [op |-> "none"]

\* at: the statement the transaction runs next; seq: the key it has computed.
OpenTx(w) == tx[w].op # "none"
At(w, op, stmt) == tx[w].op = op /\ tx[w].at = stmt

TxInit ==
    /\ Init
    /\ tx = [w \in Writers |-> NoTx]
    /\ turns \in SUBSET Tasks

-----------------------------------------------------------------------------
(* Opening a transaction.                                                    *)

Begin(w, op, t, a, p, arg, first) ==
    /\ ~OpenTx(w)
    /\ t \in turns => \A v \in Writers : OpenTx(v) => tx[v].t # t
    /\ tx' = [tx EXCEPT ![w] = [op |-> op, t |-> t, a |-> a, p |-> p,
                                arg |-> arg, at |-> first, seq |-> 0]]
    /\ UNCHANGED cycles

BeginCall(w, t) ==
    \/ Begin(w, "start", t, 0, 0, "none", "noRunning")
    \/ \E a \in DOMAIN cycles[t] :
         \/ \E kind \in PhaseKinds : Begin(w, "startPhase", t, a, 0, kind, "load")
         \/ \E p \in DOMAIN cycles[t][a].phases, status \in PhaseOutcomes :
               Begin(w, "complete", t, a, p, status, "load")
         \/ \E status \in CycleOutcomes :
               Begin(w, "terminate", t, a, 0, status, "load")

\* An error return of the closure, a cancelled context or a lost connection.
\* A statement whose check fails can only roll back.
Rollback(w) ==
    /\ OpenTx(w)
    /\ tx' = [tx EXCEPT ![w] = NoTx]
    /\ UNCHANGED cycles

Step(w, stmt) == tx' = [tx EXCEPT ![w].at = stmt] /\ UNCHANGED cycles

StepWithSeq(w, stmt, n) ==
    /\ tx' = [tx EXCEPT ![w].at = stmt, ![w].seq = n]
    /\ UNCHANGED cycles

\* Another open transaction has inserted this key, or holds this row's lock.
KeyHeld(w) ==
    \E v \in Writers \ {w} :
        /\ OpenTx(v)
        /\ tx[v].at = "commit"
        /\ <<tx[v].op, tx[v].t, tx[v].a, tx[v].p, tx[v].seq>>
              = <<tx[w].op, tx[w].t, tx[w].a, tx[w].p, tx[w].seq>>

-----------------------------------------------------------------------------
(* Start: count running cycles, max + 1, insert.                             *)

StartNoRunning(w) ==
    /\ At(w, "start", "noRunning")
    /\ ~HasRunningCycle(tx[w].t)
    /\ Step(w, "nextSeq")

StartNextSeq(w) ==
    /\ At(w, "start", "nextSeq")
    /\ Len(cycles[tx[w].t]) < MaxAttempts
    /\ StepWithSeq(w, "insert", Len(cycles[tx[w].t]) + 1)

\* The insert without the unique index.
StartInsertNoIndex(w) ==
    /\ At(w, "start", "insert")
    /\ Step(w, "commit")

StartInsert(w) ==
    /\ At(w, "start", "insert")
    /\ tx[w].seq > Len(cycles[tx[w].t])     \* unique (task_id, attempt_seq)
    /\ ~KeyHeld(w)
    /\ Step(w, "commit")

StartCommit(w) ==
    /\ At(w, "start", "commit")
    /\ cycles' = [cycles EXCEPT ![tx[w].t] = Append(@, NewCycle)]
    /\ tx' = [tx EXCEPT ![w] = NoTx]

(* StartPhase: load the cycle, count running phases, read the last phase,    *)
(* max + 1, insert.                                                          *)

Phases(w) == cycles[tx[w].t][tx[w].a].phases

PhaseLoad(w) ==
    /\ At(w, "startPhase", "load")
    /\ cycles[tx[w].t][tx[w].a].status = "running"
    /\ Step(w, "noRunning")

PhaseNoRunning(w) ==
    /\ At(w, "startPhase", "noRunning")
    /\ ~HasRunningPhase(tx[w].t, tx[w].a)
    /\ Step(w, "last")

\* StartPhase without the transition check.
PhaseAnyTransition(w) ==
    /\ At(w, "startPhase", "last")
    /\ Step(w, "nextSeq")

PhaseLast(w) ==
    /\ At(w, "startPhase", "last")
    /\ MayAppend(Phases(w), tx[w].arg)
    /\ Step(w, "nextSeq")

PhaseNextSeq(w) ==
    /\ At(w, "startPhase", "nextSeq")
    /\ Len(Phases(w)) < MaxPhases
    /\ StepWithSeq(w, "insert", Len(Phases(w)) + 1)

PhaseInsert(w) ==
    /\ At(w, "startPhase", "insert")
    /\ tx[w].seq > Len(Phases(w))           \* unique (cycle_id, phase_seq)
    /\ ~KeyHeld(w)
    /\ Step(w, "commit")

PhaseCommit(w) ==
    /\ At(w, "startPhase", "commit")
    /\ cycles' = [cycles EXCEPT ![tx[w].t][tx[w].a].phases = Append(@, NewPhase(tx[w].arg))]
    /\ tx' = [tx EXCEPT ![w] = NoTx]

(* CompletePhase: load the phase, UPDATE ... WHERE id = ?  The WHERE clause  *)
(* does not repeat the status, so an UPDATE that waited for another one      *)
(* overwrites it.                                                            *)

CompleteLoad(w) ==
    /\ At(w, "complete", "load")
    /\ Phases(w)[tx[w].p].status = "running"
    /\ Step(w, "update")

CompleteUpdate(w) ==
    /\ At(w, "complete", "update")
    /\ ~KeyHeld(w)
    /\ Step(w, "commit")

CompleteCommit(w) ==
    /\ At(w, "complete", "commit")
    /\ cycles' = [cycles EXCEPT ![tx[w].t][tx[w].a].phases[tx[w].p].status = tx[w].arg]
    /\ tx' = [tx EXCEPT ![w] = NoTx]

(* Terminate: load the cycle, count running phases, UPDATE ... WHERE id = ?  *)

TerminateLoad(w) ==
    /\ At(w, "terminate", "load")
    /\ cycles[tx[w].t][tx[w].a].status = "running"
    /\ Step(w, "noRunning")

TerminateNoRunning(w) ==
    /\ At(w, "terminate", "noRunning")
    /\ ~HasRunningPhase(tx[w].t, tx[w].a)
    /\ Step(w, "update")

TerminateUpdate(w) ==
    /\ At(w, "terminate", "update")
    /\ ~KeyHeld(w)
    /\ Step(w, "commit")

TerminateCommit(w) ==
    /\ At(w, "terminate", "commit")
    /\ cycles' = [cycles EXCEPT ![tx[w].t][tx[w].a].status = tx[w].arg]
    /\ tx' = [tx EXCEPT ![w] = NoTx]

-----------------------------------------------------------------------------
Statement(w) ==
    \/ StartNoRunning(w) \/ StartNextSeq(w) \/ StartInsert(w) \/ StartCommit(w)
    \/ PhaseLoad(w) \/ PhaseNoRunning(w) \/ PhaseLast(w) \/ PhaseNextSeq(w)
    \/ PhaseInsert(w) \/ PhaseCommit(w)
    \/ CompleteLoad(w) \/ CompleteUpdate(w) \/ CompleteCommit(w)
    \/ TerminateLoad(w) \/ TerminateNoRunning(w) \/ TerminateUpdate(w)
    \/ TerminateCommit(w)

TxNext ==
    /\ \E w \in Writers :
          \/ \E t \in Tasks : BeginCall(w, t)
          \/ Rollback(w)
          \/ Statement(w)
    /\ UNCHANGED turns

TxSpec == TxInit /\ [][TxNext]_txvars

-----------------------------------------------------------------------------
\* The rows of the tasks whose callers take turns.
Orderly == INSTANCE CycleLedger
    WITH cycles <- [t \in Tasks |-> IF t \in turns THEN cycles[t] ELSE <<>>]

(* When the callers of a task take turns, the statement-by-statement calls   *)
(* are the atomic calls of CycleLedger, whatever rolls back in between.      *)
ImplementsLedger == Orderly!Spec

(* Whatever the callers do, an insert that reaches its commit lands at the   *)
(* end: max + 1 under the unique index leaves no gap and no duplicate in     *)
(* attempt_seq and phase_seq (docs/data-model.md, store invariants).         *)
InsertLandsNext ==
    \A w \in Writers :
        /\ At(w, "start", "commit") => tx[w].seq = Len(cycles[tx[w].t]) + 1
        /\ At(w, "startPhase", "commit") => tx[w].seq = Len(Phases(w)) + 1

(* docs/data-model.md: "At most one running cycle per task."                 *)
AtMostOneRunningCycle ==
    \A t \in Tasks : \A a, b \in DOMAIN cycles[t] :
        cycles[t][a].status = "running" /\ cycles[t][b].status = "running" => a = b
=============================================================================

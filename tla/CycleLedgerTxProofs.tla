------------------------ MODULE CycleLedgerTxProofs ------------------------
(* Proofs about CycleLedgerTx for every set of tasks and writers and every   *)
(* bound: what the unique indexes give to everybody, and what taking turns   *)
(* gives on top, namely the atomic calls of CycleLedger.                     *)
EXTENDS CycleLedgerTx, CycleLedgerProofs

Stmt == {"noRunning", "nextSeq", "insert", "load", "last", "update", "commit"}
Call == [op : {"start", "startPhase", "complete", "terminate"}, t : Tasks, a : Nat, p : Nat,
         arg : {"none"} \cup PhaseKinds \cup PhaseOutcomes \cup CycleOutcomes,
         at : Stmt, seq : Nat]

TxTypeOK == TypeOK /\ tx \in [Writers -> Call \cup {NoTx}] /\ turns \subseteq Tasks

\* An open call speaks of rows that exist.
CallOK(w) ==
    /\ tx[w].op = "start" =>
          tx[w].a = 0 /\ tx[w].p = 0 /\ tx[w].at \notin {"load", "last", "update"}
    /\ tx[w].op # "start" => tx[w].a \in DOMAIN cycles[tx[w].t]
    /\ tx[w].op = "startPhase" =>
          tx[w].p = 0 /\ tx[w].arg \in PhaseKinds /\ tx[w].at # "update"
    /\ tx[w].op = "complete" =>
          /\ tx[w].p \in DOMAIN Phases(w) /\ tx[w].arg \in PhaseOutcomes
          /\ tx[w].at \in {"load", "update", "commit"}
    /\ tx[w].op = "terminate" =>
          /\ tx[w].arg \in CycleOutcomes
          /\ tx[w].at \in {"load", "noRunning", "update", "commit"}

\* The key a call has computed is at most the next one, and is the next one
\* from the insert on.
SeqOK(w) ==
    /\ At(w, "start", "insert") => tx[w].seq <= Len(cycles[tx[w].t]) + 1
    /\ At(w, "start", "commit") => tx[w].seq = Len(cycles[tx[w].t]) + 1
    /\ At(w, "startPhase", "insert") => tx[w].seq <= Len(Phases(w)) + 1
    /\ At(w, "startPhase", "commit") => tx[w].seq = Len(Phases(w)) + 1

\* What a call has read still holds.
Checked(w) ==
    /\ tx[w].op = "start" =>
          /\ tx[w].at \in {"nextSeq", "insert", "commit"} => ~HasRunningCycle(tx[w].t)
          /\ tx[w].at \in {"insert", "commit"} => Len(cycles[tx[w].t]) < MaxAttempts
    /\ tx[w].op \in {"startPhase", "terminate"} /\ tx[w].at # "load" =>
          cycles[tx[w].t][tx[w].a].status = "running"
    /\ \/ tx[w].op = "startPhase" /\ tx[w].at \in {"last", "nextSeq", "insert", "commit"}
       \/ tx[w].op = "terminate" /\ tx[w].at \in {"update", "commit"}
       => ~HasRunningPhase(tx[w].t, tx[w].a)
    /\ tx[w].op = "startPhase" =>
          /\ tx[w].at \in {"nextSeq", "insert", "commit"} => MayAppend(Phases(w), tx[w].arg)
          /\ tx[w].at \in {"insert", "commit"} => Len(Phases(w)) < MaxPhases
    /\ tx[w].op = "complete" /\ tx[w].at # "load" => Phases(w)[tx[w].p].status = "running"

WriterOK(w) ==
    OpenTx(w) => CallOK(w) /\ SeqOK(w) /\ (tx[w].t \in turns => Checked(w))

Key(w) == <<tx[w].op, tx[w].t, tx[w].a, tx[w].p, tx[w].seq>>
Commits(w) == OpenTx(w) /\ tx[w].at = "commit"

KeysDiffer ==
    \A v, w \in Writers : Commits(v) /\ Commits(w) /\ Key(v) = Key(w) => v = w

TurnsAreTaken ==
    \A v, w \in Writers :
        OpenTx(v) /\ OpenTx(w) /\ tx[v].t = tx[w].t /\ tx[v].t \in turns => v = w

TxInv == TxTypeOK /\ (\A w \in Writers : WriterOK(w)) /\ KeysDiffer /\ TurnsAreTaken

-----------------------------------------------------------------------------
(* What a step does to the call of its writer.                               *)

OnlyWriter(w) ==
    tx' \in [Writers -> Call \cup {NoTx}] /\ \A v \in Writers : v # w => tx'[v] = tx[v]

SameCall(w) ==
    /\ tx'[w].op = tx[w].op /\ tx'[w].t = tx[w].t /\ tx'[w].a = tx[w].a
    /\ tx'[w].p = tx[w].p /\ tx'[w].arg = tx[w].arg

LEMMA OpenCall ==
    ASSUME TxTypeOK, NEW w \in Writers, OpenTx(w)
    PROVE  /\ tx[w] \in Call
           /\ tx[w].op \in {"start", "startPhase", "complete", "terminate"}
           /\ tx[w].t \in Tasks /\ tx[w].a \in Nat /\ tx[w].p \in Nat
           /\ tx[w].at \in Stmt /\ tx[w].seq \in Nat
  BY DEF TxTypeOK, OpenTx, NoTx, Call

LEMMA NoCall == NoTx.op = "none"
  BY DEF NoTx

LEMMA StepMoves ==
    ASSUME TxTypeOK, NEW w \in Writers, OpenTx(w), NEW stmt \in Stmt, Step(w, stmt)
    PROVE  /\ OnlyWriter(w) /\ SameCall(w) /\ UNCHANGED cycles
           /\ tx'[w].at = stmt /\ tx'[w].seq = tx[w].seq
<1>1. tx[w] \in Call
  BY OpenCall
<1>2. tx' = [tx EXCEPT ![w] = [tx[w] EXCEPT !.at = stmt]] /\ UNCHANGED cycles
  BY DEF Step
<1>3. [tx[w] EXCEPT !.at = stmt] \in Call
  BY <1>1 DEF Call
<1> QED
  BY <1>1, <1>2, <1>3 DEF OnlyWriter, SameCall, TxTypeOK, Call

LEMMA StepWithSeqMoves ==
    ASSUME TxTypeOK, NEW w \in Writers, OpenTx(w), NEW stmt \in Stmt, NEW n \in Nat,
           StepWithSeq(w, stmt, n)
    PROVE  /\ OnlyWriter(w) /\ SameCall(w) /\ UNCHANGED cycles
           /\ tx'[w].at = stmt /\ tx'[w].seq = n
<1>1. tx[w] \in Call
  BY OpenCall
<1>2. tx' = [tx EXCEPT ![w] = [tx[w] EXCEPT !.at = stmt, !.seq = n]] /\ UNCHANGED cycles
  BY DEF StepWithSeq
<1>3. [tx[w] EXCEPT !.at = stmt, !.seq = n] \in Call
  BY <1>1 DEF Call
<1> QED
  BY <1>1, <1>2, <1>3 DEF OnlyWriter, SameCall, TxTypeOK, Call

LEMMA CloseMoves ==
    ASSUME TxTypeOK, NEW w \in Writers, tx' = [tx EXCEPT ![w] = NoTx]
    PROVE  OnlyWriter(w) /\ ~OpenTx(w)'
  BY NoCall DEF OnlyWriter, TxTypeOK, OpenTx

\* The statements between the begin and the commit of a call: they read
\* committed rows, and write none that anybody sees.
Reads(w) ==
    \/ StartNoRunning(w) \/ StartNextSeq(w) \/ StartInsert(w)
    \/ PhaseLoad(w) \/ PhaseNoRunning(w) \/ PhaseLast(w) \/ PhaseNextSeq(w) \/ PhaseInsert(w)
    \/ CompleteLoad(w) \/ CompleteUpdate(w)
    \/ TerminateLoad(w) \/ TerminateNoRunning(w) \/ TerminateUpdate(w)

LEMMA LedgerLengths ==
    ASSUME TypeOK, NEW t \in Tasks
    PROVE  /\ cycles[t] \in Seq(CycleRow) /\ Len(cycles[t]) \in Nat
           /\ DOMAIN cycles[t] = 1..Len(cycles[t])
           /\ \A a \in DOMAIN cycles[t] :
                 /\ cycles[t][a] \in CycleRow /\ cycles[t][a].phases \in Seq(PhaseRow)
                 /\ Len(cycles[t][a].phases) \in Nat
                 /\ DOMAIN cycles[t][a].phases = 1..Len(cycles[t][a].phases)
<1>1. cycles[t] \in Seq(CycleRow)
  BY DEF TypeOK
<1>2. \A a \in DOMAIN cycles[t] : cycles[t][a] \in CycleRow
  BY <1>1
<1>3. \A a \in DOMAIN cycles[t] : cycles[t][a].phases \in Seq(PhaseRow)
  BY <1>2 DEF CycleRow
<1> QED
  BY <1>1, <1>2, <1>3

\* A writer that did not move, and the rows of whose call did not either.
LEMMA StillWriter ==
    ASSUME NEW w \in Writers, WriterOK(w), tx'[w] = tx[w], UNCHANGED <<cycles, turns>>
    PROVE  WriterOK(w)'
  BY DEF WriterOK, CallOK, SeqOK, Checked, OpenTx, At, Phases, HasRunningCycle,
         HasRunningPhase, MayAppend, ValidPhaseTransition, ValidInterruptResumeTransition,
         ValidVerifyOnlyRetryTransition

\* What a call must have read before its next statement is at.
Reached(w, at, seq) ==
    /\ tx[w].op = "start" =>
          /\ at \notin {"load", "last", "update"}
          /\ at = "insert" => seq <= Len(cycles[tx[w].t]) + 1
          /\ at = "commit" => seq = Len(cycles[tx[w].t]) + 1
    /\ tx[w].op = "startPhase" =>
          /\ at # "update"
          /\ at = "insert" => seq <= Len(Phases(w)) + 1
          /\ at = "commit" => seq = Len(Phases(w)) + 1
    /\ tx[w].op = "complete" => at \in {"load", "update", "commit"}
    /\ tx[w].op = "terminate" => at \in {"load", "noRunning", "update", "commit"}

ReachedInTurn(w, at) ==
    /\ tx[w].op = "start" =>
          /\ at \in {"nextSeq", "insert", "commit"} => ~HasRunningCycle(tx[w].t)
          /\ at \in {"insert", "commit"} => Len(cycles[tx[w].t]) < MaxAttempts
    /\ tx[w].op \in {"startPhase", "terminate"} /\ at # "load" =>
          cycles[tx[w].t][tx[w].a].status = "running"
    /\ \/ tx[w].op = "startPhase" /\ at \in {"last", "nextSeq", "insert", "commit"}
       \/ tx[w].op = "terminate" /\ at \in {"update", "commit"}
       => ~HasRunningPhase(tx[w].t, tx[w].a)
    /\ tx[w].op = "startPhase" =>
          /\ at \in {"nextSeq", "insert", "commit"} => MayAppend(Phases(w), tx[w].arg)
          /\ at \in {"insert", "commit"} => Len(Phases(w)) < MaxPhases
    /\ tx[w].op = "complete" /\ at # "load" => Phases(w)[tx[w].p].status = "running"

LEMMA ReachedWriter ==
    ASSUME NEW w \in Writers, OpenTx(w), CallOK(w), SameCall(w), UNCHANGED <<cycles, turns>>,
           Reached(w, tx'[w].at, tx'[w].seq),
           tx[w].t \in turns => ReachedInTurn(w, tx'[w].at)
    PROVE  OpenTx(w)' /\ WriterOK(w)'
<1>1. /\ tx'[w].op = tx[w].op /\ tx'[w].t = tx[w].t /\ tx'[w].a = tx[w].a
      /\ tx'[w].p = tx[w].p /\ tx'[w].arg = tx[w].arg
  BY DEF SameCall
<1>2. CallOK(w)'
  BY <1>1 DEF CallOK, Reached, Phases
<1>3. SeqOK(w)'
  BY <1>1 DEF SeqOK, At, Reached, Phases
<1>4. ASSUME tx[w].t \in turns PROVE Checked(w)'
  BY <1>1, <1>4
  DEF Checked, ReachedInTurn, Phases, HasRunningCycle, HasRunningPhase, MayAppend,
      ValidPhaseTransition, ValidInterruptResumeTransition, ValidVerifyOnlyRetryTransition
<1> QED
  BY <1>1, <1>2, <1>3, <1>4 DEF WriterOK, OpenTx

\* A call that advances keeps what it needs, and holds its key if it is to commit.
Advances(w) ==
    /\ OnlyWriter(w) /\ SameCall(w) /\ UNCHANGED cycles /\ OpenTx(w) /\ OpenTx(w)'
    /\ WriterOK(w)'
    /\ Commits(w)' => ~KeyHeld(w) /\ tx'[w].seq = tx[w].seq

LEMMA ReadsWriter ==
    ASSUME TxInv, NEW w \in Writers, Reads(w), UNCHANGED turns
    PROVE  Advances(w)
<1>1. OpenTx(w)
  BY DEF Reads, OpenTx, At, StartNoRunning, StartNextSeq, StartInsert, PhaseLoad,
         PhaseNoRunning, PhaseLast, PhaseNextSeq, PhaseInsert, CompleteLoad, CompleteUpdate,
         TerminateLoad, TerminateNoRunning, TerminateUpdate
<1>2. /\ CallOK(w) /\ SeqOK(w) /\ (tx[w].t \in turns => Checked(w))
      /\ TxTypeOK /\ tx[w].t \in Tasks /\ tx[w].seq \in Nat /\ Len(cycles[tx[w].t]) \in Nat
  BY <1>1, OpenCall, LedgerLengths DEF TxInv, WriterOK, TxTypeOK
<1>3. tx[w].op # "start" => Len(Phases(w)) \in Nat
  BY <1>2, LedgerLengths DEF CallOK, Phases, TxTypeOK
<1>4. ASSUME NEW at \in Stmt, Step(w, at), Reached(w, at, tx[w].seq),
             tx[w].t \in turns => ReachedInTurn(w, at),
             at = "commit" => ~KeyHeld(w)
      PROVE  Advances(w)
  <2>1. /\ OnlyWriter(w) /\ SameCall(w) /\ UNCHANGED cycles
        /\ tx'[w].at = at /\ tx'[w].seq = tx[w].seq
    BY <1>1, <1>2, <1>4, StepMoves
  <2>2. OpenTx(w)' /\ WriterOK(w)'
    BY <1>1, <1>2, <1>4, <2>1, ReachedWriter
  <2> QED
    BY <1>1, <1>4, <2>1, <2>2 DEF Advances, Commits
<1>5. ASSUME NEW at \in Stmt, at # "commit", NEW n \in Nat, StepWithSeq(w, at, n),
             Reached(w, at, n), tx[w].t \in turns => ReachedInTurn(w, at)
      PROVE  Advances(w)
  <2>1. /\ OnlyWriter(w) /\ SameCall(w) /\ UNCHANGED cycles
        /\ tx'[w].at = at /\ tx'[w].seq = n
    BY <1>1, <1>2, <1>5, StepWithSeqMoves
  <2>2. OpenTx(w)' /\ WriterOK(w)'
    BY <1>1, <1>2, <1>5, <2>1, ReachedWriter
  <2> QED
    BY <1>1, <1>5, <2>1, <2>2 DEF Advances, Commits
<1>6. Stmt = {"noRunning", "nextSeq", "insert", "load", "last", "update", "commit"}
  BY DEF Stmt
<1>7. CASE StartNoRunning(w)
  BY <1>2, <1>4, <1>6, <1>7 DEF StartNoRunning, At, Reached, ReachedInTurn, Checked
<1>8. CASE StartNextSeq(w)
  BY <1>2, <1>5, <1>6, <1>8 DEF StartNextSeq, At, Reached, ReachedInTurn, Checked
<1>9. CASE StartInsert(w)
  BY <1>2, <1>4, <1>6, <1>9 DEF StartInsert, At, Reached, ReachedInTurn, Checked, SeqOK
<1>10. CASE PhaseLoad(w)
  BY <1>2, <1>4, <1>6, <1>10 DEF PhaseLoad, At, Reached, ReachedInTurn, Checked
<1>11. CASE PhaseNoRunning(w)
  BY <1>2, <1>4, <1>6, <1>11 DEF PhaseNoRunning, At, Reached, ReachedInTurn, Checked
<1>12. CASE PhaseLast(w)
  BY <1>2, <1>4, <1>6, <1>12 DEF PhaseLast, At, Reached, ReachedInTurn, Checked
<1>13. CASE PhaseNextSeq(w)
  BY <1>2, <1>3, <1>5, <1>6, <1>13 DEF PhaseNextSeq, At, Reached, ReachedInTurn, Checked
<1>14. CASE PhaseInsert(w)
  BY <1>2, <1>3, <1>4, <1>6, <1>14 DEF PhaseInsert, At, Reached, ReachedInTurn, Checked, SeqOK
<1>15. CASE CompleteLoad(w)
  BY <1>2, <1>4, <1>6, <1>15 DEF CompleteLoad, At, Reached, ReachedInTurn, Checked
<1>16. CASE CompleteUpdate(w)
  BY <1>2, <1>4, <1>6, <1>16 DEF CompleteUpdate, At, Reached, ReachedInTurn, Checked
<1>17. CASE TerminateLoad(w)
  BY <1>2, <1>4, <1>6, <1>17 DEF TerminateLoad, At, Reached, ReachedInTurn, Checked
<1>18. CASE TerminateNoRunning(w)
  BY <1>2, <1>4, <1>6, <1>18 DEF TerminateNoRunning, At, Reached, ReachedInTurn, Checked
<1>19. CASE TerminateUpdate(w)
  BY <1>2, <1>4, <1>6, <1>19 DEF TerminateUpdate, At, Reached, ReachedInTurn, Checked
<1> QED
  BY <1>7, <1>8, <1>9, <1>10, <1>11, <1>12, <1>13, <1>14, <1>15, <1>16, <1>17, <1>18, <1>19
  DEF Reads

-----------------------------------------------------------------------------
(* What a commit does to the rows.                                           *)

CommitStep(w) == StartCommit(w) \/ PhaseCommit(w) \/ CompleteCommit(w) \/ TerminateCommit(w)

Extra(condition) == IF condition THEN 1 ELSE 0

\* Rows of other tasks stay, none is removed, and only an insert adds one.
RowsAfter(w) ==
    /\ TypeOK'
    /\ \A t \in Tasks :
          /\ t # tx[w].t => cycles'[t] = cycles[t]
          /\ Len(cycles'[t]) = Len(cycles[t]) + Extra(tx[w].op = "start" /\ t = tx[w].t)
          /\ \A a \in DOMAIN cycles[t] :
                Len(cycles'[t][a].phases) = Len(cycles[t][a].phases)
                   + Extra(tx[w].op = "startPhase" /\ t = tx[w].t /\ a = tx[w].a)

\* One task's rows are replaced.
LEMMA TaskUpdate ==
    ASSUME TypeOK, NEW t \in Tasks, NEW u \in Seq(CycleRow),
           cycles' = [cycles EXCEPT ![t] = u]
    PROVE  TypeOK' /\ cycles'[t] = u /\ \A v \in Tasks : v # t => cycles'[v] = cycles[v]
<1>1. cycles' \in [Tasks -> Seq(CycleRow)]
  BY DEF TypeOK
<1>2. cycles'[t] = u /\ \A v \in Tasks : v # t => cycles'[v] = cycles[v]
  BY DEF TypeOK
<1> QED
  BY <1>1, <1>2 DEF TypeOK

LEMMA RowUpdate ==
    ASSUME TypeOK, NEW t \in Tasks, NEW a \in DOMAIN cycles[t], NEW new \in CycleRow,
           cycles' = [cycles EXCEPT ![t] = [cycles[t] EXCEPT ![a] = new]]
    PROVE  /\ TypeOK'
           /\ \A v \in Tasks : v # t => cycles'[v] = cycles[v]
           /\ Len(cycles'[t]) = Len(cycles[t]) /\ DOMAIN cycles'[t] = DOMAIN cycles[t]
           /\ \A b \in DOMAIN cycles[t] : cycles'[t][b] = IF b = a THEN new ELSE cycles[t][b]
<1> DEFINE u == [cycles[t] EXCEPT ![a] = new]
<1>1. /\ u \in Seq(CycleRow) /\ Len(u) = Len(cycles[t]) /\ DOMAIN u = DOMAIN cycles[t]
      /\ u[a] = new /\ \A j \in DOMAIN cycles[t] : j # a => u[j] = cycles[t][j]
  BY LedgerLengths, UpdateElement
<1> HIDE DEF u
<1>2. cycles' = [cycles EXCEPT ![t] = u]
  BY DEF u
<1>3. TypeOK' /\ cycles'[t] = u /\ \A v \in Tasks : v # t => cycles'[v] = cycles[v]
  BY <1>1, <1>2, TaskUpdate
<1> QED
  BY <1>1, <1>3

\* How a commit shows in the lengths, from what it does to its task's rows.
LEMMA RowsAfterCommit ==
    ASSUME TypeOK, TypeOK', NEW w \in Writers, tx[w].t \in Tasks,
           \A v \in Tasks : v # tx[w].t => cycles'[v] = cycles[v],
           Len(cycles'[tx[w].t]) = Len(cycles[tx[w].t]) + Extra(tx[w].op = "start"),
           \A a \in DOMAIN cycles[tx[w].t] :
              Len(cycles'[tx[w].t][a].phases) = Len(cycles[tx[w].t][a].phases)
                 + Extra(tx[w].op = "startPhase" /\ a = tx[w].a)
    PROVE  RowsAfter(w)
<1> SUFFICES ASSUME NEW t \in Tasks
             PROVE  /\ t # tx[w].t => cycles'[t] = cycles[t]
                    /\ Len(cycles'[t]) = Len(cycles[t])
                          + Extra(tx[w].op = "start" /\ t = tx[w].t)
                    /\ \A a \in DOMAIN cycles[t] :
                          Len(cycles'[t][a].phases) = Len(cycles[t][a].phases)
                             + Extra(tx[w].op = "startPhase" /\ t = tx[w].t /\ a = tx[w].a)
  BY DEF RowsAfter
<1>1. CASE t = tx[w].t
  BY <1>1
<1>2. CASE t # tx[w].t
  <2>1. cycles'[t] = cycles[t]
    BY <1>2
  <2>2. Extra(tx[w].op = "start" /\ t = tx[w].t) = 0
    BY <1>2 DEF Extra
  <2>3. \A a : Extra(tx[w].op = "startPhase" /\ t = tx[w].t /\ a = tx[w].a) = 0
    BY <1>2 DEF Extra
  <2>4. Len(cycles[t]) \in Nat /\ \A a \in DOMAIN cycles[t] : Len(cycles[t][a].phases) \in Nat
    BY LedgerLengths
  <2> QED
    BY <1>2, <2>1, <2>2, <2>3, <2>4
<1> QED
  BY <1>1, <1>2

LEMMA StartCommitRows ==
    ASSUME TypeOK, NEW w \in Writers, tx[w].t \in Tasks, StartCommit(w)
    PROVE  RowsAfter(w)
<1> DEFINE s == cycles[tx[w].t]
           u == Append(s, NewCycle)
<1>1. s \in Seq(CycleRow) /\ Len(s) \in Nat /\ NewCycle \in CycleRow
  <2>1. <<>> \in Seq(PhaseRow)
    OBVIOUS
  <2> QED
    BY <2>1, LedgerLengths DEF NewCycle, CycleRow
<1>2. /\ u \in Seq(CycleRow) /\ Len(u) = Len(s) + 1
      /\ \A j \in DOMAIN s : u[j] = s[j]
  BY <1>1, AppendElement
<1>3. cycles' = [cycles EXCEPT ![tx[w].t] = u] /\ tx[w].op = "start"
  BY DEF StartCommit, At
<1> HIDE DEF u
<1>4. /\ TypeOK' /\ cycles'[tx[w].t] = u
      /\ \A v \in Tasks : v # tx[w].t => cycles'[v] = cycles[v]
  BY <1>2, <1>3, TaskUpdate
<1>5. Extra(tx[w].op = "start") = 1
  BY <1>3 DEF Extra
<1>6. \A a : Extra(tx[w].op = "startPhase" /\ a = tx[w].a) = 0
  BY <1>3 DEF Extra
<1>7. \A a \in DOMAIN s : Len(s[a].phases) \in Nat /\ u[a] = s[a]
  BY <1>2, LedgerLengths
<1>8. \A a \in DOMAIN cycles[tx[w].t] :
         Len(cycles'[tx[w].t][a].phases) = Len(cycles[tx[w].t][a].phases)
            + Extra(tx[w].op = "startPhase" /\ a = tx[w].a)
  <2> TAKE a \in DOMAIN cycles[tx[w].t]
  <2>1. Extra(tx[w].op = "startPhase" /\ a = tx[w].a) = 0
    BY <1>6
  <2>2. Len(s[a].phases) \in Nat /\ u[a] = s[a]
    BY <1>7
  <2>3. cycles'[tx[w].t][a] = s[a]
    BY <1>4, <2>2
  <2> QED
    BY <2>1, <2>2, <2>3
<1>9. Len(cycles'[tx[w].t]) = Len(cycles[tx[w].t]) + Extra(tx[w].op = "start")
  BY <1>2, <1>4, <1>5
<1> HIDE DEF s
<1> QED
  BY <1>4, <1>8, <1>9, RowsAfterCommit

LEMMA PhaseCommitRows ==
    ASSUME TypeOK, NEW w \in Writers, tx[w].t \in Tasks, tx[w].a \in DOMAIN cycles[tx[w].t],
           tx[w].arg \in PhaseKinds, PhaseCommit(w)
    PROVE  RowsAfter(w)
<1> DEFINE t == tx[w].t
           a == tx[w].a
           ps == cycles[t][a].phases
           new == [cycles[t][a] EXCEPT !.phases = Append(ps, NewPhase(tx[w].arg))]
<1>1. ps \in Seq(PhaseRow) /\ cycles[t][a] \in CycleRow /\ NewPhase(tx[w].arg) \in PhaseRow
  BY LedgerLengths DEF NewPhase, PhaseRow
<1>2. /\ Append(ps, NewPhase(tx[w].arg)) \in Seq(PhaseRow)
      /\ Len(Append(ps, NewPhase(tx[w].arg))) = Len(ps) + 1
  BY <1>1, AppendElement
<1>3. new \in CycleRow /\ new.phases = Append(ps, NewPhase(tx[w].arg))
  BY <1>1, <1>2 DEF CycleRow
<1>4. cycles' = [cycles EXCEPT ![t] = [cycles[t] EXCEPT ![a] = new]] /\ tx[w].op = "startPhase"
  BY DEF PhaseCommit, At, TypeOK
<1> HIDE DEF new
<1>5. /\ TypeOK' /\ \A v \in Tasks : v # t => cycles'[v] = cycles[v]
      /\ Len(cycles'[t]) = Len(cycles[t])
      /\ \A b \in DOMAIN cycles[t] : cycles'[t][b] = IF b = a THEN new ELSE cycles[t][b]
  BY <1>3, <1>4, RowUpdate, SMTT(15), ZenonT(40)
<1>6. Extra(tx[w].op = "start") = 0
  BY <1>4 DEF Extra
<1>7. \A b \in DOMAIN cycles[t] :
         Len(cycles'[t][b].phases) = Len(cycles[t][b].phases)
            + Extra(tx[w].op = "startPhase" /\ b = tx[w].a)
  <2> TAKE b \in DOMAIN cycles[t]
  <2>1. Extra(tx[w].op = "startPhase" /\ b = tx[w].a) = IF b = a THEN 1 ELSE 0
    BY <1>4 DEF Extra
  <2>2. Len(cycles[t][b].phases) \in Nat
    BY LedgerLengths
  <2>3. cycles'[t][b] = IF b = a THEN new ELSE cycles[t][b]
    BY <1>5
  <2>4. CASE b = a
    BY <1>2, <1>3, <2>1, <2>3, <2>4
  <2>5. CASE b # a
    BY <2>1, <2>2, <2>3, <2>5
  <2> QED
    BY <2>4, <2>5
<1>8. Len(cycles[t]) \in Nat
  BY LedgerLengths
<1> QED
  BY <1>5, <1>6, <1>7, <1>8, RowsAfterCommit

\* An update leaves the number of phases as it was.
LEMMA UpdateRows ==
    ASSUME TypeOK, NEW w \in Writers, tx[w].t \in Tasks, tx[w].a \in DOMAIN cycles[tx[w].t],
           tx[w].op \in {"complete", "terminate"},
           NEW new \in CycleRow, Len(new.phases) = Len(cycles[tx[w].t][tx[w].a].phases),
           cycles' = [cycles EXCEPT ![tx[w].t] = [cycles[tx[w].t] EXCEPT ![tx[w].a] = new]]
    PROVE  RowsAfter(w)
<1>1. /\ TypeOK' /\ \A v \in Tasks : v # tx[w].t => cycles'[v] = cycles[v]
      /\ Len(cycles'[tx[w].t]) = Len(cycles[tx[w].t])
      /\ \A b \in DOMAIN cycles[tx[w].t] :
            cycles'[tx[w].t][b] = IF b = tx[w].a THEN new ELSE cycles[tx[w].t][b]
  BY RowUpdate, SMTT(15), ZenonT(40)
<1>2. Extra(tx[w].op = "start") = 0 /\ \A b : Extra(tx[w].op = "startPhase" /\ b = tx[w].a) = 0
  BY DEF Extra
<1>3. Len(cycles[tx[w].t]) \in Nat
      /\ \A b \in DOMAIN cycles[tx[w].t] : Len(cycles[tx[w].t][b].phases) \in Nat
  BY LedgerLengths
<1>4. Len(cycles'[tx[w].t]) = Len(cycles[tx[w].t]) + Extra(tx[w].op = "start")
  BY <1>1, <1>2, <1>3
<1>5. ASSUME NEW b \in DOMAIN cycles[tx[w].t]
      PROVE  Len(cycles'[tx[w].t][b].phases) = Len(cycles[tx[w].t][b].phases)
                + Extra(tx[w].op = "startPhase" /\ b = tx[w].a)
  <2>1. Len(cycles'[tx[w].t][b].phases) = Len(cycles[tx[w].t][b].phases)
    BY <1>1
  <2> QED
    BY <1>2, <1>3, <2>1
<1> QED
  BY <1>1, <1>4, <1>5, RowsAfterCommit

LEMMA CompletedRow ==
    ASSUME NEW row \in CycleRow, NEW p \in DOMAIN row.phases, NEW status \in TerminalPhaseStatus
    PROVE  LET new == [row EXCEPT !.phases[p].status = status]
           IN  new \in CycleRow /\ Len(new.phases) = Len(row.phases)
<1> DEFINE ps == row.phases
           done == [ps[p] EXCEPT !.status = status]
           new == [row EXCEPT !.phases[p].status = status]
<1>1. ps \in Seq(PhaseRow)
  BY DEF CycleRow
<1>2. ps[p] \in PhaseRow
  BY <1>1
<1>3. done \in PhaseRow
  BY <1>2 DEF PhaseRow
<1>4. [ps EXCEPT ![p] = done] \in Seq(PhaseRow) /\ Len([ps EXCEPT ![p] = done]) = Len(ps)
  BY <1>1, <1>3, UpdateElement
<1>5. new = [row EXCEPT !.phases = [ps EXCEPT ![p] = done]]
  OBVIOUS
<1> HIDE DEF ps, done
<1>6. [row EXCEPT !.phases = [ps EXCEPT ![p] = done]].phases = [ps EXCEPT ![p] = done]
  BY DEF CycleRow
<1>7. [row EXCEPT !.phases = [ps EXCEPT ![p] = done]] \in CycleRow
  BY <1>4 DEF CycleRow
<1> QED
  BY <1>4, <1>5, <1>6, <1>7 DEF ps

LEMMA CommitRows ==
    ASSUME TxInv, NEW w \in Writers, CommitStep(w)
    PROVE  /\ Commits(w) /\ tx[w].t \in Tasks /\ CallOK(w)
           /\ RowsAfter(w) /\ OnlyWriter(w) /\ ~OpenTx(w)'
<1>1. /\ tx[w].at = "commit" /\ tx[w].op \in {"start", "startPhase", "complete", "terminate"}
      /\ tx' = [tx EXCEPT ![w] = NoTx]
  BY DEF CommitStep, StartCommit, PhaseCommit, CompleteCommit, TerminateCommit, At
<1>2. OpenTx(w) /\ Commits(w)
  BY <1>1 DEF OpenTx, Commits
<1>3. CallOK(w) /\ tx[w].t \in Tasks /\ TypeOK /\ TxTypeOK
  BY <1>2, OpenCall DEF TxInv, WriterOK, TxTypeOK
<1>4. OnlyWriter(w) /\ ~OpenTx(w)'
  BY <1>1, <1>3, CloseMoves
<1>5. CASE StartCommit(w)
  BY <1>2, <1>3, <1>4, <1>5, StartCommitRows
<1>6. CASE PhaseCommit(w)
  BY <1>2, <1>3, <1>4, <1>6, PhaseCommitRows DEF PhaseCommit, At, CallOK
<1>7. CASE CompleteCommit(w)
  <2> DEFINE t == tx[w].t
             a == tx[w].a
             new == [cycles[t][a] EXCEPT !.phases[tx[w].p].status = tx[w].arg]
  <2>1. /\ tx[w].op = "complete" /\ a \in DOMAIN cycles[t]
        /\ tx[w].p \in DOMAIN cycles[t][a].phases /\ tx[w].arg \in TerminalPhaseStatus
    BY <1>3, <1>7, OutcomesAssumption DEF CompleteCommit, At, CallOK, Phases
  <2>2. new \in CycleRow /\ Len(new.phases) = Len(cycles[t][a].phases)
    BY <1>3, <2>1, LedgerLengths, CompletedRow
  <2>3. cycles' = [cycles EXCEPT ![t] = [cycles[t] EXCEPT ![a] = new]]
    BY <1>7 DEF CompleteCommit
  <2> HIDE DEF new
  <2> QED
    BY <1>2, <1>3, <1>4, <2>1, <2>2, <2>3, UpdateRows
<1>8. CASE TerminateCommit(w)
  <2> DEFINE t == tx[w].t
             a == tx[w].a
             new == [cycles[t][a] EXCEPT !.status = tx[w].arg]
  <2>1. /\ tx[w].op = "terminate" /\ a \in DOMAIN cycles[t]
        /\ tx[w].arg \in TerminalCycleStatus
    BY <1>3, <1>8, OutcomesAssumption DEF TerminateCommit, At, CallOK
  <2>2. new \in CycleRow /\ Len(new.phases) = Len(cycles[t][a].phases)
    BY <1>3, <2>1, LedgerLengths DEF CycleRow
  <2>3. cycles' = [cycles EXCEPT ![t] = [cycles[t] EXCEPT ![a] = new]]
    BY <1>8 DEF TerminateCommit
  <2> HIDE DEF new
  <2> QED
    BY <1>2, <1>3, <1>4, <2>1, <2>2, <2>3, UpdateRows
<1> QED
  BY <1>5, <1>6, <1>7, <1>8 DEF CommitStep

-----------------------------------------------------------------------------
(* Opening a call.                                                           *)

Opened(w, t) ==
    /\ OnlyWriter(w) /\ UNCHANGED cycles /\ OpenTx(w)' /\ WriterOK(w)' /\ ~Commits(w)'
    /\ tx'[w].t = t
    /\ t \in turns => \A v \in Writers : OpenTx(v) => tx[v].t # t

LEMMA BeginMoves ==
    ASSUME TxTypeOK, NEW w \in Writers, NEW t \in Tasks, NEW a \in Nat, NEW p \in Nat,
           NEW op \in {"start", "startPhase", "complete", "terminate"},
           NEW arg \in {"none"} \cup PhaseKinds \cup PhaseOutcomes \cup CycleOutcomes,
           NEW first \in Stmt, Begin(w, op, t, a, p, arg, first)
    PROVE  /\ OnlyWriter(w) /\ UNCHANGED cycles /\ OpenTx(w)'
           /\ tx'[w] = [op |-> op, t |-> t, a |-> a, p |-> p, arg |-> arg,
                        at |-> first, seq |-> 0]
           /\ t \in turns => \A v \in Writers : OpenTx(v) => tx[v].t # t
<1> DEFINE new == [op |-> op, t |-> t, a |-> a, p |-> p, arg |-> arg, at |-> first, seq |-> 0]
<1>1. new \in Call
  BY DEF Call
<1>2. /\ tx' = [tx EXCEPT ![w] = new] /\ UNCHANGED cycles
      /\ t \in turns => \A v \in Writers : OpenTx(v) => tx[v].t # t
  BY DEF Begin
<1>3. new.op # "none"
  OBVIOUS
<1> HIDE DEF new
<1>4. OnlyWriter(w) /\ tx'[w] = new
  BY <1>1, <1>2 DEF OnlyWriter, TxTypeOK
<1>5. OpenTx(w)'
  BY <1>3, <1>4 DEF OpenTx
<1> QED
  BY <1>2, <1>4, <1>5 DEF new

LEMMA BeginOpens ==
    ASSUME TxInv, NEW w \in Writers, NEW t \in Tasks, BeginCall(w, t), UNCHANGED turns
    PROVE  Opened(w, t)
<1> USE DEF Stmt
<1>1. TxTypeOK /\ TypeOK
  BY DEF TxInv, TxTypeOK
<1>2. DOMAIN cycles[t] \subseteq Nat
  BY <1>1, LedgerLengths
<1>3. CASE Begin(w, "start", t, 0, 0, "none", "noRunning")
  <2>1. /\ OnlyWriter(w) /\ UNCHANGED cycles /\ OpenTx(w)'
        /\ tx'[w] = [op |-> "start", t |-> t, a |-> 0, p |-> 0, arg |-> "none",
                     at |-> "noRunning", seq |-> 0]
        /\ t \in turns => \A v \in Writers : OpenTx(v) => tx[v].t # t
    BY <1>1, <1>3, BeginMoves, SMTT(15), ZenonT(40)
  <2>2. WriterOK(w)'
    BY <2>1 DEF WriterOK, CallOK, SeqOK, Checked, At
  <2> QED
    BY <2>1, <2>2 DEF Opened, Commits
<1>4. ASSUME NEW a \in DOMAIN cycles[t], NEW kind \in PhaseKinds,
             Begin(w, "startPhase", t, a, 0, kind, "load")
      PROVE  Opened(w, t)
  <2>1. /\ OnlyWriter(w) /\ UNCHANGED cycles /\ OpenTx(w)'
        /\ tx'[w] = [op |-> "startPhase", t |-> t, a |-> a, p |-> 0, arg |-> kind,
                     at |-> "load", seq |-> 0]
        /\ t \in turns => \A v \in Writers : OpenTx(v) => tx[v].t # t
    BY <1>1, <1>2, <1>4, BeginMoves, SMTT(15), ZenonT(40)
  <2>2. WriterOK(w)'
    BY <1>4, <2>1 DEF WriterOK, CallOK, SeqOK, Checked, At
  <2> QED
    BY <2>1, <2>2 DEF Opened, Commits
<1>5. ASSUME NEW a \in DOMAIN cycles[t], NEW p \in DOMAIN cycles[t][a].phases,
             NEW status \in PhaseOutcomes, Begin(w, "complete", t, a, p, status, "load")
      PROVE  Opened(w, t)
  <2>1. p \in Nat
    BY <1>1, LedgerLengths
  <2>2. /\ OnlyWriter(w) /\ UNCHANGED cycles /\ OpenTx(w)'
        /\ tx'[w] = [op |-> "complete", t |-> t, a |-> a, p |-> p, arg |-> status,
                     at |-> "load", seq |-> 0]
        /\ t \in turns => \A v \in Writers : OpenTx(v) => tx[v].t # t
    BY <1>1, <1>2, <1>5, <2>1, BeginMoves, SMTT(15), ZenonT(40)
  <2>3. WriterOK(w)'
    BY <1>5, <2>2 DEF WriterOK, CallOK, SeqOK, Checked, At, Phases
  <2> QED
    BY <2>2, <2>3 DEF Opened, Commits
<1>6. ASSUME NEW a \in DOMAIN cycles[t], NEW status \in CycleOutcomes,
             Begin(w, "terminate", t, a, 0, status, "load")
      PROVE  Opened(w, t)
  <2>1. /\ OnlyWriter(w) /\ UNCHANGED cycles /\ OpenTx(w)'
        /\ tx'[w] = [op |-> "terminate", t |-> t, a |-> a, p |-> 0, arg |-> status,
                     at |-> "load", seq |-> 0]
        /\ t \in turns => \A v \in Writers : OpenTx(v) => tx[v].t # t
    BY <1>1, <1>2, <1>6, BeginMoves, SMTT(15), ZenonT(40)
  <2>2. WriterOK(w)'
    BY <1>6, <2>1 DEF WriterOK, CallOK, SeqOK, Checked, At
  <2> QED
    BY <2>1, <2>2 DEF Opened, Commits
<1> QED
  BY <1>3, <1>4, <1>5, <1>6 DEF BeginCall

-----------------------------------------------------------------------------
(* What a step of w leaves to the other writers.                             *)

LEMMA OthersAfterRead ==
    ASSUME TxInv, NEW w \in Writers, NEW v \in Writers, v # w, OnlyWriter(w),
           UNCHANGED <<cycles, turns>>
    PROVE  WriterOK(v)'
<1>1. WriterOK(v) /\ tx'[v] = tx[v]
  BY DEF TxInv, OnlyWriter
<1> QED
  BY <1>1, StillWriter

\* The rows a call speaks of outlive the commit of another.
LEMMA CallAfterCommit ==
    ASSUME TxInv, NEW w \in Writers, NEW v \in Writers, tx'[v] = tx[v], OpenTx(v),
           RowsAfter(w)
    PROVE  CallOK(v)'
<1>1. CallOK(v) /\ tx[v].t \in Tasks /\ TypeOK /\ TypeOK'
  BY OpenCall DEF TxInv, WriterOK, TxTypeOK, RowsAfter
<1>2. DOMAIN cycles[tx[v].t] \subseteq DOMAIN cycles'[tx[v].t]
  <2>1. /\ Len(cycles[tx[v].t]) \in Nat /\ Len(cycles'[tx[v].t]) \in Nat
        /\ DOMAIN cycles[tx[v].t] = 1..Len(cycles[tx[v].t])
        /\ DOMAIN cycles'[tx[v].t] = 1..Len(cycles'[tx[v].t])
    BY <1>1, LedgerLengths DEF TypeOK
  <2>2. Len(cycles[tx[v].t]) <= Len(cycles'[tx[v].t])
    <3>1. \/ Extra(tx[w].op = "start" /\ tx[v].t = tx[w].t) = 0
          \/ Extra(tx[w].op = "start" /\ tx[v].t = tx[w].t) = 1
      BY DEF Extra
    <3>2. Len(cycles'[tx[v].t]) = Len(cycles[tx[v].t])
             + Extra(tx[w].op = "start" /\ tx[v].t = tx[w].t)
      BY <1>1 DEF RowsAfter
    <3> QED
      BY <2>1, <3>1, <3>2
  <2> QED
    BY <2>1, <2>2
<1>3. ASSUME tx[v].op = "complete" PROVE DOMAIN Phases(v) \subseteq DOMAIN Phases(v)'
  <2> DEFINE a == tx[v].a
             ps == cycles[tx[v].t][a].phases
             qs == cycles'[tx[v].t][a].phases
  <2>1. a \in DOMAIN cycles[tx[v].t] /\ a \in DOMAIN cycles'[tx[v].t]
    BY <1>1, <1>2, <1>3 DEF CallOK
  <2>2. ps \in Seq(PhaseRow) /\ qs \in Seq(PhaseRow)
    <3>1. cycles[tx[v].t] \in Seq(CycleRow) /\ cycles'[tx[v].t] \in Seq(CycleRow)
      BY <1>1 DEF TypeOK
    <3>2. cycles[tx[v].t][a] \in CycleRow /\ cycles'[tx[v].t][a] \in CycleRow
      BY <2>1, <3>1
    <3> QED
      BY <3>2 DEF CycleRow
  <2>3. Len(ps) <= Len(qs)
    <3>1. Len(qs) = Len(ps)
             + Extra(tx[w].op = "startPhase" /\ tx[v].t = tx[w].t /\ a = tx[w].a)
      BY <1>1, <2>1 DEF RowsAfter
    <3>2. \/ Extra(tx[w].op = "startPhase" /\ tx[v].t = tx[w].t /\ a = tx[w].a) = 0
          \/ Extra(tx[w].op = "startPhase" /\ tx[v].t = tx[w].t /\ a = tx[w].a) = 1
      BY DEF Extra
    <3> HIDE DEF ps, qs
    <3>3. Len(ps) \in Nat
      BY <2>2
    <3> QED
      BY <3>1, <3>2, <3>3
  <2> HIDE DEF ps, qs
  <2>4. DOMAIN ps \subseteq DOMAIN qs
    BY <2>2, <2>3
  <2> QED
    BY <2>4 DEF Phases, ps, qs
<1> QED
  BY <1>1, <1>2, <1>3 DEF CallOK, Phases

\* Two transactions never hold the same key, so what a commit inserts lies
\* below every other key that is to be committed or computed.
LEMMA SeqAfterCommit ==
    ASSUME TxInv, NEW w \in Writers, NEW v \in Writers, v # w, tx'[v] = tx[v], OpenTx(v),
           Commits(w), CallOK(w), tx[w].t \in Tasks, RowsAfter(w)
    PROVE  SeqOK(v)'
<1> DEFINE t == tx[v].t
<1>1. /\ CallOK(v) /\ SeqOK(v) /\ SeqOK(w) /\ t \in Tasks /\ TypeOK
      /\ tx[v].seq \in Nat /\ tx[w].seq \in Nat
      /\ ~(Commits(v) /\ Key(v) = Key(w))
  BY OpenCall DEF TxInv, WriterOK, TxTypeOK, Commits, KeysDiffer
<1>2. /\ Len(cycles[t]) \in Nat /\ Len(cycles'[t]) = Len(cycles[t])
            + Extra(tx[w].op = "start" /\ t = tx[w].t)
  BY <1>1, LedgerLengths DEF RowsAfter
<1>3. CASE tx[v].op = "start"
  <2>1. tx[v].a = 0 /\ tx[v].p = 0
    BY <1>1, <1>3 DEF CallOK
  <2>2. CASE tx[w].op = "start" /\ t = tx[w].t
    <3>1. Len(cycles'[t]) = Len(cycles[t]) + 1
      BY <1>2, <2>2 DEF Extra
    <3>2. tx[w].a = 0 /\ tx[w].p = 0 /\ tx[w].seq = Len(cycles[t]) + 1
      BY <1>1, <2>2 DEF CallOK, SeqOK, At, Commits
    <3>3. At(v, "start", "commit") => Key(v) = Key(w) /\ Commits(v)
      BY <1>1, <1>3, <2>1, <2>2, <3>2 DEF SeqOK, At, Key, Commits
    <3> QED
      BY <1>1, <1>2, <1>3, <3>1, <3>3 DEF SeqOK, At
  <2>3. CASE ~(tx[w].op = "start" /\ t = tx[w].t)
    <3>1. Len(cycles'[t]) = Len(cycles[t])
      <4>1. Extra(tx[w].op = "start" /\ t = tx[w].t) = 0
        BY <2>3 DEF Extra
      <4> QED
        BY <1>2, <4>1
    <3> QED
      BY <1>1, <1>3, <3>1 DEF SeqOK, At
  <2> QED
    BY <2>2, <2>3
<1>4. CASE tx[v].op = "startPhase"
  <2> DEFINE a == tx[v].a
             n == Len(cycles[t][a].phases)
             m == Len(cycles'[t][a].phases)
  <2>1. a \in DOMAIN cycles[t] /\ tx[v].p = 0
    BY <1>1, <1>4 DEF CallOK
  <2>2. n \in Nat /\ m = n + Extra(tx[w].op = "startPhase" /\ t = tx[w].t /\ a = tx[w].a)
    BY <1>1, <2>1, LedgerLengths DEF RowsAfter
  <2>3. /\ tx[v].at = "insert" => tx[v].seq <= n + 1
        /\ tx[v].at = "commit" => tx[v].seq = n + 1
    BY <1>1, <1>4 DEF SeqOK, At, Phases
  <2>4. SeqOK(v)' <=> /\ tx[v].at = "insert" => tx[v].seq <= m + 1
                      /\ tx[v].at = "commit" => tx[v].seq = m + 1
    BY <1>4 DEF SeqOK, At, Phases
  <2>5. CASE tx[w].op = "startPhase" /\ t = tx[w].t /\ a = tx[w].a
    <3>1. m = n + 1
      BY <2>2, <2>5 DEF Extra
    <3>2. tx[w].p = 0 /\ tx[w].seq = n + 1
      BY <1>1, <2>5 DEF CallOK, SeqOK, At, Commits, Phases
    <3>3. tx[v].at = "commit" => Key(v) = Key(w) /\ Commits(v)
      BY <1>1, <1>4, <2>1, <2>3, <2>5, <3>2 DEF Key, Commits
    <3> HIDE DEF m, n
    <3> QED
      BY <1>1, <2>2, <2>3, <2>4, <3>1, <3>3
  <2>6. CASE ~(tx[w].op = "startPhase" /\ t = tx[w].t /\ a = tx[w].a)
    <3>1. m = n
      <4>1. Extra(tx[w].op = "startPhase" /\ t = tx[w].t /\ a = tx[w].a) = 0
        BY <2>6 DEF Extra
      <4> HIDE DEF m, n
      <4> QED
        BY <2>2, <4>1
    <3> HIDE DEF m, n
    <3> QED
      BY <2>3, <2>4, <3>1
  <2> QED
    BY <2>5, <2>6
<1>5. CASE tx[v].op \notin {"start", "startPhase"}
  BY <1>5 DEF SeqOK, At
<1> QED
  BY <1>3, <1>4, <1>5

LEMMA OthersAfterCommit ==
    ASSUME TxInv, NEW w \in Writers, NEW v \in Writers, v # w, CommitStep(w), UNCHANGED turns
    PROVE  WriterOK(v)'
<1>1. /\ Commits(w) /\ tx[w].t \in Tasks /\ CallOK(w) /\ RowsAfter(w) /\ tx'[v] = tx[v]
  BY CommitRows DEF OnlyWriter
<1> SUFFICES ASSUME OpenTx(v) PROVE WriterOK(v)'
  BY <1>1 DEF WriterOK, OpenTx
<1>2. CallOK(v)' /\ SeqOK(v)'
  BY <1>1, CallAfterCommit, SeqAfterCommit
<1>3. ASSUME tx[v].t \in turns PROVE Checked(v)'
  <2>1. tx[w].t # tx[v].t /\ Checked(v)
    BY <1>1, <1>3 DEF TxInv, TurnsAreTaken, WriterOK, Commits
  <2>2. cycles'[tx[v].t] = cycles[tx[v].t]
    BY <1>1, <2>1, OpenCall DEF RowsAfter, TxInv
  <2> QED
    BY <1>1, <2>1, <2>2
    DEF Checked, Phases, HasRunningCycle, HasRunningPhase, MayAppend, ValidPhaseTransition,
        ValidInterruptResumeTransition, ValidVerifyOnlyRetryTransition
<1> QED
  BY <1>1, <1>2, <1>3 DEF WriterOK

-----------------------------------------------------------------------------
(* The invariant.                                                            *)

LEMMA InitTxInv == TxInit => TxInv
<1> SUFFICES ASSUME TxInit PROVE TxInv
  OBVIOUS
<1>1. \A w \in Writers : ~OpenTx(w)
  BY DEF TxInit, OpenTx, NoTx
<1>2. TxTypeOK
  BY DEF TxTypeOK, TxInit, Init, TypeOK
<1> QED
  BY <1>1, <1>2 DEF TxInv, WriterOK, KeysDiffer, TurnsAreTaken, Commits

LEMMA BeginTxInv ==
    ASSUME TxInv, NEW w \in Writers, NEW t \in Tasks, BeginCall(w, t), UNCHANGED turns
    PROVE  TxInv'
<1>1. Opened(w, t)
  BY BeginOpens
<1>2. /\ OnlyWriter(w) /\ UNCHANGED cycles /\ OpenTx(w)' /\ WriterOK(w)' /\ ~Commits(w)'
      /\ tx'[w].t = t
      /\ t \in turns => \A v \in Writers : OpenTx(v) => tx[v].t # t
  BY <1>1 DEF Opened
<1>3. TxTypeOK'
  BY <1>2 DEF TxInv, TxTypeOK, TypeOK, OnlyWriter
<1>4. \A v \in Writers : WriterOK(v)'
  BY <1>2, OthersAfterRead
<1>5. KeysDiffer'
  BY <1>2 DEF TxInv, KeysDiffer, Commits, Key, OpenTx, OnlyWriter
<1>6. TurnsAreTaken'
  BY <1>2 DEF TxInv, TurnsAreTaken, OpenTx, OnlyWriter
<1> QED
  BY <1>3, <1>4, <1>5, <1>6 DEF TxInv

LEMMA ReadTxInv ==
    ASSUME TxInv, NEW w \in Writers, Reads(w), UNCHANGED turns
    PROVE  TxInv'
<1>1. Advances(w)
  BY ReadsWriter
<1>2. /\ OnlyWriter(w) /\ SameCall(w) /\ UNCHANGED cycles /\ OpenTx(w) /\ OpenTx(w)'
      /\ WriterOK(w)'
      /\ Commits(w)' => ~KeyHeld(w) /\ tx'[w].seq = tx[w].seq
  BY <1>1 DEF Advances
<1>3. TxTypeOK'
  BY <1>2 DEF TxInv, TxTypeOK, TypeOK, OnlyWriter
<1>4. \A v \in Writers : WriterOK(v)'
  BY <1>2, OthersAfterRead
<1>5. \A v \in Writers : v # w => Commits(v)' = Commits(v) /\ Key(v)' = Key(v)
  BY <1>2 DEF Commits, Key, OpenTx, OnlyWriter
<1>6. ASSUME NEW v \in Writers, v # w, Commits(w)', Commits(v)'
      PROVE  Key(v)' # Key(w)'
  <2>1. Key(w)' = Key(w) /\ ~KeyHeld(w)
    BY <1>2, <1>6 DEF Key, SameCall
  <2>2. Commits(v) /\ Key(v)' = Key(v)
    BY <1>5, <1>6
  <2> QED
    BY <1>6, <2>1, <2>2 DEF KeyHeld, Commits, Key
<1>7. KeysDiffer'
  BY <1>5, <1>6 DEF TxInv, KeysDiffer
<1>8. TurnsAreTaken'
  BY <1>2 DEF TxInv, TurnsAreTaken, OpenTx, OnlyWriter, SameCall
<1> QED
  BY <1>3, <1>4, <1>7, <1>8 DEF TxInv

\* A call that has ended leaves fewer keys and fewer turns to compare.
LEMMA ClosedTxInv ==
    ASSUME TxInv, NEW w \in Writers, OnlyWriter(w), ~OpenTx(w)', TypeOK', UNCHANGED turns,
           \A v \in Writers : v # w => WriterOK(v)'
    PROVE  TxInv'
<1>1. TxTypeOK'
  BY DEF TxInv, TxTypeOK, OnlyWriter
<1>2. \A v \in Writers : WriterOK(v)'
  BY DEF WriterOK
<1>3. KeysDiffer'
  BY DEF TxInv, KeysDiffer, Commits, Key, OpenTx, OnlyWriter
<1>4. TurnsAreTaken'
  BY DEF TxInv, TurnsAreTaken, OpenTx, OnlyWriter
<1> QED
  BY <1>1, <1>2, <1>3, <1>4 DEF TxInv

LEMMA StepTxInv == TxInv /\ [TxNext]_txvars => TxInv'
<1> SUFFICES ASSUME TxInv, [TxNext]_txvars PROVE TxInv'
  OBVIOUS
<1>1. CASE UNCHANGED txvars
  <2>1. \A w \in Writers : WriterOK(w)'
    BY <1>1, StillWriter DEF txvars, TxInv
  <2> QED
    BY <1>1, <2>1
    DEF txvars, TxInv, TxTypeOK, TypeOK, KeysDiffer, TurnsAreTaken, Commits, Key, OpenTx
<1>2. ASSUME NEW w \in Writers, UNCHANGED turns,
             \/ \E t \in Tasks : BeginCall(w, t)
             \/ Rollback(w)
             \/ Statement(w)
      PROVE  TxInv'
  <2>1. CASE \E t \in Tasks : BeginCall(w, t)
    BY <1>2, <2>1, BeginTxInv
  <2>2. CASE Rollback(w)
    <3>1. OnlyWriter(w) /\ ~OpenTx(w)' /\ UNCHANGED cycles /\ TypeOK'
      BY <2>2, CloseMoves DEF Rollback, TxInv, TxTypeOK, TypeOK
    <3> QED
      BY <1>2, <3>1, OthersAfterRead, ClosedTxInv
  <2>3. CASE Reads(w)
    BY <1>2, <2>3, ReadTxInv
  <2>4. CASE CommitStep(w)
    <3>1. OnlyWriter(w) /\ ~OpenTx(w)' /\ TypeOK'
      BY <2>4, CommitRows DEF RowsAfter
    <3> QED
      BY <1>2, <2>4, <3>1, OthersAfterCommit, ClosedTxInv
  <2> QED
    BY <1>2, <2>1, <2>2, <2>3, <2>4 DEF Statement, Reads, CommitStep
<1> QED
  BY <1>1, <1>2 DEF TxNext

LEMMA TxInductive == TxSpec => []TxInv
<1> QED
  BY InitTxInv, StepTxInv, PTL DEF TxSpec

-----------------------------------------------------------------------------
(* docs/data-model.md, store invariants: attempt_seq and phase_seq are       *)
(* monotonic without gaps or duplicates.  Of any number of calls of the      *)
(* store that race on one task, in any interleaving of their statements and  *)
(* with any of them rolled back, none reaches its commit with a number other *)
(* than the next one (cycles.Start, cycles.StartPhase and the two unique     *)
(* indexes of task_cycles and task_cycle_phases).                            *)
THEOREM NumbersHaveNoGaps == TxSpec => []InsertLandsNext
<1>1. TxInv => InsertLandsNext
  BY DEF TxInv, WriterOK, SeqOK, InsertLandsNext, OpenTx, At
<1> QED
  BY <1>1, TxInductive, PTL

-----------------------------------------------------------------------------
(* Taking turns makes the calls atomic.                                      *)

orderly == [t \in Tasks |-> IF t \in turns THEN cycles[t] ELSE <<>>]

\* The orderly rows move only with the rows of a task whose callers take turns.
LEMMA OrderlyStays ==
    ASSUME UNCHANGED turns, NEW t \in Tasks, t \notin turns,
           \A v \in Tasks : v # t => cycles'[v] = cycles[v]
    PROVE  UNCHANGED orderly
  BY DEF orderly

LEMMA OrderlyMoves ==
    ASSUME UNCHANGED turns, NEW t \in Tasks, t \in turns,
           \A v \in Tasks : v # t => cycles'[v] = cycles[v]
    PROVE  orderly[t] = cycles[t] /\ orderly' = [orderly EXCEPT ![t] = cycles'[t]]
  BY DEF orderly

LEMMA OrderlyStart ==
    ASSUME NEW t \in Tasks, Orderly!StartCycle(t)
    PROVE  Orderly!Next
  BY Zenon DEF Orderly!Next

LEMMA OrderlyCycleStep ==
    ASSUME NEW t \in Tasks, NEW a \in DOMAIN orderly[t], Orderly!CycleStep(t, a)
    PROVE  Orderly!Next
  BY Zenon DEF Orderly!Next, orderly

LEMMA OrderlyCalls ==
    ASSUME NEW t \in Tasks, NEW a \in DOMAIN orderly[t]
    PROVE  /\ \A kind \in PhaseKinds : Orderly!StartPhase(t, a, kind) => Orderly!Next
           /\ \A p \in DOMAIN orderly[t][a].phases, status \in TerminalPhaseStatus :
                 Orderly!CompletePhase(t, a, p, status) => Orderly!Next
           /\ \A status \in TerminalCycleStatus :
                 Orderly!Terminate(t, a, status) => Orderly!Next
<1>1. ASSUME NEW kind \in PhaseKinds, Orderly!StartPhase(t, a, kind)
      PROVE  Orderly!CycleStep(t, a)
  BY <1>1, Zenon DEF Orderly!CycleStep, Orderly!PhaseKinds, PhaseKinds
<1>2. ASSUME NEW p \in DOMAIN orderly[t][a].phases, NEW status \in TerminalPhaseStatus,
             Orderly!CompletePhase(t, a, p, status)
      PROVE  Orderly!CycleStep(t, a)
  BY <1>2, Zenon
  DEF Orderly!CycleStep, Orderly!TerminalPhaseStatus, TerminalPhaseStatus, orderly
<1>3. ASSUME NEW status \in TerminalCycleStatus, Orderly!Terminate(t, a, status)
      PROVE  Orderly!CycleStep(t, a)
  BY <1>3, Zenon DEF Orderly!CycleStep, Orderly!TerminalCycleStatus, TerminalCycleStatus
<1> QED
  BY <1>1, <1>2, <1>3, OrderlyCycleStep, Zenon

\* The commit of a call whose reads still hold is the call.
LEMMA CommitImplements ==
    ASSUME TxInv, NEW w \in Writers, CommitStep(w), UNCHANGED turns, tx[w].t \in turns
    PROVE  Orderly!Next
<1> PICK t, a, p, arg : tx[w].t = t /\ tx[w].a = a /\ tx[w].p = p /\ tx[w].arg = arg
  OBVIOUS
<1>1. /\ t \in Tasks /\ CallOK(w) /\ Checked(w) /\ TypeOK /\ RowsAfter(w)
      /\ OpenTx(w) /\ tx[w].at = "commit"
  BY CommitRows DEF TxInv, TxTypeOK, WriterOK, Commits
<1>2. orderly[t] = cycles[t] /\ orderly' = [orderly EXCEPT ![t] = cycles'[t]]
  BY <1>1, OrderlyMoves DEF RowsAfter
<1>3. CASE StartCommit(w)
  <2>1. cycles'[t] = Append(cycles[t], NewCycle)
    BY <1>1, <1>3 DEF StartCommit, TypeOK
  <2>2. ~HasRunningCycle(t) /\ Len(cycles[t]) < MaxAttempts
    BY <1>1, <1>3 DEF StartCommit, At, Checked
  <2>3. Orderly!StartCycle(t)
    BY <1>2, <2>1, <2>2
    DEF Orderly!StartCycle, Orderly!HasRunningCycle, HasRunningCycle, Orderly!NewCycle,
        NewCycle, orderly
  <2> QED
    BY <1>1, <2>3, OrderlyStart
<1>4. CASE PhaseCommit(w)
  <2>1. cycles'[t] = [cycles[t] EXCEPT ![a].phases = Append(@, NewPhase(arg))]
    BY <1>1, <1>4 DEF PhaseCommit, TypeOK
  <2>2. /\ a \in DOMAIN cycles[t] /\ arg \in PhaseKinds
        /\ cycles[t][a].status = "running" /\ ~HasRunningPhase(t, a)
        /\ MayAppend(cycles[t][a].phases, arg) /\ Len(cycles[t][a].phases) < MaxPhases
    BY <1>1, <1>4 DEF PhaseCommit, At, Checked, CallOK, Phases
  <2>3. orderly' = [orderly EXCEPT ![t][a].phases = Append(@, NewPhase(arg))]
    BY <1>2, <2>1
  <2>4. Orderly!StartPhase(t, a, arg)
    BY <1>2, <2>2, <2>3, SMTT(15), ZenonT(40)
    DEF Orderly!StartPhase, Orderly!HasRunningPhase, HasRunningPhase, Orderly!MayAppend,
        MayAppend, Orderly!ValidPhaseTransition, ValidPhaseTransition,
        Orderly!ValidInterruptResumeTransition, ValidInterruptResumeTransition,
        Orderly!ValidVerifyOnlyRetryTransition, ValidVerifyOnlyRetryTransition,
        Orderly!NewPhase, NewPhase, orderly
  <2>5. a \in DOMAIN orderly[t]
    BY <1>2, <2>2
  <2> QED
    BY <1>1, <2>2, <2>4, <2>5, OrderlyCalls
<1>5. CASE CompleteCommit(w)
  <2>1. cycles'[t] = [cycles[t] EXCEPT ![a].phases[p].status = arg]
    BY <1>1, <1>5 DEF CompleteCommit, TypeOK
  <2>2. /\ a \in DOMAIN cycles[t] /\ p \in DOMAIN cycles[t][a].phases
        /\ arg \in TerminalPhaseStatus /\ cycles[t][a].phases[p].status = "running"
    BY <1>1, <1>5, OutcomesAssumption DEF CompleteCommit, At, Checked, CallOK, Phases
  <2>3. orderly' = [orderly EXCEPT ![t][a].phases[p].status = arg]
    BY <1>2, <2>1
  <2>4. Orderly!CompletePhase(t, a, p, arg)
    BY <1>2, <2>2, <2>3 DEF Orderly!CompletePhase, orderly
  <2>5. a \in DOMAIN orderly[t] /\ p \in DOMAIN orderly[t][a].phases
    BY <1>2, <2>2
  <2> QED
    BY <1>1, <2>2, <2>4, <2>5, OrderlyCalls
<1>6. CASE TerminateCommit(w)
  <2>1. cycles'[t] = [cycles[t] EXCEPT ![a].status = arg]
    BY <1>1, <1>6 DEF TerminateCommit, TypeOK
  <2>2. /\ a \in DOMAIN cycles[t] /\ arg \in TerminalCycleStatus
        /\ cycles[t][a].status = "running" /\ ~HasRunningPhase(t, a)
    BY <1>1, <1>6, OutcomesAssumption DEF TerminateCommit, At, Checked, CallOK
  <2>3. orderly' = [orderly EXCEPT ![t][a].status = arg]
    BY <1>2, <2>1
  <2>4. Orderly!Terminate(t, a, arg)
    BY <1>2, <2>2, <2>3
    DEF Orderly!Terminate, Orderly!HasRunningPhase, HasRunningPhase, orderly
  <2>5. a \in DOMAIN orderly[t]
    BY <1>2, <2>2
  <2> QED
    BY <1>1, <2>2, <2>4, <2>5, OrderlyCalls
<1> QED
  BY <1>3, <1>4, <1>5, <1>6 DEF CommitStep

LEMMA StepImplements == TxInv /\ [TxNext]_txvars => [Orderly!Next]_orderly
<1> SUFFICES ASSUME TxInv, [TxNext]_txvars PROVE [Orderly!Next]_orderly
  OBVIOUS
<1>1. CASE UNCHANGED <<cycles, turns>>
  BY <1>1 DEF orderly
<1>2. ASSUME NEW w \in Writers, CommitStep(w), UNCHANGED turns
      PROVE  [Orderly!Next]_orderly
  <2>1. CASE tx[w].t \in turns
    BY <1>2, <2>1, CommitImplements
  <2>2. CASE tx[w].t \notin turns
    <3>1. tx[w].t \in Tasks /\ \A v \in Tasks : v # tx[w].t => cycles'[v] = cycles[v]
      BY <1>2, CommitRows DEF RowsAfter
    <3> QED
      BY <1>2, <2>2, <3>1, OrderlyStays
  <2> QED
    BY <2>1, <2>2
<1>3. ASSUME NEW w \in Writers, NEW t \in Tasks, BeginCall(w, t) PROVE UNCHANGED cycles
  BY <1>3 DEF BeginCall, Begin
<1>4. ASSUME NEW w \in Writers, Rollback(w) PROVE UNCHANGED cycles
  BY <1>4 DEF Rollback
<1>5. ASSUME NEW w \in Writers, Reads(w), UNCHANGED turns PROVE UNCHANGED cycles
  BY <1>5, ReadsWriter DEF Advances
<1> QED
  BY <1>1, <1>2, <1>3, <1>4, <1>5 DEF TxNext, txvars, Statement, Reads, CommitStep

(* The store checks a guard in one statement, writes in a later one and      *)
(* locks nothing in between (cycles.Start, StartPhase, CompletePhase and     *)
(* Terminate in pkgs/tasks/store/internal/cycles).  On a task whose callers  *)
(* never overlap, which is what a worker that owns its task gives, the       *)
(* transactions are the atomic calls of CycleLedger all the same, whatever   *)
(* the other tasks' callers interleave and whichever transactions roll back. *)
THEOREM TakingTurnsIsAtomic == TxSpec => ImplementsLedger
<1>1. TxInit => Orderly!Init
  BY DEF TxInit, Init, Orderly!Init
<1>2. TxInv /\ [TxNext]_txvars => [Orderly!Next]_orderly
  BY StepImplements
<1> QED
  BY <1>1, <1>2, TxInductive, PTL DEF TxSpec, ImplementsLedger, Orderly!Spec, orderly

\* The theorems about the atomic calls, for the orderly rows.
OP == INSTANCE CycleLedgerProofs
    WITH cycles <- [t \in Tasks |-> IF t \in turns THEN cycles[t] ELSE <<>>]

RunsAlone(t) ==
    \A a, b \in DOMAIN cycles[t] :
        cycles[t][a].status = "running" /\ cycles[t][b].status = "running" => a = b

(* docs/data-model.md: "At most one running cycle per task."  The store's    *)
(* own transactions do not give it when two callers race on one task (the    *)
(* finding of CycleLedgerTx_two_cycles); on every task whose callers take    *)
(* turns they do, even while other tasks have callers that race.             *)
THEOREM TurnsKeepOneRunningCycle == TxSpec => [](\A t \in turns : RunsAlone(t))
<1>1. Orderly!Spec => OP!Spec
  <2>1. Orderly!Init => OP!Init
    BY DEF Orderly!Init, OP!Init
  <2>2. Orderly!Next => OP!Next
    BY Zenon
    DEF Orderly!Next, Orderly!StartCycle, Orderly!CycleStep, Orderly!StartPhase,
        Orderly!CompletePhase, Orderly!Terminate, Orderly!HasRunningCycle,
        Orderly!HasRunningPhase, Orderly!MayAppend, Orderly!ValidPhaseTransition,
        Orderly!ValidInterruptResumeTransition, Orderly!ValidVerifyOnlyRetryTransition,
        Orderly!NewCycle, Orderly!NewPhase, Orderly!PhaseKinds, Orderly!TerminalPhaseStatus,
        Orderly!TerminalCycleStatus,
        OP!Next, OP!StartCycle, OP!CycleStep, OP!StartPhase, OP!CompletePhase, OP!Terminate,
        OP!HasRunningCycle, OP!HasRunningPhase, OP!MayAppend, OP!ValidPhaseTransition,
        OP!ValidInterruptResumeTransition, OP!ValidVerifyOnlyRetryTransition,
        OP!NewCycle, OP!NewPhase, OP!PhaseKinds, OP!TerminalPhaseStatus, OP!TerminalCycleStatus
  <2> QED
    BY <2>1, <2>2, PTL DEF Orderly!Spec, OP!Spec
<1>2. TxSpec => []OP!OnlyLatestCycleRuns
  BY TakingTurnsIsAtomic, <1>1, BoundsAssumption, OP!OneRunningCycle, PTL DEF ImplementsLedger
<1>3. TxInv /\ OP!OnlyLatestCycleRuns => \A t \in turns : RunsAlone(t)
  BY DEF TxInv, TxTypeOK, OP!OnlyLatestCycleRuns, RunsAlone
<1> QED
  BY <1>2, <1>3, TxInductive, PTL
=============================================================================

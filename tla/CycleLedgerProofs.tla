------------------------- MODULE CycleLedgerProofs -------------------------
(* Proofs about CycleLedger for every set of tasks and every bound.  Tasks   *)
(* do not interact and a call touches one cycle row, so the induction is     *)
(* done on a row: RowOK says of one cycle what the invariants say of all of  *)
(* them, and each call is shown to make an OK row out of an OK row.          *)
EXTENDS CycleLedger, TLAPS

Running(phases) == \E p \in DOMAIN phases : phases[p].status = "running"

RowOK(row) ==
    /\ \A p \in DOMAIN row.phases :
          row.phases[p].status = "running" => p = Len(row.phases)
    /\ row.status # "running" => ~Running(row.phases)
    /\ \A p \in DOMAIN row.phases :
          MayAppend(SubSeq(row.phases, 1, p - 1), row.phases[p].kind)

IInv ==
    /\ TypeOK
    /\ OnlyLatestCycleRuns
    /\ \A t \in Tasks : \A a \in DOMAIN cycles[t] : RowOK(cycles[t][a])

\* An update of one element of a sequence.
LEMMA UpdateElement ==
    ASSUME NEW S, NEW s \in Seq(S), NEW i \in DOMAIN s, NEW x \in S
    PROVE  LET u == [s EXCEPT ![i] = x]
           IN  /\ u \in Seq(S)
               /\ Len(u) = Len(s)
               /\ DOMAIN u = DOMAIN s
               /\ u[i] = x
               /\ \A j \in DOMAIN s : j # i => u[j] = s[j]
<1> DEFINE u == [s EXCEPT ![i] = x]
<1>1. DOMAIN s = 1..Len(s) /\ Len(s) \in Nat /\ \A j \in DOMAIN s : s[j] \in S
  OBVIOUS
<1>2. DOMAIN u = 1..Len(s) /\ \A j \in 1..Len(s) : u[j] = IF j = i THEN x ELSE s[j]
  BY <1>1
<1>3. u \in [1..Len(s) -> S]
  BY <1>1, <1>2
<1>4. u \in Seq(S) /\ Len(u) = Len(s)
  BY <1>1, <1>2, <1>3
<1> QED
  BY <1>1, <1>2, <1>4

\* A new element at the end.
LEMMA AppendElement ==
    ASSUME NEW S, NEW s \in Seq(S), NEW x \in S
    PROVE  LET u == Append(s, x)
           IN  /\ u \in Seq(S)
               /\ Len(u) = Len(s) + 1
               /\ DOMAIN u = DOMAIN s \cup {Len(s) + 1}
               /\ u[Len(s) + 1] = x
               /\ \A j \in DOMAIN s : u[j] = s[j]
  OBVIOUS

\* The transition check reads its sequence only through its last element.
LEMMA PrefixAgrees ==
    ASSUME NEW S, NEW s \in Seq(S), NEW u \in Seq(S), NEW n \in Nat,
           n <= Len(s), n <= Len(u), \A j \in 1..n : s[j] = u[j]
    PROVE  SubSeq(s, 1, n) = SubSeq(u, 1, n)
<1>1. /\ SubSeq(s, 1, n) \in Seq(S) /\ Len(SubSeq(s, 1, n)) = n
      /\ SubSeq(u, 1, n) \in Seq(S) /\ Len(SubSeq(u, 1, n)) = n
  OBVIOUS
<1>2. \A j \in 1..n : SubSeq(s, 1, n)[j] = s[j] /\ SubSeq(u, 1, n)[j] = u[j]
  OBVIOUS
<1> QED
  BY <1>1, <1>2

LEMMA WholePrefix ==
    ASSUME NEW S, NEW s \in Seq(S)
    PROVE  SubSeq(s, 1, Len(s)) = s
  OBVIOUS

-----------------------------------------------------------------------------
(* One row.                                                                  *)

LEMMA StartPhaseRow ==
    ASSUME NEW row \in CycleRow, RowOK(row), NEW kind \in PhaseKinds,
           row.status = "running", ~Running(row.phases), MayAppend(row.phases, kind)
    PROVE  LET new == [row EXCEPT !.phases = Append(@, NewPhase(kind))]
           IN  new \in CycleRow /\ new.status = "running" /\ RowOK(new)
<1> DEFINE new == [row EXCEPT !.phases = Append(@, NewPhase(kind))]
           ps == row.phases
           qs == new.phases
<1>1. NewPhase(kind) \in PhaseRow /\ ps \in Seq(PhaseRow)
  BY DEF NewPhase, PhaseRow, CycleRow
<1>2. qs = Append(ps, NewPhase(kind)) /\ new.status = "running"
  BY DEF CycleRow
<1> HIDE DEF qs
<1>3. /\ qs \in Seq(PhaseRow) /\ Len(qs) = Len(ps) + 1 /\ Len(ps) \in Nat
      /\ DOMAIN ps = 1..Len(ps) /\ DOMAIN qs = 1..(Len(ps) + 1)
      /\ qs[Len(ps) + 1] = NewPhase(kind)
      /\ \A j \in 1..Len(ps) : qs[j] = ps[j]
  BY <1>1, <1>2, AppendElement
<1>4. new \in CycleRow
  BY <1>2, <1>3 DEF CycleRow, qs
<1>5. ASSUME NEW p \in DOMAIN qs, qs[p].status = "running" PROVE p = Len(qs)
  BY <1>3, <1>5 DEF Running
<1>6. ASSUME NEW p \in DOMAIN qs PROVE MayAppend(SubSeq(qs, 1, p - 1), qs[p].kind)
  <2>1. SubSeq(qs, 1, p - 1) = SubSeq(ps, 1, p - 1)
    BY <1>1, <1>3, <1>6, PrefixAgrees
  <2>2. CASE p \in DOMAIN ps
    BY <1>3, <2>1, <2>2 DEF RowOK
  <2>3. CASE p = Len(ps) + 1
    <3>1. SubSeq(ps, 1, p - 1) = ps
      BY <1>1, <1>3, <2>3, WholePrefix
    <3>2. qs[p].kind = kind
      BY <1>3, <2>3 DEF NewPhase
    <3>3. SubSeq(qs, 1, p - 1) = ps
      BY <2>1, <3>1
    <3> HIDE DEF ps
    <3>4. MayAppend(ps, kind)
      BY DEF ps
    <3> QED
      BY <3>2, <3>3, <3>4
  <2> QED
    BY <1>3, <2>2, <2>3
<1> QED
  BY <1>2, <1>4, <1>5, <1>6 DEF RowOK, qs

LEMMA CompletePhaseRow ==
    ASSUME NEW row \in CycleRow, RowOK(row), NEW p \in DOMAIN row.phases,
           row.phases[p].status = "running", NEW status \in TerminalPhaseStatus
    PROVE  LET new == [row EXCEPT !.phases[p].status = status]
           IN  new \in CycleRow /\ new.status = row.status /\ RowOK(new)
<1> DEFINE new == [row EXCEPT !.phases[p].status = status]
           ps == row.phases
           done == [ps[p] EXCEPT !.status = status]
           qs == new.phases
<1>1. ps \in Seq(PhaseRow) /\ ps[p] \in PhaseRow /\ p = Len(ps)
  BY DEF CycleRow, RowOK
<1>2. done \in PhaseRow /\ done.kind = ps[p].kind /\ done.status = status
  BY <1>1 DEF PhaseRow
<1>3. qs = [ps EXCEPT ![p] = done] /\ new.status = row.status
  BY <1>1 DEF CycleRow
<1> HIDE DEF qs, done
<1>4. /\ qs \in Seq(PhaseRow) /\ Len(qs) = Len(ps) /\ Len(ps) \in Nat
      /\ DOMAIN ps = 1..Len(ps) /\ DOMAIN qs = 1..Len(ps)
      /\ qs[p] = done
      /\ \A j \in 1..Len(ps) : j # p => qs[j] = ps[j]
  BY <1>1, <1>2, <1>3, UpdateElement
<1>5. new \in CycleRow
  BY <1>3, <1>4 DEF CycleRow, qs
<1>6. ~Running(qs)
  BY <1>1, <1>2, <1>4 DEF Running, RowOK, TerminalPhaseStatus
<1>7. ASSUME NEW q \in DOMAIN qs PROVE MayAppend(SubSeq(qs, 1, q - 1), qs[q].kind)
  <2>1. SubSeq(qs, 1, q - 1) = SubSeq(ps, 1, q - 1)
    BY <1>1, <1>4, <1>7, PrefixAgrees
  <2> QED
    BY <1>2, <1>4, <1>7, <2>1 DEF RowOK
<1> QED
  BY <1>3, <1>5, <1>6, <1>7 DEF RowOK, Running, qs

LEMMA TerminateRow ==
    ASSUME NEW row \in CycleRow, RowOK(row), ~Running(row.phases),
           NEW status \in TerminalCycleStatus
    PROVE  LET new == [row EXCEPT !.status = status]
           IN  new \in CycleRow /\ new.status # "running" /\ RowOK(new)
  BY DEF RowOK, CycleRow, TerminalCycleStatus

-----------------------------------------------------------------------------
(* The calls.                                                                *)

LEMMA InitIInv == Init => IInv
  BY DEF Init, IInv, TypeOK, OnlyLatestCycleRuns

LEMMA StartCycleIInv ==
    ASSUME IInv, NEW t \in Tasks, StartCycle(t)
    PROVE  IInv'
<1> DEFINE s == cycles[t]
           u == Append(s, NewCycle)
<1>1. NewCycle \in CycleRow /\ RowOK(NewCycle) /\ NewCycle.status = "running"
  BY DEF NewCycle, CycleRow, RowOK, Running
<1>2. s \in Seq(CycleRow) /\ cycles' = [cycles EXCEPT ![t] = u]
  BY DEF StartCycle, IInv, TypeOK
<1> HIDE DEF s
<1>3. /\ u \in Seq(CycleRow) /\ Len(u) = Len(s) + 1 /\ Len(s) \in Nat
      /\ DOMAIN s = 1..Len(s) /\ DOMAIN u = 1..(Len(s) + 1)
      /\ u[Len(s) + 1] = NewCycle
      /\ \A j \in 1..Len(s) : u[j] = s[j]
  BY <1>1, <1>2, AppendElement
<1> HIDE DEF u
<1>4. \A v \in Tasks : cycles'[v] = IF v = t THEN u ELSE cycles[v]
  BY <1>2 DEF IInv, TypeOK
<1>5. TypeOK'
  BY <1>2, <1>3 DEF IInv, TypeOK
<1>6. OnlyLatestCycleRuns'
  BY <1>3, <1>4 DEF s, StartCycle, HasRunningCycle, IInv, OnlyLatestCycleRuns
<1>7. \A v \in Tasks : \A a \in DOMAIN cycles'[v] : RowOK(cycles'[v][a])
  BY <1>1, <1>3, <1>4 DEF s, IInv
<1> QED
  BY <1>5, <1>6, <1>7 DEF IInv, RowOK, Running, MayAppend, ValidPhaseTransition,
      ValidInterruptResumeTransition, ValidVerifyOnlyRetryTransition

\* What the three calls on a cycle have in common.
LEMMA RowStepIInv ==
    ASSUME IInv, NEW t \in Tasks, NEW a \in DOMAIN cycles[t],
           NEW row \in CycleRow, RowOK(row),
           row.status = "running" => cycles[t][a].status = "running",
           cycles' = [cycles EXCEPT ![t] = [cycles[t] EXCEPT ![a] = row]]
    PROVE  IInv'
<1> DEFINE u == [cycles[t] EXCEPT ![a] = row]
<1>1. cycles[t] \in Seq(CycleRow)
  BY DEF IInv, TypeOK
<1>2. /\ u \in Seq(CycleRow) /\ Len(u) = Len(cycles[t]) /\ DOMAIN u = DOMAIN cycles[t]
      /\ u[a] = row /\ \A j \in DOMAIN cycles[t] : j # a => u[j] = cycles[t][j]
  BY <1>1, UpdateElement
<1> HIDE DEF u
<1>3. \A v \in Tasks : cycles'[v] = IF v = t THEN u ELSE cycles[v]
  BY DEF IInv, TypeOK, u
<1>4. TypeOK'
  BY <1>2 DEF IInv, TypeOK, u
<1>5. OnlyLatestCycleRuns'
  BY <1>2, <1>3 DEF IInv, OnlyLatestCycleRuns
<1>6. \A v \in Tasks : \A b \in DOMAIN cycles'[v] : RowOK(cycles'[v][b])
  BY <1>2, <1>3 DEF IInv
<1> QED
  BY <1>4, <1>5, <1>6 DEF IInv

LEMMA CycleStepIInv ==
    ASSUME IInv, NEW t \in Tasks, NEW a \in DOMAIN cycles[t], CycleStep(t, a)
    PROVE  IInv'
<1> DEFINE row == cycles[t][a]
<1>1. row \in CycleRow /\ RowOK(row) /\ cycles[t] \in Seq(CycleRow)
  BY DEF IInv, TypeOK
<1>2. ASSUME NEW kind \in PhaseKinds, StartPhase(t, a, kind) PROVE IInv'
  <2>1. cycles' = [cycles EXCEPT ![t] =
           [cycles[t] EXCEPT ![a] = [row EXCEPT !.phases = Append(@, NewPhase(kind))]]]
    BY <1>2 DEF StartPhase, IInv, TypeOK
  <2>2. row.status = "running" /\ ~Running(row.phases) /\ MayAppend(row.phases, kind)
    BY <1>2 DEF StartPhase, HasRunningPhase, Running
  <2> QED
    BY <1>1, <2>1, <2>2, StartPhaseRow, RowStepIInv
<1>3. ASSUME NEW p \in DOMAIN row.phases, NEW status \in TerminalPhaseStatus,
             CompletePhase(t, a, p, status)
      PROVE  IInv'
  <2>1. cycles' = [cycles EXCEPT ![t] =
           [cycles[t] EXCEPT ![a] = [row EXCEPT !.phases[p].status = status]]]
    BY <1>3 DEF CompletePhase, IInv, TypeOK
  <2>2. row.phases[p].status = "running"
    BY <1>3 DEF CompletePhase
  <2> QED
    BY <1>1, <2>1, <2>2, CompletePhaseRow, RowStepIInv
<1>4. ASSUME NEW status \in TerminalCycleStatus, Terminate(t, a, status) PROVE IInv'
  <2>1. cycles' = [cycles EXCEPT ![t] =
           [cycles[t] EXCEPT ![a] = [row EXCEPT !.status = status]]]
    BY <1>4 DEF Terminate, IInv, TypeOK
  <2>2. ~Running(row.phases)
    BY <1>4 DEF Terminate, HasRunningPhase, Running
  <2> QED
    BY <1>1, <2>1, <2>2, TerminateRow, RowStepIInv
<1> QED
  BY <1>2, <1>3, <1>4 DEF CycleStep

LEMMA StepIInv == IInv /\ [Next]_cycles => IInv'
<1> SUFFICES ASSUME IInv, [Next]_cycles PROVE IInv'
  OBVIOUS
<1>1. CASE UNCHANGED cycles
  BY <1>1 DEF IInv, TypeOK, OnlyLatestCycleRuns, RowOK
<1>2. ASSUME NEW t \in Tasks, StartCycle(t) PROVE IInv'
  BY <1>2, StartCycleIInv
<1>3. ASSUME NEW t \in Tasks, NEW a \in DOMAIN cycles[t], CycleStep(t, a) PROVE IInv'
  BY <1>3, CycleStepIInv
<1> QED
  BY <1>1, <1>2, <1>3 DEF Next

LEMMA LedgerInductive == Spec => []IInv
  BY InitIInv, StepIInv, PTL DEF Spec

-----------------------------------------------------------------------------
\* The rows are well-typed at all times (model.TaskCycle, model.TaskCyclePhase).
THEOREM LedgerTypeCorrect == Spec => []TypeOK
<1>1. IInv => TypeOK
  BY DEF IInv
<1> QED
  BY <1>1, LedgerInductive, PTL

\* cycles.Start, Terminate: only the newest attempt of a task may be running,
\* so at most one is.
THEOREM OneRunningCycle == Spec => []OnlyLatestCycleRuns
<1>1. IInv => OnlyLatestCycleRuns
  BY DEF IInv
<1> QED
  BY <1>1, LedgerInductive, PTL

\* cycles.StartPhase, CompletePhase: only the newest phase of a cycle may be
\* running, so at most one is.
THEOREM OneRunningPhase == Spec => []OnlyLatestPhaseRuns
<1>1. IInv => OnlyLatestPhaseRuns
  BY DEF IInv, OnlyLatestPhaseRuns, RowOK
<1> QED
  BY <1>1, LedgerInductive, PTL

\* cycles.Terminate, StartPhase: nothing runs under a closed attempt.
THEOREM NothingRunsUnderAClosedCycle == Spec => []ClosedCycleIsQuiet
<1>1. IInv => ClosedCycleIsQuiet
  BY DEF IInv, ClosedCycleIsQuiet, RowOK, Running, HasRunningPhase
<1> QED
  BY <1>1, LedgerInductive, PTL

\* The phase rows of every attempt read as a path of domain/cycle_state.go,
\* judged by the rows as they finally stand.
THEOREM PhaseHistoryIsLegal == Spec => []PhasesFollowTheMachine
<1>1. IInv => PhasesFollowTheMachine
  BY DEF IInv, PhasesFollowTheMachine, RowOK
<1> QED
  BY <1>1, LedgerInductive, PTL

-----------------------------------------------------------------------------
(* Terminal rows are read-only.                                              *)

LEMMA StartCycleKeeps ==
    ASSUME IInv, NEW t \in Tasks, StartCycle(t)
    PROVE  KeepsClosedRows
<1>0. NewCycle \in CycleRow
  BY DEF NewCycle, CycleRow
<1>1. cycles[t] \in Seq(CycleRow) /\ NewCycle \in CycleRow
  BY <1>0 DEF IInv, TypeOK
<1>2. \A v \in Tasks : cycles'[v] = IF v = t THEN Append(cycles[t], NewCycle) ELSE cycles[v]
  BY DEF StartCycle, IInv, TypeOK
<1>3. \A a \in DOMAIN cycles[t] :
         /\ a \in DOMAIN Append(cycles[t], NewCycle)
         /\ Append(cycles[t], NewCycle)[a] = cycles[t][a]
  BY <1>1, AppendElement
<1> QED
  BY <1>2, <1>3 DEF KeepsClosedRows, KeepsClosed

LEMMA CycleStepKeeps ==
    ASSUME IInv, NEW t \in Tasks, NEW a \in DOMAIN cycles[t], CycleStep(t, a)
    PROVE  KeepsClosedRows
<1> DEFINE row == cycles[t][a]
<1>0. row \in CycleRow /\ cycles[t] \in Seq(CycleRow)
  BY DEF IInv, TypeOK
<1>1. row \in CycleRow /\ cycles[t] \in Seq(CycleRow) /\ row.phases \in Seq(PhaseRow)
  BY <1>0 DEF CycleRow
<1>2. SUFFICES ASSUME NEW new \in CycleRow, KeepsClosed(row, new),
                      cycles' = [cycles EXCEPT ![t] = [cycles[t] EXCEPT ![a] = new]]
               PROVE  KeepsClosedRows
  <2>1. ASSUME NEW kind \in PhaseKinds, StartPhase(t, a, kind) PROVE KeepsClosedRows
    <3> DEFINE new == [row EXCEPT !.phases = Append(@, NewPhase(kind))]
    <3>1. cycles' = [cycles EXCEPT ![t] = [cycles[t] EXCEPT ![a] = new]]
      BY <2>1 DEF StartPhase, IInv, TypeOK
    <3>2. NewPhase(kind) \in PhaseRow
      BY DEF NewPhase, PhaseRow
    <3>3. new.phases = Append(row.phases, NewPhase(kind)) /\ new.status = row.status
      BY <1>1 DEF CycleRow
    <3>4. new.phases \in Seq(PhaseRow) /\ \A p \in DOMAIN row.phases :
             p \in DOMAIN new.phases /\ new.phases[p] = row.phases[p]
      BY <1>1, <3>2, <3>3, AppendElement
    <3>5. new \in CycleRow
      BY <1>1, <3>3, <3>4 DEF CycleRow
    <3> QED
      BY <1>2, <3>1, <3>3, <3>4, <3>5 DEF KeepsClosed
  <2>2. ASSUME NEW p \in DOMAIN row.phases, NEW status \in TerminalPhaseStatus,
               CompletePhase(t, a, p, status)
        PROVE  KeepsClosedRows
    <3> DEFINE done == [row.phases[p] EXCEPT !.status = status]
               new == [row EXCEPT !.phases[p].status = status]
    <3>1. cycles' = [cycles EXCEPT ![t] = [cycles[t] EXCEPT ![a] = new]]
      BY <2>2 DEF CompletePhase, IInv, TypeOK
    <3>2. row.phases[p].status = "running"
      BY <2>2 DEF CompletePhase
    <3>3. new \in CycleRow
      BY <1>1, <3>2, CompletePhaseRow DEF IInv
    <3>4. done \in PhaseRow
      <4>1. row.phases[p] \in PhaseRow
        BY <1>1
      <4> QED
        BY <4>1 DEF PhaseRow
    <3>5. new.phases = [row.phases EXCEPT ![p] = done] /\ new.status = row.status
      BY <1>1 DEF CycleRow
    <3>6. \A q \in DOMAIN row.phases :
             q \in DOMAIN new.phases /\ (q # p => new.phases[q] = row.phases[q])
      BY <1>1, <3>4, <3>5, UpdateElement
    <3>7. KeepsClosed(row, new)
      BY <3>2, <3>5, <3>6 DEF KeepsClosed
    <3> QED
      BY <1>2, <3>1, <3>3, <3>7
  <2>3. ASSUME NEW status \in TerminalCycleStatus, Terminate(t, a, status)
        PROVE  KeepsClosedRows
    <3> DEFINE new == [row EXCEPT !.status = status]
    <3>1. cycles' = [cycles EXCEPT ![t] = [cycles[t] EXCEPT ![a] = new]]
      BY <2>3 DEF Terminate, IInv, TypeOK
    <3>2. new \in CycleRow /\ new.phases = row.phases
      BY <1>1 DEF CycleRow, TerminalCycleStatus
    <3>3. KeepsClosed(row, new)
      BY <2>3, <3>2 DEF Terminate, KeepsClosed
    <3> QED
      BY <1>2, <3>1, <3>2, <3>3
  <2> QED
    BY <2>1, <2>2, <2>3 DEF CycleStep
<1>3. /\ DOMAIN [cycles[t] EXCEPT ![a] = new] = DOMAIN cycles[t]
      /\ [cycles[t] EXCEPT ![a] = new][a] = new
      /\ \A b \in DOMAIN cycles[t] : b # a => [cycles[t] EXCEPT ![a] = new][b] = cycles[t][b]
  BY <1>1, <1>2, UpdateElement
<1>4. \A v \in Tasks :
         cycles'[v] = IF v = t THEN [cycles[t] EXCEPT ![a] = new] ELSE cycles[v]
  BY <1>2 DEF IInv, TypeOK
<1>5. \A v \in Tasks : \A b \in DOMAIN cycles[v] :
         /\ b \in DOMAIN cycles'[v]
         /\ cycles'[v][b] = IF v = t /\ b = a THEN new ELSE cycles[v][b]
  BY <1>3, <1>4
<1> QED
  BY <1>2, <1>5 DEF KeepsClosedRows, KeepsClosed

LEMMA StepKeeps == IInv /\ [Next]_cycles => [KeepsClosedRows]_cycles
  BY StartCycleKeeps, CycleStepKeeps DEF Next

\* CompletePhase and Terminate refuse a terminal row, StartPhase only adds
\* one: no call changes a row that has reached a terminal status.
THEOREM TerminalRowsAreReadOnly == Spec => ClosedRowsAreFrozen
<1> QED
  BY StepKeeps, LedgerInductive, PTL DEF Spec, ClosedRowsAreFrozen
=============================================================================

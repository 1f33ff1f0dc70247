-------------------------- MODULE HarnessRunProofs --------------------------
(* Types and shape of HarnessRun, for every checklist, every budget of       *)
(* verify retries and every bound.  The ledger keeps its own invariant,      *)
(* which comes from CycleLedgerProofs; RetryShape, RunShape and NotesShape   *)
(* say how the locals of the run, the notes and the rows fit together.  One  *)
(* lemma per action shows what it does to them; the second half builds the   *)
(* safety properties on the same lemmas.                                     *)
EXTENDS HarnessRun, FiniteSetTheorems, TLAPS

LP == INSTANCE CycleLedgerProofs WITH Tasks <- {Task}

-----------------------------------------------------------------------------
(* Types.                                                                    *)

Seeding == {"seedStart", "seedComplete", "mirror", "snapshot"}
Verifying == {"checks", "judged", "unsaved", "infra"}
Looping == {"execute", "agent", "completeExecute", "verify"} \cup Verifying
Working == Seeding \cup Looping
Holding == Working \cup {"finalize", "close", "abortPhase", "abortCycle"}
Places == Holding \cup {"idle", "reset", "load", "startCycle", "settle", "failTask"}

Revision == Seq(Nat)
Verdict == [ev : BOOLEAN, at : Revision]
Verdicts == UNION {[S -> Verdict] : S \in SUBSET Criteria}
CompletionRow == [a : Nat, by : {"legacy", "verifier"}, at : Revision]
Completions == UNION {[S -> CompletionRow] : S \in SUBSET Criteria}
ReportRow == [c : Criteria, seq : Nat, ok : BOOLEAN, at : Revision]
Retry == [mode : {"none", "fresh", "resume"}, parent : Nat]

NotesRow ==
    [bases : Seq(Revision), commits : SUBSET (Revision \ {<<>>}), rows : SUBSET ReportRow,
     judged : Nat, unsaved : BOOLEAN, resumed : BOOLEAN, restored : BOOLEAN, off : BOOLEAN]
RunRow ==
    [at : Places, a : Nat, retry : Retry, seed : BOOLEAN, skip : BOOLEAN, off : BOOLEAN,
     head : Revision, ok : BOOLEAN, reached : BOOLEAN, attempt : Nat, passed : Verdicts,
     result : {"none", "succeeded", "failed", "aborted"}, left : SUBSET Criteria]

TypeInv ==
    /\ notes \in Seq(NotesRow)
    /\ row \in {"ready", "running", "failed", "done"}
    /\ pending \in Retry
    /\ completions \in Completions
    /\ tree \in Revision
    /\ run \in RunRow
    /\ world \in Worlds
    /\ spent \in [ops : Nat, crashes : Nat, faults : Nat]

\* Report rows are finite in number; all that matters is that their seq is
\* bounded, so that MaxAttemptSeq exists.
SeqsAreBounded == \A a \in DOMAIN notes : \E bound \in Nat : \A r \in notes[a].rows : r.seq <= bound

-----------------------------------------------------------------------------
(* Where the run stands tells what the rows look like.                       *)

LastIs(a, kind, status) ==
    /\ Phases(a) # <<>>
    /\ Phases(a)[Len(Phases(a))] = [kind |-> kind, status |-> status]

LastRuns(a) == Phases(a) # <<>> /\ Phases(a)[Len(Phases(a))].status = "running"

ParentIsClosed(retry) ==
    retry.mode # "none" => retry.parent \in DOMAIN Attempts /\ Closed(retry.parent)

RetryShape ==
    /\ ParentIsClosed(pending) /\ ParentIsClosed(run.retry)
    /\ run.at = "reset" => run.retry.mode = "fresh" /\ run.passed = NoVerdicts /\ ~run.seed
    /\ run.at = "load" => run.retry.mode = "resume"
    /\ run.at \in {"seedStart", "seedComplete"} => run.seed
    /\ run.at \in {"startCycle"} \cup Seeding /\ run.seed =>
          run.retry.mode = "resume" /\ Executes(run.retry.parent) # {}
    /\ run.at \in Seeding /\ run.seed => run.retry.parent < run.a

RunShape ==
    /\ run.at \in Holding \cup {"settle"} => run.a = Len(Attempts) /\ run.a # 0
    /\ run.at \in Holding => ~Closed(run.a)
    /\ run.at = "seedStart" => Phases(run.a) = <<>>
    /\ run.at = "seedComplete" => Len(Phases(run.a)) = 1
    /\ run.at \in {"seedComplete", "agent", "completeExecute"} =>
          LastIs(run.a, "execute", "running")
    /\ run.at \in Verifying => LastIs(run.a, "verify", "running")
    /\ run.at = "abortPhase" => LastRuns(run.a)
    /\ run.at \in {"abortPhase", "abortCycle"} => run.result \in {"failed", "aborted"}
    /\ run.at \in {"close", "settle"} => run.result \in {"succeeded", "failed"}
    /\ run.at = "finalize" => run.left \subseteq DOMAIN run.passed

NotesShape ==
    /\ Len(notes) = Len(Attempts)
    /\ \A a \in DOMAIN notes : Len(notes[a].bases) = Len(Phases(a))

Base == TypeInv /\ SeqsAreBounded /\ LP!IInv /\ RetryShape /\ RunShape /\ NotesShape

-----------------------------------------------------------------------------
(* Facts about data.                                                         *)

LEMMA MaxOfBounded ==
    ASSUME NEW S, S \subseteq Nat, S # {}, NEW bound \in Nat, \A x \in S : x <= bound
    PROVE  Max(S) \in S /\ \A y \in S : y <= Max(S)
<1> DEFINE R == StrictSubsetOrdering(1..bound)
           T == {1..b : b \in {b \in 0..bound : \A x \in S : x <= b}}
<1>1. IsWellFoundedOn(R, SUBSET (1..bound))
  <2>1. IsFiniteSet(1..bound)
    BY FS_Interval
  <2>2. FiniteSubsetsOf(1..bound) = SUBSET (1..bound)
    BY <2>1, FS_FiniteSubsetsOfFinite
  <2> QED
    BY <2>2, FS_StrictSubsetOrderingWellFounded
<1>2. T \subseteq SUBSET (1..bound) /\ T # {}
  <2>1. bound \in {b \in 0..bound : \A x \in S : x <= b}
    OBVIOUS
  <2> QED
    BY <2>1
<1>3. \E x \in T : \A y \in T : <<y, x>> \notin R
  <2> HIDE DEF R, T
  <2> QED
    BY <1>1, <1>2, WFMin
<1>4. PICK b \in 0..bound : /\ \A x \in S : x <= b
                            /\ \A y \in T : <<y, 1..b>> \notin R
  BY <1>3
<1>5. b \in S
  <2>1. ASSUME b = 0 PROVE b \in S
    <3>1. PICK x \in S : TRUE
      OBVIOUS
    <3>2. x \in Nat /\ x <= b
      BY <1>4
    <3> QED
      BY <2>1, <3>2
  <2>2. CASE b # 0 /\ b \notin S
    <3>1. b - 1 \in 0..bound /\ \A x \in S : x <= b - 1
      BY <1>4, <2>2
    <3>2. 1..(b - 1) \in T
      BY <3>1
    <3>3. <<1..(b - 1), 1..b>> \in R
      <4>1. 1..(b - 1) \subseteq 1..b /\ b \in 1..b /\ b \notin 1..(b - 1) /\ 1..b \subseteq 1..bound
        BY <2>2
      <4> QED
        BY <4>1 DEF StrictSubsetOrdering
    <3> QED
      BY <1>4, <3>2, <3>3
  <2> QED
    BY <2>1, <2>2
<1>6. \A y \in S : b >= y
  BY <1>4
<1>7. Max(S) \in S /\ \A y \in S : Max(S) >= y
  BY <1>5, <1>6 DEF Max
<1> QED
  BY <1>7

LEMMA PrefixOfItself ==
    ASSUME NEW S, NEW s \in Seq(S)
    PROVE  IsPrefix(s, s)
  BY DEF IsPrefix

LEMMA PrefixOfLonger ==
    ASSUME NEW S, NEW s \in Seq(S), NEW t \in Seq(S), NEW x \in S, IsPrefix(s, t)
    PROVE  IsPrefix(s, Append(t, x))
<1>1. SubSeq(Append(t, x), 1, Len(s)) = SubSeq(t, 1, Len(s))
  BY DEF IsPrefix
<1> QED
  BY <1>1 DEF IsPrefix

-----------------------------------------------------------------------------
(* The ledger's calls, for the one task there is.                            *)

LEMMA LedgerBounds == MaxAttempts \in Nat /\ MaxPhases \in Nat
  BY LimitsAssumption

LEMMA LedgerRows ==
    ASSUME LP!IInv
    PROVE  /\ Attempts \in Seq(LP!CycleRow) /\ Len(Attempts) \in Nat
           /\ DOMAIN Attempts = 1..Len(Attempts)
           /\ \A a \in DOMAIN Attempts :
                 /\ Attempts[a] \in LP!CycleRow
                 /\ Phases(a) \in Seq(LP!PhaseRow)
                 /\ Len(Phases(a)) \in Nat
                 /\ DOMAIN Phases(a) = 1..Len(Phases(a))
                 /\ Attempts[a].status = "running" => a = Len(Attempts)
                 /\ Closed(a) => ~L!HasRunningPhase(Task, a)
                 /\ \A p \in DOMAIN Phases(a) :
                       Phases(a)[p].status = "running" => p = Len(Phases(a))
<1>1. Attempts \in Seq(LP!CycleRow)
  BY DEF LP!IInv, LP!TypeOK, Attempts
<1>2. \A a \in DOMAIN Attempts : Attempts[a] \in LP!CycleRow
  BY <1>1
<1>3. \A a \in DOMAIN Attempts : Phases(a) \in Seq(LP!PhaseRow)
  BY <1>2 DEF LP!CycleRow, Phases
<1>4. \A a \in DOMAIN Attempts :
        /\ Attempts[a].status = "running" => a = Len(Attempts)
        /\ Closed(a) => ~L!HasRunningPhase(Task, a)
        /\ \A p \in DOMAIN Phases(a) :
              Phases(a)[p].status = "running" => p = Len(Phases(a))
  BY DEF LP!IInv, LP!OnlyLatestCycleRuns, LP!RowOK, LP!Running, L!HasRunningPhase,
         Attempts, Phases, Closed
<1> QED
  BY <1>1, <1>2, <1>3, <1>4

\* Attempt a has this status and these phases now; no other row has changed.
RowBecomes(a, status, phases) ==
    /\ Len(Attempts') = Len(Attempts) /\ DOMAIN Attempts' = DOMAIN Attempts
    /\ \A b \in DOMAIN Attempts : b # a => Attempts'[b] = Attempts[b]
    /\ Attempts'[a].status = status /\ Attempts'[a].phases = phases

LEMMA RowEdit ==
    ASSUME LP!IInv, NEW a \in DOMAIN Attempts, NEW new \in LP!CycleRow,
           cycles' = [cycles EXCEPT ![Task] = [cycles[Task] EXCEPT ![a] = new]]
    PROVE  RowBecomes(a, new.status, new.phases)
<1>1. Attempts' = [Attempts EXCEPT ![a] = new]
  BY DEF LP!IInv, LP!TypeOK, Attempts
<1>2. Attempts \in Seq(LP!CycleRow)
  BY LedgerRows
<1>3. LET u == [Attempts EXCEPT ![a] = new]
      IN  /\ Len(u) = Len(Attempts) /\ DOMAIN u = DOMAIN Attempts /\ u[a] = new
          /\ \A b \in DOMAIN Attempts : b # a => u[b] = Attempts[b]
  BY <1>2, LedgerBounds, LP!UpdateElement
<1> QED
  BY <1>1, <1>3 DEF RowBecomes

LEMMA StartCycleEffect ==
    ASSUME LP!IInv, L!StartCycle(Task)
    PROVE  /\ LP!IInv'
           /\ Len(Attempts') = Len(Attempts) + 1
           /\ DOMAIN Attempts' = DOMAIN Attempts \cup {Len(Attempts) + 1}
           /\ \A b \in DOMAIN Attempts : Attempts'[b] = Attempts[b] /\ Closed(b)
           /\ Attempts'[Len(Attempts) + 1].status = "running"
           /\ Attempts'[Len(Attempts) + 1].phases = <<>>
<1>1. LP!StartCycle(Task) /\ Task \in {Task}
  BY DEF L!StartCycle, L!HasRunningCycle, L!NewCycle,
         LP!StartCycle, LP!HasRunningCycle, LP!NewCycle
<1>2. LP!NewCycle \in LP!CycleRow
  BY DEF LP!NewCycle, LP!CycleRow
<1>3. Attempts' = Append(Attempts, LP!NewCycle)
  BY <1>1 DEF LP!StartCycle, LP!IInv, LP!TypeOK, Attempts
<1>4. LP!IInv'
  BY <1>1, LedgerBounds, LP!StartCycleIInv
<1>5. \A b \in DOMAIN Attempts : Closed(b)
  BY DEF L!StartCycle, L!HasRunningCycle, Closed, Attempts
<1>6. LET u == Append(Attempts, LP!NewCycle)
      IN  /\ Len(u) = Len(Attempts) + 1
          /\ DOMAIN u = DOMAIN Attempts \cup {Len(Attempts) + 1}
          /\ u[Len(Attempts) + 1] = LP!NewCycle
          /\ \A b \in DOMAIN Attempts : u[b] = Attempts[b]
  BY <1>2, LedgerRows, LedgerBounds, LP!AppendElement
<1> QED
  BY <1>3, <1>4, <1>5, <1>6 DEF LP!NewCycle

LEMMA StartPhaseEffect ==
    ASSUME LP!IInv, NEW a \in DOMAIN Attempts, NEW kind \in {"execute", "verify"},
           L!StartPhase(Task, a, kind)
    PROVE  /\ LP!IInv'
           /\ RowBecomes(a, "running", Append(Phases(a), [kind |-> kind, status |-> "running"]))
           /\ ~Closed(a)
<1> DEFINE open == [kind |-> kind, status |-> "running"]
           new == [Attempts[a] EXCEPT !.phases = Append(Phases(a), open)]
<1>1. LP!StartPhase(Task, a, kind) /\ kind \in LP!PhaseKinds /\ Task \in {Task}
  BY DEF L!StartPhase, L!HasRunningPhase, L!NewPhase, L!MayAppend, L!ValidPhaseTransition,
         L!ValidInterruptResumeTransition, L!ValidVerifyOnlyRetryTransition,
         LP!StartPhase, LP!HasRunningPhase, LP!NewPhase, LP!MayAppend,
         LP!ValidPhaseTransition, LP!ValidInterruptResumeTransition,
         LP!ValidVerifyOnlyRetryTransition, LP!PhaseKinds
<1>2. LP!IInv'
  <2>1. LP!CycleStep(Task, a)
    BY <1>1 DEF LP!CycleStep
  <2> QED
    BY <1>1, <2>1, LedgerBounds, LP!CycleStepIInv DEF Attempts
<1>3. open \in LP!PhaseRow
  BY <1>1 DEF LP!PhaseRow
<1>4. Append(Phases(a), open) \in Seq(LP!PhaseRow)
  BY <1>3, LedgerRows
<1>5. /\ new \in LP!CycleRow /\ new.phases = Append(Phases(a), open)
      /\ new.status = "running"
  BY <1>1, <1>4, LedgerRows DEF LP!CycleRow, LP!StartPhase, Attempts
<1>6. cycles' = [cycles EXCEPT ![Task] = [cycles[Task] EXCEPT ![a] = new]]
  BY DEF L!StartPhase, L!NewPhase, LP!IInv, LP!TypeOK, Attempts, Phases
<1>7. ~Closed(a)
  BY <1>1 DEF LP!StartPhase, Closed, Attempts
<1> HIDE DEF new
<1> QED
  BY <1>2, <1>5, <1>6, <1>7, RowEdit

LEMMA CompletePhaseEffect ==
    ASSUME LP!IInv, NEW a \in DOMAIN Attempts, NEW p \in DOMAIN Phases(a),
           NEW status \in {"succeeded", "failed", "interrupted"},
           L!CompletePhase(Task, a, p, status)
    PROVE  /\ LP!IInv'
           /\ RowBecomes(a, "running",
                [Phases(a) EXCEPT ![p] = [kind |-> Phases(a)[p].kind, status |-> status]])
           /\ p = Len(Phases(a)) /\ Phases(a)[p].status = "running" /\ ~Closed(a)
           /\ a = Len(Attempts)
<1> DEFINE done == [kind |-> Phases(a)[p].kind, status |-> status]
           new == [Attempts[a] EXCEPT !.phases = [Phases(a) EXCEPT ![p] = done]]
<1>1. LP!CompletePhase(Task, a, p, status) /\ status \in LP!TerminalPhaseStatus /\ Task \in {Task}
  BY DEF L!CompletePhase, LP!CompletePhase, LP!TerminalPhaseStatus
<1>2. LP!IInv'
  <2>1. LP!CycleStep(Task, a)
    BY <1>1 DEF LP!CycleStep, Phases, Attempts
  <2> QED
    BY <1>1, <2>1, LedgerBounds, LP!CycleStepIInv DEF Attempts
<1>3. Phases(a)[p] \in LP!PhaseRow
  BY LedgerRows
<1>4. done \in LP!PhaseRow /\ done = [Phases(a)[p] EXCEPT !.status = status]
  BY <1>1, <1>3 DEF LP!PhaseRow
<1>5. [Phases(a) EXCEPT ![p] = done] \in Seq(LP!PhaseRow)
  BY <1>4, LedgerRows, LedgerBounds, LP!UpdateElement
<1>6. Phases(a)[p].status = "running"
  BY <1>1 DEF LP!CompletePhase, Phases, Attempts
<1>7. p = Len(Phases(a)) /\ ~Closed(a) /\ Attempts[a].status = "running" /\ a = Len(Attempts)
  BY <1>6, LedgerRows DEF L!HasRunningPhase, Phases, Attempts, Closed
<1>8. /\ new \in LP!CycleRow /\ new.phases = [Phases(a) EXCEPT ![p] = done]
      /\ new.status = "running"
  <2>1. Attempts[a] \in LP!CycleRow
    BY LedgerRows
  <2> HIDE DEF done
  <2> QED
    BY <1>5, <1>7, <2>1 DEF LP!CycleRow
<1>9. cycles' = [cycles EXCEPT ![Task] = [cycles[Task] EXCEPT ![a] = new]]
  BY <1>4 DEF L!CompletePhase, LP!IInv, LP!TypeOK, Attempts, Phases
<1> HIDE DEF new
<1>10. RowBecomes(a, new.status, new.phases)
  BY <1>8, <1>9, RowEdit
<1> QED
  BY <1>2, <1>6, <1>7, <1>8, <1>10

LEMMA TerminateEffect ==
    ASSUME LP!IInv, NEW a \in DOMAIN Attempts,
           NEW status \in {"succeeded", "failed", "aborted"}, L!Terminate(Task, a, status)
    PROVE  LP!IInv' /\ RowBecomes(a, status, Phases(a)) /\ ~LastRuns(a)
<1> DEFINE new == [Attempts[a] EXCEPT !.status = status]
<1>1. LP!Terminate(Task, a, status) /\ status \in LP!TerminalCycleStatus /\ Task \in {Task}
  BY DEF L!Terminate, L!HasRunningPhase, LP!Terminate, LP!HasRunningPhase,
         LP!TerminalCycleStatus
<1>2. LP!IInv'
  <2>1. LP!CycleStep(Task, a)
    BY <1>1 DEF LP!CycleStep
  <2> QED
    BY <1>1, <2>1, LedgerBounds, LP!CycleStepIInv DEF Attempts
<1>3. new \in LP!CycleRow /\ new.phases = Phases(a) /\ new.status = status
  BY <1>1, LedgerRows DEF LP!CycleRow, Phases
<1>4. cycles' = [cycles EXCEPT ![Task] = [cycles[Task] EXCEPT ![a] = new]]
  BY DEF L!Terminate, LP!IInv, LP!TypeOK, Attempts
<1>5. ~LastRuns(a)
  BY LedgerRows DEF LastRuns, L!Terminate, L!HasRunningPhase, Phases, Attempts
<1> HIDE DEF new
<1> QED
  BY <1>2, <1>3, <1>4, <1>5, RowEdit

-----------------------------------------------------------------------------
(* What a step does to the rows of the ledger and to the notes.              *)

OtherRowsStay(a) ==
    /\ Len(Attempts') = Len(Attempts) /\ DOMAIN Attempts' = DOMAIN Attempts
    /\ \A b \in DOMAIN Attempts : b # a => Attempts'[b] = Attempts[b]
    /\ \A b \in DOMAIN Attempts : b # a => Phases(b)' = Phases(b)

PhaseOpens(a, kind) ==
    /\ LP!IInv' /\ OtherRowsStay(a)
    /\ Attempts[a].status = "running" /\ Attempts'[a].status = "running"
    /\ Len(Phases(a)') = Len(Phases(a)) + 1
    /\ DOMAIN Phases(a)' = 1..(Len(Phases(a)) + 1)
    /\ \A p \in DOMAIN Phases(a) : Phases(a)'[p] = Phases(a)[p]
    /\ Phases(a)'[Len(Phases(a)) + 1] = [kind |-> kind, status |-> "running"]

PhaseCloses(a, status) ==
    /\ LP!IInv' /\ OtherRowsStay(a)
    /\ Attempts[a].status = "running" /\ Attempts'[a].status = "running"
    /\ a = Len(Attempts) /\ LastRuns(a)
    /\ Len(Phases(a)') = Len(Phases(a)) /\ DOMAIN Phases(a)' = DOMAIN Phases(a)
    /\ \A p \in DOMAIN Phases(a) : p # Len(Phases(a)) => Phases(a)'[p] = Phases(a)[p]
    /\ Phases(a)'[Len(Phases(a))] = [kind |-> Phases(a)[Len(Phases(a))].kind, status |-> status]

CycleCloses(a, status) ==
    /\ LP!IInv' /\ OtherRowsStay(a)
    /\ ~LastRuns(a) /\ Phases(a)' = Phases(a) /\ Attempts'[a].status = status

CycleOpens ==
    /\ LP!IInv'
    /\ Len(Attempts') = Len(Attempts) + 1
    /\ DOMAIN Attempts' = DOMAIN Attempts \cup {Len(Attempts) + 1}
    /\ \A b \in DOMAIN Attempts :
          Closed(b) /\ Attempts'[b] = Attempts[b] /\ Phases(b)' = Phases(b)
    /\ Attempts'[Len(Attempts) + 1].status = "running"
    /\ Attempts'[Len(Attempts) + 1].phases = <<>>

LEMMA CycleOpening == ASSUME LP!IInv, L!StartCycle(Task) PROVE CycleOpens
<1>1. \A b : Phases(b)' = Attempts'[b].phases /\ Phases(b) = Attempts[b].phases
  BY DEF Phases
<1> QED
  BY <1>1, StartCycleEffect DEF CycleOpens

LEMMA PhaseOpening ==
    ASSUME LP!IInv, NEW a \in DOMAIN Attempts, NEW kind \in {"execute", "verify"},
           L!StartPhase(Task, a, kind)
    PROVE  PhaseOpens(a, kind)
<1> DEFINE open == [kind |-> kind, status |-> "running"]
<1>1. /\ LP!IInv' /\ RowBecomes(a, "running", Append(Phases(a), open)) /\ ~Closed(a)
  BY StartPhaseEffect
<1>2. \A b : Phases(b)' = Attempts'[b].phases /\ Phases(b) = Attempts[b].phases
  BY DEF Phases
<1>3. Phases(a) \in Seq(LP!PhaseRow) /\ open \in LP!PhaseRow
  BY LedgerRows DEF LP!PhaseRow, LP!PhaseKinds
<1>4. LET u == Append(Phases(a), open)
      IN  /\ Len(u) = Len(Phases(a)) + 1 /\ DOMAIN u = 1..(Len(Phases(a)) + 1)
          /\ u[Len(Phases(a)) + 1] = open
          /\ \A p \in DOMAIN Phases(a) : u[p] = Phases(a)[p]
  BY <1>3
<1>5. Attempts[a].status = "running"
  BY <1>1 DEF Closed
<1> HIDE DEF open
<1>6. OtherRowsStay(a) /\ Attempts'[a].status = "running" /\ Phases(a)' = Append(Phases(a), open)
  BY <1>1, <1>2 DEF RowBecomes, OtherRowsStay
<1> QED
  BY <1>1, <1>4, <1>5, <1>6 DEF PhaseOpens, open

LEMMA PhaseClosing ==
    ASSUME LP!IInv, NEW a \in DOMAIN Attempts, NEW p \in DOMAIN Phases(a),
           NEW status \in {"succeeded", "failed", "interrupted"},
           L!CompletePhase(Task, a, p, status)
    PROVE  PhaseCloses(a, status) /\ p = Len(Phases(a))
<1> DEFINE done == [kind |-> Phases(a)[p].kind, status |-> status]
<1>1. /\ LP!IInv' /\ RowBecomes(a, "running", [Phases(a) EXCEPT ![p] = done])
      /\ p = Len(Phases(a)) /\ Phases(a)[p].status = "running" /\ ~Closed(a)
      /\ a = Len(Attempts)
  BY CompletePhaseEffect DEF done
<1>2. \A b : Phases(b)' = Attempts'[b].phases /\ Phases(b) = Attempts[b].phases
  BY DEF Phases
<1>3. Phases(a) \in Seq(LP!PhaseRow) /\ Phases(a)[p] \in LP!PhaseRow
  BY LedgerRows
<1> HIDE DEF done
<1>8. done \in LP!PhaseRow
  BY <1>3 DEF LP!PhaseRow, LP!TerminalPhaseStatus, done
<1>4. LET u == [Phases(a) EXCEPT ![p] = done]
      IN  /\ Len(u) = Len(Phases(a)) /\ DOMAIN u = DOMAIN Phases(a)
          /\ u[p] = done
          /\ \A q \in DOMAIN Phases(a) : q # p => u[q] = Phases(a)[q]
  BY <1>3, <1>8, LedgerBounds, LP!UpdateElement
<1>5. Attempts[a].status = "running"
  BY <1>1 DEF Closed
<1>6. OtherRowsStay(a) /\ Attempts'[a].status = "running"
      /\ Phases(a)' = [Phases(a) EXCEPT ![p] = done]
  BY <1>1, <1>2 DEF RowBecomes, OtherRowsStay
<1>7. LastRuns(a)
  BY <1>1, LedgerRows DEF LastRuns
<1> QED
  BY <1>1, <1>4, <1>5, <1>6, <1>7 DEF PhaseCloses, done

LEMMA CycleClosing ==
    ASSUME LP!IInv, NEW a \in DOMAIN Attempts,
           NEW status \in {"succeeded", "failed", "aborted"}, L!Terminate(Task, a, status)
    PROVE  CycleCloses(a, status)
<1>1. LP!IInv' /\ RowBecomes(a, status, Phases(a)) /\ ~LastRuns(a)
  BY TerminateEffect
<1>2. \A b : Phases(b)' = Attempts'[b].phases /\ Phases(b) = Attempts[b].phases
  BY DEF Phases
<1> QED
  BY <1>1, <1>2 DEF CycleCloses, RowBecomes, OtherRowsStay

\* The ledger is not written.
LedgerStays ==
    /\ LP!IInv' /\ Attempts' = Attempts
    /\ \A b : Phases(b)' = Phases(b)

LEMMA LedgerStutters == ASSUME LP!IInv, UNCHANGED cycles PROVE LedgerStays
  BY LedgerBounds, LP!StepIInv DEF LedgerStays, Attempts, Phases

\* What has happened to attempt a is not forgotten.
MarksStay(a) ==
    (notes[a].unsaved => notes'[a].unsaved) /\ (notes[a].resumed => notes'[a].resumed)

\* The notes of attempt a are these now; no others have changed.
NotesBecome(a, bases, commits, rows, judged, restored, off) ==
    /\ Len(notes') = Len(notes) /\ DOMAIN notes' = DOMAIN notes
    /\ \A b \in DOMAIN notes : b # a => notes'[b] = notes[b]
    /\ notes'[a].bases = bases /\ notes'[a].commits = commits /\ notes'[a].rows = rows
    /\ notes'[a].judged = judged /\ notes'[a].restored = restored /\ notes'[a].off = off
    /\ notes' \in Seq(NotesRow) /\ MarksStay(a)

LEMMA NotesEdit ==
    ASSUME notes \in Seq(NotesRow), NEW a \in DOMAIN notes, NEW new \in NotesRow,
           notes' = [notes EXCEPT ![a] = new],
           notes[a].unsaved => new.unsaved, notes[a].resumed => new.resumed
    PROVE  NotesBecome(a, new.bases, new.commits, new.rows, new.judged, new.restored, new.off)
<1>1. LET u == [notes EXCEPT ![a] = new]
      IN  /\ u \in Seq(NotesRow) /\ Len(u) = Len(notes) /\ DOMAIN u = DOMAIN notes /\ u[a] = new
          /\ \A b \in DOMAIN notes : b # a => u[b] = notes[b]
  BY LedgerBounds, LP!UpdateElement
<1> QED
  BY <1>1 DEF NotesBecome, MarksStay

-----------------------------------------------------------------------------
(* What a step does to the locals of the run.                                *)

\* The run goes on at at, with nothing else changed.
Goes(at) ==
    /\ run' \in RunRow /\ run'.at = at
    /\ run'.a = run.a /\ run'.retry = run.retry /\ run'.seed = run.seed
    /\ run'.skip = run.skip /\ run'.off = run.off /\ run'.head = run.head
    /\ run'.ok = run.ok /\ run'.reached = run.reached /\ run'.attempt = run.attempt
    /\ run'.passed = run.passed /\ run'.result = run.result /\ run'.left = run.left

LEMMA Going ==
    ASSUME run \in RunRow, NEW at \in Places, Go(at)
    PROVE  Goes(at)
  BY DEF Go, Goes, RunRow

\* Only where it stands, its attempt and its result are left of it.
Drops(at, a, result) ==
    /\ run' \in RunRow /\ run'.at = at /\ run'.a = a /\ run'.result = result
    /\ run'.retry = NoRetry /\ run'.seed = FALSE /\ run'.off = FALSE
    /\ run'.passed = NoVerdicts /\ run'.left = {}

LEMMA NothingHeld == Idle \in RunRow /\ NoVerdicts \in Verdicts /\ NoRetry \in Retry
<1>1. NoVerdicts \in [{} -> Verdict]
  BY DEF NoVerdicts
<1>2. NoVerdicts \in Verdicts /\ NoRetry \in Retry
  BY <1>1 DEF Verdicts, NoRetry, Retry
<1>3. None \in Revision
  BY DEF None, Revision
<1> QED
  BY <1>2, <1>3 DEF Idle, RunRow, Places

LEMMA Stopping ==
    ASSUME run \in RunRow
    PROVE  /\ \A result \in {"succeeded", "failed"} :
                run' = Closing(result) => Drops("close", run.a, result)
           /\ \A at \in {"abortPhase", "abortCycle"} : \A result \in {"failed", "aborted"} :
                run' = Aborting(at, result) => Drops(at, run.a, result)
           /\ run' = Idle => Drops("idle", 0, "none")
<1>1. run.a \in Nat
  BY DEF RunRow
<1>2. ASSUME NEW at \in Places, NEW result \in {"none", "succeeded", "failed", "aborted"},
             run' = [Idle EXCEPT !.at = at, !.a = run.a, !.result = result]
      PROVE  Drops(at, run.a, result)
  <2> DEFINE now == [Idle EXCEPT !.at = at, !.a = run.a, !.result = result]
  <2>1. now \in RunRow
    BY <1>1, NothingHeld DEF RunRow
  <2>2. /\ now.at = at /\ now.a = run.a /\ now.result = result
        /\ now.retry = NoRetry /\ now.seed = FALSE /\ now.off = FALSE
        /\ now.passed = NoVerdicts /\ now.left = {}
    BY DEF Idle
  <2> HIDE DEF now
  <2>3. run' = now
    BY <1>2 DEF now
  <2> QED
    BY <2>1, <2>2, <2>3 DEF Drops
<1>3. {"close", "abortPhase", "abortCycle"} \subseteq Places
  BY DEF Places, Holding
<1>4. ASSUME run' = Idle PROVE Drops("idle", 0, "none")
  <2>1. /\ Idle.at = "idle" /\ Idle.a = 0 /\ Idle.result = "none"
        /\ Idle.retry = NoRetry /\ Idle.seed = FALSE /\ Idle.off = FALSE
        /\ Idle.passed = NoVerdicts /\ Idle.left = {}
    BY DEF Idle
  <2> QED
    BY <1>4, <2>1, NothingHeld DEF Drops
<1>5. ASSUME NEW result \in {"succeeded", "failed"}, run' = Closing(result)
      PROVE  Drops("close", run.a, result)
  BY <1>2, <1>3, <1>5 DEF Closing
<1>6. ASSUME NEW at \in {"abortPhase", "abortCycle"}, NEW result \in {"failed", "aborted"},
             run' = Aborting(at, result)
      PROVE  Drops(at, run.a, result)
  BY <1>2, <1>3, <1>6 DEF Aborting
<1> QED
  BY <1>4, <1>5, <1>6

LEMMA Spending ==
    ASSUME TypeInv, NEW what \in {"ops", "crashes", "faults"}, Spend(what)
    PROVE  /\ spent' \in [ops : Nat, crashes : Nat, faults : Nat]
           /\ spent'.faults = IF what = "faults" THEN spent.faults + 1 ELSE spent.faults
  BY DEF TypeInv, Spend

LEMMA FaultIsSpent ==
    ASSUME TypeInv, Fault
    PROVE  spent' \in [ops : Nat, crashes : Nat, faults : Nat] /\ spent'.faults > 0
<1>1. Spend("faults")
  BY DEF Fault
<1>2. spent'.faults = spent.faults + 1 /\ spent' \in [ops : Nat, crashes : Nat, faults : Nat]
  BY <1>1, Spending
<1>3. spent.faults \in Nat
  BY DEF TypeInv
<1> QED
  BY <1>2, <1>3

-----------------------------------------------------------------------------
(* The steps keep the types and the shape.  First those that leave the       *)
(* ledger and the notes alone.                                               *)

LEMMA Holds ==
    ASSUME Base, run.at \in Holding \cup {"settle"}
    PROVE  /\ run.a \in DOMAIN Attempts /\ run.a \in DOMAIN notes /\ run.a \in Nat
           /\ run.a = Len(Attempts)
           /\ run.at # "settle" => Attempts[run.a].status = "running"
<1>1. run.a = Len(Attempts) /\ run.a # 0
  BY DEF Base, RunShape
<1>2. Len(Attempts) \in Nat /\ DOMAIN Attempts = 1..Len(Attempts) /\ DOMAIN notes = 1..Len(notes)
  BY LedgerRows DEF Base, TypeInv
<1>3. run.at # "settle" => Attempts[run.a].status = "running"
  BY DEF Base, RunShape, Closed
<1> QED
  BY <1>1, <1>2, <1>3 DEF Base, NotesShape

LEMMA StillBase ==
    ASSUME Base, UNCHANGED <<cycles, notes, world>>,
           run' \in RunRow, row' \in {"ready", "running", "failed", "done"},
           pending' \in Retry, completions' \in Completions, tree' \in Revision,
           spent' \in [ops : Nat, crashes : Nat, faults : Nat],
           RetryShape', RunShape'
    PROVE  Base'
<1>1. LedgerStays
  BY LedgerStutters DEF Base
<1>2. TypeInv' /\ SeqsAreBounded'
  BY DEF Base, TypeInv, SeqsAreBounded
<1>3. NotesShape'
  BY <1>1 DEF Base, NotesShape, LedgerStays
<1> QED
  BY <1>1, <1>2, <1>3 DEF Base, LedgerStays

\* Nothing but the place of the run has changed: what its old place promised
\* has to give what the new one does.
LEMMA GoBase ==
    ASSUME Base, UNCHANGED <<cycles, notes, row, pending, world>>,
           completions' \in Completions, tree' \in Revision,
           spent' \in [ops : Nat, crashes : Nat, faults : Nat],
           NEW at \in Places, Goes(at), run.at # "idle",
           \/ at = "failTask"
           \/ at = "startCycle" /\ run.at = "reset"
           \/ at = "snapshot" /\ run.at = "mirror"
    PROVE  Base'
<1>1. LedgerStays
  BY LedgerStutters DEF Base
<1>2. RetryShape'
  BY <1>1 DEF Base, RetryShape, ParentIsClosed, Goes, LedgerStays, Executes, Closed, Seeding, Phases
<1>3. RunShape'
  BY <1>1 DEF Base, RunShape, Goes, LedgerStays, Closed, Holding, Working, Seeding, Looping, Verifying
<1> QED
  BY <1>1, <1>2, <1>3, StillBase DEF Goes, Base, TypeInv

\* The run keeps nothing.
LEMMA DropBase ==
    ASSUME Base, UNCHANGED <<cycles, notes, pending, world>>,
           row' \in {"ready", "running", "failed", "done"},
           completions' \in Completions, tree' \in Revision,
           spent' \in [ops : Nat, crashes : Nat, faults : Nat],
           NEW at, NEW result, NEW a, Drops(at, a, result),
           \/ at = "idle"
           \/ /\ at \in {"close", "abortPhase", "abortCycle"}
              /\ run.at \in Holding /\ a = run.a
              /\ at = "close" => result \in {"succeeded", "failed"}
              /\ at \in {"abortPhase", "abortCycle"} => result \in {"failed", "aborted"}
              /\ at = "abortPhase" => run.at \in {"agent"} \cup Verifying
    PROVE  Base'
<1>1. LedgerStays
  BY LedgerStutters DEF Base
<1>2. RetryShape'
  BY <1>1 DEF Base, RetryShape, ParentIsClosed, Drops, LedgerStays, Closed, Seeding, NoRetry
<1>3. RunShape'
  <2>1. CASE at = "idle"
    BY <2>1 DEF RunShape, Drops, Holding, Working, Seeding, Looping, Verifying
  <2>2. CASE at \in {"close", "abortPhase", "abortCycle"} /\ run.at \in Holding /\ a = run.a
    <3>2. run'.a = Len(Attempts) /\ run'.a # 0 /\ Attempts[run'.a].status = "running"
      BY <2>2 DEF Base, RunShape, Closed, Drops
    <3>3. at = "abortPhase" => LastRuns(run.a)
      BY LedgerRows, Holds DEF Base, RunShape, LastIs, LastRuns, Verifying, Holding, Working, Looping
    <3>4. at = "abortPhase" => LastRuns(run.a)'
      BY <1>1, <2>2, <3>3 DEF LastRuns, Drops, LedgerStays, Phases
    <3> QED
      BY <1>1, <2>2, <3>2, <3>4
      DEF RunShape, Drops, LedgerStays, Closed, Holding, Working, Seeding, Looping, Verifying
  <2> QED
    BY <2>1, <2>2
<1> QED
  BY <1>2, <1>3, StillBase DEF Drops, Base, TypeInv

LEMMA RequestBase ==
    ASSUME Base, UNCHANGED world, NEW mode \in {"fresh", "resume"},
           NEW parent \in DOMAIN Attempts, RequestTaskRetry(mode, parent)
    PROVE  Base'
<1>1. LedgerStays
  BY LedgerStutters DEF Base, RequestTaskRetry
<1>2. pending' \in Retry /\ ParentIsClosed(pending)'
  BY <1>1, LedgerRows DEF RequestTaskRetry, Retry, ParentIsClosed, LedgerStays, Closed, Base
<1>3. RetryShape'
  BY <1>1, <1>2 DEF RequestTaskRetry, Base, RetryShape, ParentIsClosed, LedgerStays, Executes,
                    Closed, Phases
<1>4. RunShape'
  BY <1>1 DEF RequestTaskRetry, Base, RunShape, LedgerStays, LastIs, LastRuns, Closed
<1> QED
  BY <1>2, <1>3, <1>4, Spending, StillBase DEF RequestTaskRetry, Base, TypeInv

LEMMA PatchBase ==
    ASSUME Base, UNCHANGED world, NEW to \in {"ready", "running", "failed", "done"}, PatchStatus(to)
    PROVE  Base'
<1>1. LedgerStays
  BY LedgerStutters DEF Base, PatchStatus
<1>2. RetryShape'
  BY <1>1 DEF PatchStatus, Base, RetryShape, ParentIsClosed, LedgerStays, Executes, Closed, Phases
<1>3. RunShape'
  BY <1>1 DEF PatchStatus, Base, RunShape, LedgerStays, LastIs, LastRuns, Closed
<1> QED
  BY <1>2, <1>3, Spending, StillBase DEF PatchStatus, Base, TypeInv

LEMMA PickupBase == ASSUME Base, UNCHANGED world, Pickup PROVE Base'
<1>1. LedgerStays
  BY LedgerStutters DEF Base, Pickup
<1> DEFINE at == CASE pending.mode = "fresh" -> "reset"
                   [] pending.mode = "resume" -> "load"
                   [] OTHER -> "startCycle"
<1>2. pending \in Retry
  BY DEF Base, TypeInv
<1>3. /\ at \in {"reset", "load", "startCycle"}
      /\ at = "reset" => pending.mode = "fresh"
      /\ at = "load" => pending.mode = "resume"
  BY <1>2 DEF Retry
<1> HIDE DEF at
<1>4. run' = [Idle EXCEPT !.retry = pending, !.at = at]
  BY DEF Pickup, at
<1>5. /\ run' \in RunRow /\ run'.at = at /\ run'.retry = pending /\ run'.seed = FALSE
      /\ run'.passed = NoVerdicts
  <2>1. at \in Places
    BY <1>3 DEF Places
  <2> DEFINE now == [Idle EXCEPT !.retry = pending, !.at = at]
  <2>2. now \in RunRow
    BY <1>2, <2>1, NothingHeld DEF RunRow
  <2>3. now.at = at /\ now.retry = pending /\ now.seed = FALSE /\ now.passed = NoVerdicts
    BY DEF Idle
  <2> QED
    BY <1>4, <2>2, <2>3
<1>6. RetryShape'
  BY <1>1, <1>3, <1>5 DEF Pickup, Base, RetryShape, ParentIsClosed, LedgerStays, Closed, Seeding, NoRetry
<1>7. RunShape'
  BY <1>3, <1>5 DEF Pickup, RunShape, Holding, Working, Seeding, Looping, Verifying
<1> QED
  BY <1>5, <1>6, <1>7, NothingHeld, StillBase DEF Pickup, Base, TypeInv

LEMMA MirrorBase == ASSUME Base, UNCHANGED world, MirrorParentCriteria PROVE Base'
<1>1. PICK at \in {"snapshot", "failTask"} : Go(at)
  BY DEF MirrorParentCriteria
<1>2. at \in Places /\ run.at = "mirror"
  BY DEF MirrorParentCriteria, Places, Holding, Working, Seeding
<1>3. Goes(at)
  BY <1>1, <1>2, Going DEF Base, TypeInv
<1>4. spent' \in [ops : Nat, crashes : Nat, faults : Nat]
  BY FaultIsSpent DEF MirrorParentCriteria, Base, TypeInv
<1> QED
  BY <1>1, <1>2, <1>3, <1>4, GoBase DEF MirrorParentCriteria, Base, TypeInv

LEMMA GitProbeBase == ASSUME Base, UNCHANGED world, GitProbeFails PROVE Base'
<1>1. Drops("abortPhase", run.a, "failed") /\ run.at = "agent"
  BY Stopping DEF GitProbeFails, Base, TypeInv
<1>2. spent' \in [ops : Nat, crashes : Nat, faults : Nat]
  BY FaultIsSpent DEF GitProbeFails, Base, TypeInv
<1> QED
  BY <1>1, <1>2, DropBase
  DEF GitProbeFails, Base, TypeInv, Holding, Working, Looping

LEMMA FailTaskBase == ASSUME Base, UNCHANGED world, FailTask PROVE Base'
<1>1. Drops("idle", 0, "none")
  BY Stopping DEF FailTask, Base, TypeInv
<1>2. spent' \in [ops : Nat, crashes : Nat, faults : Nat] /\ row' \in {"failed", row}
  BY FaultIsSpent DEF FailTask, Base, TypeInv
<1> QED
  BY <1>1, <1>2, DropBase DEF FailTask, Base, TypeInv

LEMMA SettleBase == ASSUME Base, UNCHANGED world, Settle PROVE Base'
<1>1. Drops("idle", 0, "none")
  BY Stopping DEF Settle, Base, TypeInv
<1>2. spent' \in [ops : Nat, crashes : Nat, faults : Nat] /\ row' \in {"failed", "done", row}
  BY FaultIsSpent DEF Settle, Base, TypeInv
<1> QED
  BY <1>1, <1>2, DropBase DEF Settle, Base, TypeInv

LEMMA FinalizeBase == ASSUME Base, UNCHANGED world, FinalizeSuccess PROVE Base'
<1>1. Drops("close", run.a, "succeeded") /\ run.at = "finalize"
  BY Stopping DEF FinalizeSuccess, Base, TypeInv
<1> QED
  BY <1>1, DropBase DEF FinalizeSuccess, Base, TypeInv, Holding

LEMMA VerdictsTyped ==
    ASSUME Base, NEW c \in Locked
    PROVE  c \in Criteria /\ run.passed[c] \in Verdict
<1>1. PICK S \in SUBSET Criteria : run.passed \in [S -> Verdict]
  BY DEF Base, TypeInv, RunRow, Verdicts
<1> QED
  BY <1>1 DEF Locked

\* The place and the list of what is left to complete.
LEMMA LeftBase ==
    ASSUME Base, UNCHANGED <<cycles, notes, row, pending, tree, spent, world>>,
           completions' \in Completions, NEW left \in SUBSET Locked,
           run.at \in {"verify", "finalize"},
           run' = [run EXCEPT !.at = "finalize", !.left = left]
    PROVE  Base'
<1>1. /\ run' \in RunRow /\ run'.at = "finalize" /\ run'.a = run.a /\ run'.retry = run.retry
      /\ run'.left \subseteq DOMAIN run'.passed
  <2>1. left \in SUBSET Criteria
    BY VerdictsTyped
  <2> QED
    BY <2>1 DEF Base, TypeInv, RunRow, Places, Holding, Locked
<1>2. LedgerStays
  BY LedgerStutters DEF Base
<1>3. RetryShape'
  BY <1>1, <1>2 DEF Base, RetryShape, ParentIsClosed, LedgerStays, Closed, Seeding
<1>4. RunShape'
  BY <1>1, <1>2
  DEF Base, RunShape, LedgerStays, Closed, Holding, Working, Seeding, Looping, Verifying
<1> QED
  BY <1>1, <1>3, <1>4, StillBase DEF Base, TypeInv

LEMMA CompletingTyped ==
    ASSUME Base, NEW c \in Criteria, NEW by \in {"legacy", "verifier"}, NEW at \in Revision
    PROVE  /\ Completed(c, by, at) \in Completions
           /\ DOMAIN Completed(c, by, at) = {c} \cup DOMAIN completions
           /\ Completed(c, by, at)[c].a = run.a /\ Completed(c, by, at)[c].at = at
           /\ \A d \in DOMAIN completions : d # c => Completed(c, by, at)[d] = completions[d]
<1>1. PICK S \in SUBSET Criteria : completions \in [S -> CompletionRow]
  BY DEF Base, TypeInv, Completions
<1>2. [a |-> run.a, by |-> by, at |-> at] \in CompletionRow
  BY DEF Base, TypeInv, RunRow, CompletionRow
<1>3. Completed(c, by, at) \in [{c} \cup S -> CompletionRow]
  <2> HIDE DEF CompletionRow
  <2> QED
    BY <1>1, <1>2 DEF Completed
<1>4. {c} \cup S \in SUBSET Criteria
  OBVIOUS
<1>5. Completed(c, by, at) \in Completions
  BY <1>3, <1>4 DEF Completions
<1> QED
  BY <1>5 DEF Completed

LEMMA CompleteLegacyBase == ASSUME Base, UNCHANGED world, CompleteLegacy PROVE Base'
<1>1. run.at = "verify" /\ run \in RunRow /\ tree \in Revision
  BY DEF CompleteLegacy, Base, TypeInv
<1>2. ASSUME NEW c \in Criteria, completions' = Completed(c, "legacy", tree), UNCHANGED <<run, spent>>
      PROVE  Base'
  <2>1. completions' \in Completions
    BY <1>1, <1>2, CompletingTyped
  <2>2. LedgerStays
    BY LedgerStutters DEF Base, CompleteLegacy
  <2>3. RetryShape' /\ RunShape'
    BY <1>2, <2>2
    DEF CompleteLegacy, Base, RetryShape, RunShape, ParentIsClosed, LedgerStays, Closed, Executes,
        LastIs, LastRuns, Phases
  <2> QED
    BY <1>2, <2>1, <2>3, StillBase DEF CompleteLegacy, Base, TypeInv
<1>3. ASSUME run' = [run EXCEPT !.at = "finalize", !.left = Locked], UNCHANGED <<completions, spent>>
      PROVE  Base'
  <2> QED
    BY <1>1, <1>3, LeftBase DEF CompleteLegacy, Base, TypeInv
<1>4. ASSUME Fault, run' = Closing("failed"), UNCHANGED completions
      PROVE  Base'
  <2>1. Drops("close", run.a, "failed")
    BY <1>4, Stopping DEF Base, TypeInv
  <2> QED
    BY <1>1, <1>4, <2>1, FaultIsSpent, DropBase
    DEF CompleteLegacy, Base, TypeInv, Holding, Working, Looping
<1> QED
  BY <1>2, <1>3, <1>4 DEF CompleteLegacy

LEMMA ApplyBase == ASSUME Base, UNCHANGED world, ApplyCompletion PROVE Base'
<1>1. PICK c \in run.left :
         \/ /\ Accepted(run.passed[c])
            /\ completions' = Completed(c, "verifier", run.passed[c].at)
            /\ run' = [run EXCEPT !.left = @ \ {c}]
            /\ UNCHANGED spent
         \/ /\ Fails(~Accepted(run.passed[c]))
            /\ run' = Closing("failed")
            /\ UNCHANGED completions
  BY DEF ApplyCompletion
<1>2. run.at = "finalize" /\ c \in Locked
  BY DEF ApplyCompletion, Base, RunShape, Locked
<1>3. CASE /\ completions' = Completed(c, "verifier", run.passed[c].at)
           /\ run' = [run EXCEPT !.left = @ \ {c}]
           /\ UNCHANGED spent
  <2>1. c \in Criteria /\ run.passed[c].at \in Revision
    BY <1>2, VerdictsTyped DEF Verdict
  <2>2. completions' \in Completions
    BY <1>3, <2>1, CompletingTyped
  <2>3. run.left \ {c} \in SUBSET Locked
    BY <1>2 DEF Base, RunShape, Locked
  <2>4. run' = [run EXCEPT !.at = "finalize", !.left = run.left \ {c}]
    BY <1>2, <1>3 DEF Base, TypeInv, RunRow
  <2> QED
    BY <1>2, <1>3, <2>2, <2>3, <2>4, LeftBase DEF ApplyCompletion
<1>4. CASE /\ Fails(~Accepted(run.passed[c]))
           /\ run' = Closing("failed")
           /\ UNCHANGED completions
  <2>1. Drops("close", run.a, "failed")
    BY <1>4, Stopping DEF Base, TypeInv
  <2>2. spent' \in [ops : Nat, crashes : Nat, faults : Nat]
    BY <1>4, FaultIsSpent DEF Fails, Base, TypeInv
  <2> QED
    BY <1>2, <1>4, <2>1, <2>2, DropBase DEF ApplyCompletion, Base, TypeInv, Holding
<1> QED
  BY <1>1, <1>3, <1>4

\* The bases and the commits an anchor is taken from.
LEMMA BasesTyped ==
    ASSUME Base, NEW a \in DOMAIN Attempts
    PROVE  /\ a \in DOMAIN notes /\ notes[a] \in NotesRow
           /\ DOMAIN notes[a].bases = DOMAIN Phases(a)
           /\ \A p \in DOMAIN Phases(a) : notes[a].bases[p] \in Revision
           /\ notes[a].commits \in SUBSET (Revision \ {<<>>})
<1>1. a \in DOMAIN notes /\ notes[a] \in NotesRow
  BY LedgerRows DEF Base, TypeInv, NotesShape
<1>2. notes[a].bases \in Seq(Revision) /\ notes[a].commits \in SUBSET (Revision \ {<<>>})
  BY <1>1 DEF NotesRow
<1>3. DOMAIN notes[a].bases = DOMAIN Phases(a)
  BY <1>1, <1>2, LedgerRows DEF Base, NotesShape
<1> QED
  BY <1>1, <1>2, <1>3

LEMMA AnchorsTyped ==
    ASSUME Base, NEW a \in DOMAIN Attempts, NEW anchor \in Anchors(a)
    PROVE  anchor \in Revision
<1>1. CASE anchor \in FirstBase(a)
  BY <1>1, BasesTyped DEF FirstBase, Executes
<1>2. CASE anchor \in FallbackAnchors(a)
  <2>1. PICK commit \in notes[a].commits : anchor = Front(commit)
    BY <1>2 DEF FallbackAnchors
  <2>2. commit \in Seq(Nat) /\ commit # <<>>
    BY <2>1, BasesTyped DEF Revision
  <2>3. SubSeq(commit, 1, Len(commit) - 1) \in Seq(Nat)
    BY <2>2
  <2> QED
    BY <2>1, <2>3 DEF Front, Revision
<1> QED
  BY <1>1, <1>2 DEF Anchors

LEMMA ResetBase == ASSUME Base, UNCHANGED world, ResetForFreshRetry PROVE Base'
<1>1. run.at = "reset" /\ run.retry.parent \in DOMAIN Attempts
  BY DEF ResetForFreshRetry, Base, RetryShape, ParentIsClosed
<1>2. tree' \in Revision
  BY <1>1, AnchorsTyped DEF ResetForFreshRetry, Base, TypeInv
<1>3. spent' \in [ops : Nat, crashes : Nat, faults : Nat]
  BY FaultIsSpent DEF ResetForFreshRetry, Fails, Base, TypeInv
<1>4. \/ Goes("startCycle") \/ Goes("failTask")
  BY Going DEF ResetForFreshRetry, Base, TypeInv, Places
<1> QED
  BY <1>1, <1>2, <1>3, <1>4, GoBase DEF ResetForFreshRetry, Base, TypeInv, Places

LEMMA RestoringTyped ==
    ASSUME Base, NEW a \in DOMAIN Attempts
    PROVE  /\ RestoredVerdicts(a) \in Verdicts
           /\ \A c \in DOMAIN RestoredVerdicts(a) : ~RestoredVerdicts(a)[c].ev
<1> DEFINE good == {r \in notes[a].rows : r.ok}
           of(c) == CHOOSE r \in notes[a].rows : r.c = c /\ r.ok
<1>1. notes[a].rows \in SUBSET ReportRow
  BY BasesTyped DEF NotesRow
<1>2. {r.c : r \in good} \in SUBSET Criteria
  BY <1>1 DEF ReportRow
<1>3. \A c \in {r.c : r \in good} : [ev |-> FALSE, at |-> of(c).at] \in Verdict
  <2> TAKE c \in {r.c : r \in good}
  <2>1. of(c) \in notes[a].rows
    OBVIOUS
  <2>2. of(c).at \in Revision
    BY <1>1, <2>1 DEF ReportRow
  <2> QED
    BY <2>2 DEF Verdict
<1>4. RestoredVerdicts(a) = [c \in {r.c : r \in good} |-> [ev |-> FALSE, at |-> of(c).at]]
  BY DEF RestoredVerdicts
<1> HIDE DEF good, of
<1>5. RestoredVerdicts(a) \in [{r.c : r \in good} -> Verdict]
  BY <1>3, <1>4
<1>6. RestoredVerdicts(a) \in Verdicts
  BY <1>2, <1>5 DEF Verdicts
<1> QED
  BY <1>4, <1>6

LEMMA LoadBase == ASSUME Base, UNCHANGED world, LoadCheckpointFromParent PROVE Base'
<1>1. run.at = "load" /\ run.retry.mode = "resume" /\ run.retry.parent \in DOMAIN Attempts
  BY DEF LoadCheckpointFromParent, Base, RetryShape, ParentIsClosed
<1>2. LedgerStays
  BY LedgerStutters DEF Base, LoadCheckpointFromParent
<1>3. ASSUME run' = [run EXCEPT !.at = "startCycle",
                                !.passed = RestoredVerdicts(run.retry.parent),
                                !.seed = VerifyOnlyEntry(run.retry.parent),
                                !.skip = VerifyOnlyEntry(run.retry.parent)],
             UNCHANGED spent
      PROVE  Base'
  <2>1. VerifyOnlyEntry(run.retry.parent) \in BOOLEAN
    BY DEF VerifyOnlyEntry
  <2>2. RestoredVerdicts(run.retry.parent) \in Verdicts
    BY <1>1, RestoringTyped
  <2>3. /\ run' \in RunRow /\ run'.at = "startCycle" /\ run'.retry = run.retry
        /\ run'.seed = VerifyOnlyEntry(run.retry.parent)
    BY <1>3, <2>1, <2>2 DEF Base, TypeInv, RunRow, Places
  <2>4. run'.seed => Executes(run.retry.parent) # {}
    BY <2>3 DEF VerifyOnlyEntry
  <2>5. Executes(run.retry.parent)' = Executes(run.retry.parent)
    BY <1>2, <2>3 DEF Executes, LedgerStays, Phases
  <2>6. RetryShape'
    BY <1>1, <1>2, <2>3, <2>4, <2>5
    DEF LoadCheckpointFromParent, Base, RetryShape, ParentIsClosed, LedgerStays, Closed, Seeding
  <2>7. RunShape'
    BY <1>1, <2>3
    DEF LoadCheckpointFromParent, Base, RunShape, Holding, Working, Seeding, Looping, Verifying
  <2> QED
    BY <1>3, <2>3, <2>6, <2>7, StillBase DEF LoadCheckpointFromParent, Base, TypeInv
<1>4. ASSUME Fault, Go("failTask")
      PROVE  Base'
  <2>1. Goes("failTask")
    BY <1>4, Going DEF Base, TypeInv, Places
  <2> QED
    BY <1>1, <1>4, <2>1, FaultIsSpent, GoBase DEF LoadCheckpointFromParent, Base, TypeInv, Places
<1> QED
  BY <1>3, <1>4 DEF LoadCheckpointFromParent

-----------------------------------------------------------------------------
(* The steps that write notes.                                               *)

\* Closed attempts stay as they are.
PastIsKept ==
    \A b \in DOMAIN Attempts : Closed(b) =>
        b \in DOMAIN Attempts' /\ Attempts'[b] = Attempts[b] /\ Phases(b)' = Phases(b)

LEMMA PastKept ==
    ASSUME NEW a, \/ LedgerStays
                  \/ OtherRowsStay(a) /\ Attempts[a].status = "running"
                  \/ CycleOpens
    PROVE  PastIsKept
  BY DEF PastIsKept, LedgerStays, OtherRowsStay, CycleOpens, Closed

LEMMA RetryStays ==
    ASSUME Base, PastIsKept, UNCHANGED pending, run'.retry \in {run.retry, NoRetry},
           run'.at \notin {"reset", "load", "startCycle"},
           run'.at \in Seeding /\ run'.seed =>
              /\ run.seed /\ run.at \in {"startCycle"} \cup Seeding
              /\ run'.retry = run.retry /\ run.retry.parent < run'.a,
           run'.at \in {"seedStart", "seedComplete"} => run'.seed
    PROVE  RetryShape'
<1>1. ParentIsClosed(pending)'
  BY DEF Base, RetryShape, ParentIsClosed, PastIsKept, Closed
<1>2. ParentIsClosed(run.retry)'
  BY DEF Base, RetryShape, ParentIsClosed, PastIsKept, Closed, NoRetry
<1>3. ASSUME run'.at \in Seeding, run'.seed
      PROVE  /\ run'.retry.mode = "resume" /\ run'.retry.parent < run'.a
             /\ Executes(run.retry.parent)' # {}
  <2>1. run.retry.mode = "resume" /\ Executes(run.retry.parent) # {} /\ run'.retry = run.retry
    BY <1>3 DEF Base, RetryShape, Seeding
  <2>2. Phases(run.retry.parent)' = Phases(run.retry.parent)
    BY <2>1 DEF Base, RetryShape, ParentIsClosed, PastIsKept, Phases
  <2> QED
    BY <1>3, <2>1, <2>2 DEF Executes
<1> QED
  BY <1>1, <1>2, <1>3 DEF RetryShape, Seeding

\* A step that writes the notes of one attempt and not the ledger.
LEMMA NotesBase ==
    ASSUME Base, UNCHANGED <<cycles, row, pending, completions, world>>,
           tree' \in Revision, spent' \in [ops : Nat, crashes : Nat, faults : Nat],
           NEW a, NEW commits, NEW rows, NEW judged, NEW restored, NEW off,
           NotesBecome(a, notes[a].bases, commits, rows, judged, restored, off),
           \E bound \in Nat : \A r \in rows : r.seq <= bound,
           run' \in RunRow, RetryShape', RunShape'
    PROVE  Base'
<1>1. LedgerStays
  BY LedgerStutters DEF Base
<1>2. TypeInv'
  BY DEF Base, TypeInv, NotesBecome
<1>3. SeqsAreBounded'
  <2> SUFFICES ASSUME NEW b \in DOMAIN notes
               PROVE  \E bound \in Nat : \A r \in notes'[b].rows : r.seq <= bound
    BY DEF SeqsAreBounded, NotesBecome
  <2> QED
    BY DEF Base, SeqsAreBounded, NotesBecome
<1>4. NotesShape'
  BY <1>1 DEF Base, NotesShape, LedgerStays, NotesBecome
<1> QED
  BY <1>1, <1>2, <1>3, <1>4 DEF Base, LedgerStays

LEMMA MaxAttempt ==
    ASSUME Base, NEW a \in DOMAIN Attempts
    PROVE  /\ MaxAttemptSeq(a) \in Nat
           /\ \A r \in notes[a].rows : r.seq <= MaxAttemptSeq(a)
<1> DEFINE S == {0} \cup {r.seq : r \in notes[a].rows}
<1>1. a \in DOMAIN notes /\ notes[a].rows \in SUBSET ReportRow
  BY BasesTyped DEF NotesRow
<1>2. PICK bound \in Nat : \A r \in notes[a].rows : r.seq <= bound
  BY <1>1 DEF Base, SeqsAreBounded
<1>3. S \subseteq Nat /\ S # {} /\ \A x \in S : x <= bound
  BY <1>1, <1>2 DEF ReportRow
<1>4. /\ MaxAttemptSeq(a) = Max(S)
      /\ \A r \in notes[a].rows : r.seq \in S
  BY DEF MaxAttemptSeq
<1> HIDE DEF S
<1>5. Max(S) \in S /\ \A x \in S : x <= Max(S)
  BY <1>3, MaxOfBounded
<1> QED
  BY <1>3, <1>4, <1>5

\* The attempt that is open.
LEMMA OpenAttempt ==
    ASSUME Base, L!HasRunningCycle(Task)
    PROVE  /\ Len(Attempts) \in DOMAIN Attempts /\ Len(Attempts) # 0
           /\ Attempts[Len(Attempts)].status = "running"
  BY LedgerRows DEF L!HasRunningCycle, Base, Attempts

\* A run takes the open attempt up again.
LEMMA ResumeDoes ==
    ASSUME Base, Resume, Resumable(Len(Attempts)), NEW a, a = Len(Attempts)
    PROVE  /\ a \in DOMAIN Attempts /\ Attempts[a].status = "running"
           /\ a \in DOMAIN notes /\ a # 0
           /\ LedgerStays
           /\ run' \in RunRow /\ run'.at = "snapshot" /\ run'.a = a /\ ~run'.seed
           /\ run'.retry = NoRetry /\ run'.attempt = MaxAttemptSeq(a) /\ ~run'.off
           /\ run'.passed = RestoredVerdicts(a) /\ notes'[a].resumed
           /\ NotesBecome(a, notes[a].bases, notes[a].commits, notes[a].rows, notes[a].judged,
                  notes[a].restored \/ DOMAIN RestoredVerdicts(a) # {}, notes[a].off)
<1>1. a \in DOMAIN Attempts /\ Attempts[a].status = "running" /\ a # 0 /\ a \in Nat
  BY OpenAttempt, LedgerRows DEF Resume, Base
<1>2. a \in DOMAIN notes /\ notes[a] \in NotesRow
  BY <1>1, BasesTyped
<1>3. LedgerStays
  BY LedgerStutters DEF Resume, Base
<1> DEFINE skip == ~(/\ Last(Phases(a)).kind = "execute"
                     /\ Last(Phases(a)).status = "interrupted")
           now == [Idle EXCEPT !.at = "snapshot", !.a = a, !.passed = RestoredVerdicts(a),
                               !.attempt = MaxAttemptSeq(a), !.skip = skip]
           back == notes[a].restored \/ DOMAIN RestoredVerdicts(a) # {}
           new == [notes[a] EXCEPT !.resumed = TRUE, !.restored = back]
<1>4. run' = now /\ notes' = [notes EXCEPT ![a] = new]
  BY DEF Resume
<1>5. now \in RunRow
  <2>1. MaxAttemptSeq(a) \in Nat /\ RestoredVerdicts(a) \in Verdicts /\ skip \in BOOLEAN
    BY <1>1, MaxAttempt, RestoringTyped
  <2> HIDE DEF skip
  <2> QED
    BY <1>1, <2>1, NothingHeld DEF RunRow, Places, Holding, Working, Seeding
<1>6. /\ now.at = "snapshot" /\ now.a = a /\ ~now.seed /\ now.retry = NoRetry
      /\ now.attempt = MaxAttemptSeq(a) /\ ~now.off /\ now.passed = RestoredVerdicts(a)
  BY DEF Idle
<1>7. NotesBecome(a, new.bases, new.commits, new.rows, new.judged, new.restored, new.off)
  <2>1. new \in NotesRow
    <3>1. back \in BOOLEAN
      OBVIOUS
    <3> HIDE DEF back
    <3> QED
      BY <1>2, <3>1 DEF NotesRow
  <2>2. (notes[a].unsaved => new.unsaved) /\ (notes[a].resumed => new.resumed)
    BY <1>2 DEF NotesRow
  <2> HIDE DEF new
  <2> QED
    BY <1>2, <1>4, <2>1, <2>2, NotesEdit DEF Base, TypeInv
<1>8. /\ new.bases = notes[a].bases /\ new.commits = notes[a].commits /\ new.rows = notes[a].rows
      /\ (notes[a].unsaved => new.unsaved) /\ (notes[a].resumed => new.resumed)
      /\ new.judged = notes[a].judged /\ new.off = notes[a].off /\ new.restored = back
  BY <1>2 DEF NotesRow
<1>9. notes'[a] = new /\ new.resumed
  BY <1>2, <1>4 DEF Base, TypeInv, NotesRow
<1> HIDE DEF now, new
<1> QED
  BY <1>1, <1>2, <1>3, <1>4, <1>5, <1>6, <1>7, <1>8, <1>9

LEMMA ResumeBase == ASSUME Base, UNCHANGED world, Resume PROVE Base'
<1> DEFINE last == Len(Attempts)
<1>1. CASE Resumable(Len(Attempts))
  <2>1. PICK a : a = Len(Attempts)
    OBVIOUS
  <2>2. /\ a \in DOMAIN Attempts /\ Attempts[a].status = "running" /\ a \in DOMAIN notes /\ a # 0
        /\ LedgerStays
        /\ run' \in RunRow /\ run'.at = "snapshot" /\ run'.a = a /\ ~run'.seed
        /\ run'.retry = NoRetry
        /\ NotesBecome(a, notes[a].bases, notes[a].commits, notes[a].rows, notes[a].judged,
               notes[a].restored \/ DOMAIN RestoredVerdicts(a) # {}, notes[a].off)
    BY <1>1, <2>1, ResumeDoes
  <2>3. RetryShape'
    BY <2>2, PastKept, RetryStays DEF Resume, Seeding
  <2>4. RunShape'
    BY <2>1, <2>2
    DEF Resume, RunShape, LedgerStays, Closed, Holding, Working, Seeding, Looping, Verifying
  <2>5. \E bound \in Nat : \A r \in notes[a].rows : r.seq <= bound
    BY <2>2 DEF Base, SeqsAreBounded
  <2> QED
    BY <2>2, <2>3, <2>4, <2>5, NotesBase DEF Resume, Base, TypeInv
<1>2. CASE ~Resumable(Len(Attempts))
  <2>1. Goes("failTask")
    BY <1>2, Going DEF Resume, Base, TypeInv, Places
  <2>2. RetryShape' /\ RunShape'
    <3>1. RetryShape'
      BY <1>2, <2>1, LedgerStutters, PastKept, RetryStays DEF Resume, Base, Goes, Seeding
    <3>2. RunShape'
      BY <2>1 DEF Resume, RunShape, Goes, Holding, Working, Seeding, Looping, Verifying
    <3> QED
      BY <3>1, <3>2
  <2> QED
    BY <1>2, <2>1, <2>2, StillBase DEF Resume, Base, TypeInv, Goes
<1> QED
  BY <1>1, <1>2

LEMMA LoadSnapshotDoes ==
    ASSUME Base, LoadSnapshot, NEW a, a = run.a
    PROVE  /\ a \in DOMAIN Attempts /\ a \in DOMAIN notes /\ Attempts[a].status = "running"
           /\ LedgerStays
           /\ run' \in RunRow /\ run'.at \in {"verify", "execute"} /\ run'.a = a /\ ~run'.seed
           /\ run'.retry = NoRetry /\ run'.attempt = run.attempt /\ run'.passed = run.passed
           /\ NotesBecome(a, notes[a].bases, notes[a].commits, notes[a].rows, notes[a].judged,
                  notes[a].restored, run'.off)
           /\ spent' \in [ops : Nat, crashes : Nat, faults : Nat]
           /\ run'.off => spent'.faults > 0
           /\ run'.off \/ spent' = spent
<1>1. PICK off \in BOOLEAN :
         /\ IF off THEN Fault ELSE UNCHANGED spent
         /\ run' = [run EXCEPT !.at = IF run.skip THEN "verify" ELSE "execute",
                               !.retry = NoRetry, !.seed = FALSE, !.skip = FALSE, !.off = off]
         /\ notes' = [notes EXCEPT ![a].off = off]
  BY DEF LoadSnapshot
<1>2. a \in DOMAIN Attempts /\ Attempts[a].status = "running" /\ notes[a] \in NotesRow
      /\ a \in DOMAIN notes
  BY Holds, BasesTyped DEF LoadSnapshot, Holding, Working, Seeding
<1>3. LedgerStays
  BY LedgerStutters DEF LoadSnapshot, Base
<1>4. /\ run' \in RunRow /\ run'.at \in {"verify", "execute"} /\ run'.a = a /\ ~run'.seed
      /\ run'.retry = NoRetry /\ run'.attempt = run.attempt /\ run'.passed = run.passed
      /\ run'.off = off
  <2> DEFINE next == IF run.skip THEN "verify" ELSE "execute"
  <2>1. next \in {"verify", "execute"} /\ next \in Places
    BY DEF Places, Holding, Working, Looping
  <2>2. run' = [run EXCEPT !.at = next, !.retry = NoRetry, !.seed = FALSE, !.skip = FALSE,
                           !.off = off]
    BY <1>1
  <2> HIDE DEF next
  <2> QED
    BY <1>1, <2>1, <2>2, NothingHeld, SMTT(15), ZenonT(40) DEF Base, TypeInv, RunRow
<1> DEFINE new == [notes[a] EXCEPT !.off = off]
<1>5. new \in NotesRow /\ notes' = [notes EXCEPT ![a] = new]
  BY <1>1, <1>2 DEF NotesRow
<1>6. /\ new.bases = notes[a].bases /\ new.commits = notes[a].commits /\ new.rows = notes[a].rows
      /\ (notes[a].unsaved => new.unsaved) /\ (notes[a].resumed => new.resumed)
      /\ new.judged = notes[a].judged /\ new.off = off /\ new.restored = notes[a].restored
  BY <1>2 DEF NotesRow
<1> HIDE DEF new
<1>7. NotesBecome(a, new.bases, new.commits, new.rows, new.judged, new.restored, new.off)
  BY <1>2, <1>5, <1>6, NotesEdit DEF Base, TypeInv
<1>8. /\ spent' \in [ops : Nat, crashes : Nat, faults : Nat]
      /\ off => spent'.faults > 0
      /\ off \/ spent' = spent
  BY <1>1, FaultIsSpent DEF Base, TypeInv
<1> QED
  BY <1>2, <1>3, <1>4, <1>6, <1>7, <1>8

LEMMA LoadSnapshotBase == ASSUME Base, UNCHANGED world, LoadSnapshot PROVE Base'
<1>1. PICK a : a = run.a
  OBVIOUS
<1>2. /\ a \in DOMAIN Attempts /\ a \in DOMAIN notes /\ Attempts[a].status = "running"
      /\ LedgerStays
      /\ run' \in RunRow /\ run'.at \in {"verify", "execute"} /\ run'.a = a /\ ~run'.seed
      /\ run'.retry = NoRetry
      /\ NotesBecome(a, notes[a].bases, notes[a].commits, notes[a].rows, notes[a].judged,
             notes[a].restored, run'.off)
      /\ spent' \in [ops : Nat, crashes : Nat, faults : Nat]
  BY <1>1, LoadSnapshotDoes
<1>3. RetryShape'
  BY <1>2, PastKept, RetryStays DEF LoadSnapshot, Seeding
<1>4. RunShape'
  BY <1>1, <1>2
  DEF LoadSnapshot, Base, RunShape, LedgerStays, Closed, Holding, Working, Seeding, Looping, Verifying
<1>5. \E bound \in Nat : \A r \in notes[a].rows : r.seq <= bound
  BY <1>2 DEF Base, SeqsAreBounded
<1> QED
  BY <1>2, <1>3, <1>4, <1>5, NotesBase DEF LoadSnapshot, Base, TypeInv

\* The agent may add one commit to the branch, and claim it.
LEMMA RunAgentDoes ==
    ASSUME Base, RunAgent, NEW a, a = run.a
    PROVE  /\ a \in DOMAIN Attempts /\ a \in DOMAIN notes /\ Attempts[a].status = "running"
           /\ a \in Nat /\ LedgerStays
           /\ tree' \in Revision /\ tree' \in {tree, Append(tree, a)}
           /\ \/ (run'.at = "completeExecute" /\ run' \in RunRow)
              \/ Drops("abortPhase", a, "aborted") \/ Drops("abortPhase", a, "failed")
           /\ run'.at = "completeExecute" =>
                 /\ run'.a = a /\ run'.retry = run.retry /\ run'.off = run.off
                 /\ run'.passed = run.passed /\ run'.attempt = run.attempt /\ run'.head = run.head
           /\ \E commits \in {notes[a].commits, notes[a].commits \cup {tree'}} :
                 NotesBecome(a, notes[a].bases, commits, notes[a].rows, notes[a].judged,
                     notes[a].restored, notes[a].off)
<1>1. PICK commit \in BOOLEAN, claimed \in BOOLEAN, result \in {"ok", "failed", "shutdown", "panic"} :
          /\ claimed => commit /\ result = "ok"
          /\ tree' = IF commit THEN Append(tree, run.a) ELSE tree
          /\ notes' = [notes EXCEPT ![run.a].commits = IF claimed THEN @ \cup {tree'} ELSE @]
          /\ run' = CASE result = "ok" -> [run EXCEPT !.at = "completeExecute", !.ok = TRUE]
                      [] result = "failed" -> [run EXCEPT !.at = "completeExecute", !.ok = FALSE]
                      [] result = "shutdown" -> Aborting("abortPhase", "aborted")
                      [] result = "panic" -> Aborting("abortPhase", "failed")
  BY DEF RunAgent
<1>2. a \in DOMAIN Attempts /\ Attempts[a].status = "running" /\ notes[a] \in NotesRow
      /\ a \in DOMAIN notes /\ a \in Nat
  BY Holds, BasesTyped DEF RunAgent, Holding, Working, Looping
<1>3. LedgerStays
  BY LedgerStutters DEF RunAgent, Base
<1>4. /\ tree' \in Revision /\ tree' \in {tree, Append(tree, a)}
      /\ claimed => tree' # <<>>
  BY <1>1, <1>2 DEF Base, TypeInv, Revision
<1>5. /\ \/ (run'.at = "completeExecute" /\ run' \in RunRow)
         \/ Drops("abortPhase", a, "aborted") \/ Drops("abortPhase", a, "failed")
      /\ run'.at = "completeExecute" =>
            /\ run'.a = a /\ run'.retry = run.retry /\ run'.off = run.off
            /\ run'.passed = run.passed /\ run'.attempt = run.attempt /\ run'.head = run.head
  <2>1. CASE result \in {"ok", "failed"}
    <3>1. PICK ok \in BOOLEAN : run' = [run EXCEPT !.at = "completeExecute", !.ok = ok]
      BY <1>1, <2>1
    <3> QED
      BY <3>1 DEF Base, TypeInv, RunRow, Places, Holding, Working, Looping
  <2>2. CASE result \in {"shutdown", "panic"}
    <3>1. run' = Aborting("abortPhase", "aborted") \/ run' = Aborting("abortPhase", "failed")
      BY <1>1, <2>2
    <3> QED
      BY <3>1, Stopping DEF Base, TypeInv, Drops
  <2> QED
    BY <2>1, <2>2
<1> DEFINE commits == IF claimed THEN notes[a].commits \cup {tree'} ELSE notes[a].commits
           new == [notes[a] EXCEPT !.commits = commits]
<1>6. new \in NotesRow /\ notes' = [notes EXCEPT ![a] = new]
  <2>1. notes[a].commits \in SUBSET (Revision \ {<<>>})
    BY <1>2 DEF NotesRow
  <2>2. commits \in SUBSET (Revision \ {<<>>})
    BY <1>4, <2>1
  <2>3. notes' = [notes EXCEPT ![a] = new]
    BY <1>1
  <2> HIDE DEF commits
  <2> QED
    BY <1>2, <2>2, <2>3 DEF NotesRow
<1>7. /\ new.bases = notes[a].bases /\ new.commits = commits /\ new.rows = notes[a].rows
      /\ (notes[a].unsaved => new.unsaved) /\ (notes[a].resumed => new.resumed)
      /\ new.judged = notes[a].judged /\ new.off = notes[a].off /\ new.restored = notes[a].restored
  BY <1>2 DEF NotesRow
<1> HIDE DEF new
<1>8. NotesBecome(a, new.bases, new.commits, new.rows, new.judged, new.restored, new.off)
  BY <1>2, <1>6, <1>7, NotesEdit DEF Base, TypeInv
<1> QED
  BY <1>2, <1>3, <1>4, <1>5, <1>7, <1>8

LEMMA RunAgentBase == ASSUME Base, UNCHANGED world, RunAgent PROVE Base'
<1>1. PICK a : a = run.a
  OBVIOUS
<1>2. /\ a \in DOMAIN Attempts /\ a \in DOMAIN notes /\ Attempts[a].status = "running"
      /\ LedgerStays /\ tree' \in Revision
      /\ run' \in RunRow /\ run'.a = a /\ run'.at \in {"completeExecute", "abortPhase"}
      /\ run'.retry \in {run.retry, NoRetry}
      /\ run'.at = "abortPhase" => run'.result \in {"failed", "aborted"}
  BY <1>1, RunAgentDoes DEF Goes, Drops
<1>3. PICK commits : NotesBecome(a, notes[a].bases, commits, notes[a].rows, notes[a].judged,
                         notes[a].restored, notes[a].off)
  BY <1>1, RunAgentDoes
<1>4. RetryShape'
  BY <1>2, PastKept, RetryStays DEF RunAgent, Seeding
<1>5. LastIs(a, "execute", "running") /\ a = Len(Attempts) /\ a # 0
  <2>1. run.at = "agent"
    BY DEF RunAgent
  <2>2. LastIs(run.a, "execute", "running")
    BY <2>1 DEF Base, RunShape
  <2> QED
    BY <1>1, <1>2, <2>1, <2>2, Holds DEF Holding, Working, Looping
<1>6. RunShape'
  <2>1. LastIs(a, "execute", "running")' /\ LastRuns(a)'
    BY <1>2, <1>5 DEF LastIs, LastRuns, LedgerStays
  <2>2. LastIs(run.a, "execute", "running")' /\ LastRuns(run.a)'
    BY <1>2, <2>1 DEF LastIs, LastRuns, Phases
  <2>3. run'.a = Len(Attempts)' /\ run'.a # 0 /\ ~Closed(run.a)'
    BY <1>2, <1>5 DEF RunAgent, LedgerStays, Closed
  <2> QED
    BY <1>2, <2>2, <2>3 DEF RunShape, Holding, Working, Seeding, Looping, Verifying
<1>7. \E bound \in Nat : \A r \in notes[a].rows : r.seq <= bound
  BY <1>2 DEF Base, SeqsAreBounded
<1> QED
  BY <1>2, <1>3, <1>4, <1>6, <1>7, NotesBase DEF RunAgent, Base, TypeInv

\* A pass that failed: the budget is spent, or there is another try.
LEMMA AfterFailedVerifyDoes ==
    ASSUME Base, NEW judged \in BOOLEAN, run' \in AfterFailedVerify(judged)
    PROVE  \/ Drops("close", run.a, "failed")
           \/ /\ run' \in RunRow /\ run'.at \in {"execute", "verify"}
              /\ run'.a = run.a /\ run'.retry = run.retry /\ run'.off = run.off
              /\ run'.passed = run.passed /\ run'.attempt = run.attempt + 1
              /\ run.attempt < world.retries
<1>1. run \in RunRow /\ run.attempt + 1 \in Nat
  BY DEF Base, TypeInv, RunRow
<1>2. CASE run' = Closing("failed")
  BY <1>1, <1>2, Stopping
<1>3. ASSUME NEW at \in {"execute", "verify"}, MayRetry,
             run' = [run EXCEPT !.at = at, !.attempt = @ + 1]
      PROVE  /\ run' \in RunRow /\ run'.at \in {"execute", "verify"}
             /\ run'.a = run.a /\ run'.retry = run.retry /\ run'.off = run.off
             /\ run'.passed = run.passed /\ run'.attempt = run.attempt + 1
             /\ run.attempt < world.retries
  BY <1>1, <1>3 DEF RunRow, Places, Holding, Working, Looping, MayRetry
<1> QED
  BY <1>2, <1>3 DEF AfterFailedVerify

\* Checks judges what is not locked; the rows of this pass replace the rows of
\* an earlier pass with the same number.
LEMMA LockTyped ==
    ASSUME Base, NEW good \in SUBSET Unlocked
    PROVE  /\ Lock(good) \in Verdicts /\ DOMAIN Lock(good) = Locked \cup good
           /\ \A c \in Locked : Lock(good)[c] = run.passed[c]
           /\ \A c \in good : Lock(good)[c] = [ev |-> TRUE, at |-> tree]
<1>1. \A c \in Locked : c \in Criteria /\ run.passed[c] \in Verdict
  BY VerdictsTyped
<1>2. [ev |-> TRUE, at |-> tree] \in Verdict
  BY DEF Base, TypeInv, Verdict
<1>3. good \subseteq Criteria /\ \A c \in good : c \notin Locked
  BY DEF Unlocked
<1>4. Lock(good) = [c \in Locked \cup good |-> IF c \in Locked THEN run.passed[c]
                                               ELSE [ev |-> TRUE, at |-> tree]]
  BY DEF Lock, LockWith
<1>5. Lock(good) \in [Locked \cup good -> Verdict]
  <2> HIDE DEF Verdict
  <2> QED
    BY <1>1, <1>2, <1>4
<1>6. Locked \cup good \in SUBSET Criteria
  BY <1>1, <1>3
<1>7. Lock(good) \in Verdicts
  BY <1>5, <1>6 DEF Verdicts
<1> QED
  BY <1>3, <1>4, <1>7

NewReports(good) ==
    {[c |-> c, seq |-> run.attempt + 1, ok |-> c \in good,
      at |-> IF c \in good THEN tree ELSE None] : c \in Unlocked}

KeptReports(a) == {r \in notes[a].rows : r.seq # run.attempt + 1 \/ r.c \notin Unlocked}

ChecksJudges(a, good, saved) ==
    /\ IF saved THEN UNCHANGED spent ELSE Fault
    /\ run' \in RunRow /\ run'.at = (IF saved THEN "judged" ELSE "unsaved")
    /\ run'.a = a /\ run'.retry = run.retry /\ run'.off = run.off
    /\ run'.attempt = run.attempt /\ run'.passed = Lock(good) /\ run'.ok = (good = Unlocked)
    /\ NotesBecome(a, notes[a].bases, notes[a].commits,
           IF saved THEN KeptReports(a) \cup NewReports(good) ELSE notes[a].rows,
           notes[a].judged, notes[a].restored, notes[a].off)
    /\ saved \/ notes'[a].unsaved

ChecksFails(a) ==
    /\ UNCHANGED <<notes, spent>>
    /\ \/ Drops("abortPhase", a, "failed")
       \/ /\ run' \in RunRow /\ run'.at = "infra" /\ ~run'.ok
          /\ run'.a = a /\ run'.retry = run.retry /\ run'.off = run.off
          /\ run'.attempt = run.attempt /\ run'.passed = run.passed

LEMMA ReportsTyped ==
    ASSUME Base, NEW good \in SUBSET Unlocked
    PROVE  NewReports(good) \in SUBSET ReportRow
<1>1. run.attempt + 1 \in Nat /\ tree \in Revision /\ None \in Revision
  BY DEF Base, TypeInv, RunRow, None, Revision
<1>2. Unlocked \subseteq Criteria
  BY DEF Unlocked
<1>3. ASSUME NEW c \in Unlocked
      PROVE  [c |-> c, seq |-> run.attempt + 1, ok |-> c \in good,
              at |-> IF c \in good THEN tree ELSE None] \in ReportRow
  <2>1. (IF c \in good THEN tree ELSE None) \in Revision /\ (c \in good) \in BOOLEAN
    BY <1>1
  <2> QED
    BY <1>1, <1>2, <2>1 DEF ReportRow
<1> QED
  BY <1>3 DEF NewReports

LEMMA ChecksDoes ==
    ASSUME Base, Checks, NEW a, a = run.a
    PROVE  /\ a \in DOMAIN Attempts /\ a \in DOMAIN notes /\ Attempts[a].status = "running"
           /\ LedgerStays
           /\ \/ \E good \in SUBSET Unlocked, saved \in BOOLEAN : ChecksJudges(a, good, saved)
              \/ ChecksFails(a)
<1>1. a \in DOMAIN Attempts /\ Attempts[a].status = "running" /\ notes[a] \in NotesRow
      /\ a \in DOMAIN notes /\ a \in Nat
  BY Holds, BasesTyped DEF Checks, Holding, Working, Looping, Verifying
<1>2. LedgerStays
  BY LedgerStutters DEF Checks, Base
<1>3. ASSUME NEW good \in SUBSET Unlocked, NEW saved \in BOOLEAN,
             IF saved THEN UNCHANGED spent ELSE Fault,
             notes' = IF saved
                      THEN [notes EXCEPT ![a].rows = KeptReports(a) \cup NewReports(good)]
                      ELSE [notes EXCEPT ![a].unsaved = TRUE],
             run' = [run EXCEPT !.passed = Lock(good), !.ok = good = Unlocked,
                                !.at = IF saved THEN "judged" ELSE "unsaved"]
      PROVE  ChecksJudges(a, good, saved)
  <2>1. /\ run' \in RunRow /\ run'.at = (IF saved THEN "judged" ELSE "unsaved")
        /\ run'.a = a /\ run'.retry = run.retry /\ run'.off = run.off
        /\ run'.attempt = run.attempt /\ run'.passed = Lock(good) /\ run'.ok = (good = Unlocked)
    <3> DEFINE at == IF saved THEN "judged" ELSE "unsaved"
               ok == good = Unlocked
    <3>1. at \in Places /\ ok \in BOOLEAN /\ Lock(good) \in Verdicts
      BY LockTyped DEF Places, Holding, Working, Looping, Verifying
    <3>2. run' = [run EXCEPT !.passed = Lock(good), !.ok = ok, !.at = at]
      BY <1>3
    <3> HIDE DEF at, ok
    <3>3. /\ run' \in RunRow /\ run'.at = at
          /\ run'.a = a /\ run'.retry = run.retry /\ run'.off = run.off
          /\ run'.attempt = run.attempt /\ run'.passed = Lock(good) /\ run'.ok = ok
      BY <3>1, <3>2 DEF Base, TypeInv, RunRow
    <3> QED
      BY <3>3 DEF at, ok
  <2> DEFINE rows == IF saved THEN KeptReports(a) \cup NewReports(good) ELSE notes[a].rows
             unsaved == IF saved THEN notes[a].unsaved ELSE TRUE
             new == [notes[a] EXCEPT !.rows = rows, !.unsaved = unsaved]
  <2>2. rows \in SUBSET ReportRow
    BY <1>1, ReportsTyped DEF KeptReports, NotesRow
  <2>6. unsaved \in BOOLEAN /\ (notes[a].unsaved => unsaved) /\ (saved \/ unsaved)
    BY <1>1 DEF NotesRow
  <2> HIDE DEF rows, unsaved
  <2>3. new \in NotesRow /\ notes' = [notes EXCEPT ![a] = new]
    <3>1. new \in NotesRow
      BY <1>1, <2>2, <2>6 DEF NotesRow
    <3>2. CASE saved
      <4>1. rows = KeptReports(a) \cup NewReports(good) /\ unsaved = notes[a].unsaved
        BY <3>2 DEF rows, unsaved
      <4>2. new = [notes[a] EXCEPT !.rows = rows]
        BY <1>1, <4>1 DEF NotesRow
      <4> QED
        BY <1>3, <3>1, <3>2, <4>1, <4>2
    <3>3. CASE ~saved
      <4>1. rows = notes[a].rows /\ unsaved = TRUE
        BY <3>3 DEF rows, unsaved
      <4>2. new = [notes[a] EXCEPT !.unsaved = TRUE]
        BY <1>1, <4>1 DEF NotesRow
      <4> QED
        BY <1>3, <3>1, <3>3, <4>2
    <3> QED
      BY <3>1, <3>2, <3>3
  <2>4. /\ new.bases = notes[a].bases /\ new.commits = notes[a].commits /\ new.rows = rows
        /\ (notes[a].unsaved => new.unsaved) /\ (notes[a].resumed => new.resumed)
        /\ new.judged = notes[a].judged /\ new.off = notes[a].off
        /\ new.restored = notes[a].restored /\ new.unsaved = unsaved
    BY <1>1, <2>6 DEF NotesRow
  <2> HIDE DEF new
  <2>5. NotesBecome(a, new.bases, new.commits, new.rows, new.judged, new.restored, new.off)
    BY <1>1, <2>3, <2>4, NotesEdit DEF Base, TypeInv
  <2>7. notes'[a] = new
    BY <1>1, <2>3 DEF Base, TypeInv
  <2> QED
    BY <1>3, <2>1, <2>4, <2>5, <2>6, <2>7 DEF ChecksJudges, rows
<1>4. ASSUME run' \in {[run EXCEPT !.ok = FALSE, !.at = "infra"], Aborting("abortPhase", "failed")},
             UNCHANGED <<notes, spent>>
      PROVE  ChecksFails(a)
  <2>1. CASE run' = Aborting("abortPhase", "failed")
    BY <1>4, <2>1, Stopping DEF ChecksFails, Base, TypeInv
  <2>2. CASE run' = [run EXCEPT !.ok = FALSE, !.at = "infra"]
    BY <1>4, <2>2
    DEF ChecksFails, Base, TypeInv, RunRow, Places, Holding, Working, Looping, Verifying
  <2> QED
    BY <1>4, <2>1, <2>2
<1>5. \/ \E good \in SUBSET Unlocked, saved \in BOOLEAN : ChecksJudges(a, good, saved)
      \/ ChecksFails(a)
  BY <1>3, <1>4 DEF Checks, KeptReports, NewReports
<1> QED
  BY <1>1, <1>2, <1>5

LEMMA ChecksBase == ASSUME Base, UNCHANGED world, Checks PROVE Base'
<1>1. PICK a : a = run.a
  OBVIOUS
<1>2. /\ a \in DOMAIN Attempts /\ a \in DOMAIN notes /\ Attempts[a].status = "running"
      /\ LedgerStays
      /\ \/ \E good \in SUBSET Unlocked, saved \in BOOLEAN : ChecksJudges(a, good, saved)
         \/ ChecksFails(a)
  BY <1>1, ChecksDoes
<1>3. run.at = "checks" /\ LastIs(a, "verify", "running") /\ a = Len(Attempts)
      /\ a # 0
  <2>1. run.at = "checks"
    BY DEF Checks
  <2>2. LastIs(run.a, "verify", "running")
    BY <2>1 DEF Base, RunShape, Verifying
  <2>3. run.a = Len(Attempts) /\ run.a # 0
    BY <2>1 DEF Base, RunShape, Holding, Working, Looping, Verifying
  <2> QED
    BY <1>1, <2>1, <2>2, <2>3
<1>4. CASE ChecksFails(a) /\ Drops("abortPhase", a, "failed")
  BY <1>1, <1>3, <1>4, DropBase
  DEF Checks, ChecksFails, Base, TypeInv, Holding, Working, Looping, Verifying
<1>5. ASSUME run' \in RunRow, run'.at \in {"judged", "unsaved", "infra"}, run'.a = a,
             run'.retry = run.retry
      PROVE  RetryShape' /\ RunShape'
  <2>1. RetryShape'
    BY <1>2, <1>5, PastKept, RetryStays DEF Checks, Seeding
  <2>2. LastIs(a, "verify", "running")'
    BY <1>2, <1>3 DEF LastIs, LedgerStays
  <2>3. LastIs(run.a, "verify", "running")'
    BY <1>5, <2>2 DEF LastIs, Phases
  <2>4. run'.a = Len(Attempts)' /\ run'.a # 0 /\ ~Closed(run.a)'
    BY <1>2, <1>3, <1>5 DEF Checks, LedgerStays, Closed
  <2> QED
    BY <1>5, <2>1, <2>3, <2>4 DEF RunShape, Holding, Working, Seeding, Looping, Verifying
<1>6. CASE ChecksFails(a) /\ ~Drops("abortPhase", a, "failed")
  <2>1. run' \in RunRow /\ RetryShape' /\ RunShape'
    BY <1>5, <1>6 DEF ChecksFails
  <2> QED
    BY <1>6, <2>1, StillBase DEF Checks, ChecksFails, Base, TypeInv
<1>7. ASSUME NEW good \in SUBSET Unlocked, NEW saved \in BOOLEAN, ChecksJudges(a, good, saved)
      PROVE  Base'
  <2>1. run' \in RunRow /\ RetryShape' /\ RunShape'
    BY <1>5, <1>7 DEF ChecksJudges
  <2>2. spent' \in [ops : Nat, crashes : Nat, faults : Nat]
    BY <1>7, FaultIsSpent DEF ChecksJudges, Base, TypeInv
  <2> DEFINE rows == IF saved THEN KeptReports(a) \cup NewReports(good) ELSE notes[a].rows
  <2>3. \E bound \in Nat : \A r \in rows : r.seq <= bound
    <3>1. PICK bound \in Nat : \A r \in notes[a].rows : r.seq <= bound
      BY <1>2 DEF Base, SeqsAreBounded
    <3>2. run.attempt + 1 \in Nat
      BY DEF Base, TypeInv, RunRow
    <3>3. notes[a].rows \in SUBSET ReportRow
      BY <1>2, BasesTyped DEF NotesRow
    <3>4. \A r \in NewReports(good) : r.seq = run.attempt + 1
      BY DEF NewReports
    <3>5. \A r \in rows : r \in notes[a].rows \/ r.seq = run.attempt + 1
      BY <3>4 DEF KeptReports
    <3> HIDE DEF rows
    <3>6. \A r \in rows : r.seq <= bound + (run.attempt + 1)
      BY <3>1, <3>2, <3>3, <3>5 DEF ReportRow
    <3>7. bound + (run.attempt + 1) \in Nat
      BY <3>1, <3>2
    <3> QED
      BY <3>6, <3>7
  <2>4. NotesBecome(a, notes[a].bases, notes[a].commits, rows, notes[a].judged,
            notes[a].restored, notes[a].off)
    BY <1>7 DEF ChecksJudges
  <2> HIDE DEF rows
  <2> QED
    BY <2>1, <2>2, <2>3, <2>4, NotesBase DEF Checks, Base, TypeInv
<1> QED
  BY <1>2, <1>4, <1>6, <1>7

-----------------------------------------------------------------------------
(* The steps that write the ledger.                                          *)

LEMMA LedgerBase ==
    ASSUME Base, LP!IInv', UNCHANGED <<pending, world>>,
           row' \in {"ready", "running", "failed", "done"},
           completions' \in Completions, tree' \in Revision,
           spent' \in [ops : Nat, crashes : Nat, faults : Nat],
           run' \in RunRow, notes' \in Seq(NotesRow),
           SeqsAreBounded', NotesShape', RetryShape', RunShape'
    PROVE  Base'
  BY DEF Base, TypeInv

\* Notes that keep their rows keep their bound.
LEMMA BoundStays ==
    ASSUME Base, NEW a \in DOMAIN notes, NEW bases, NEW judged,
           NotesBecome(a, bases, notes[a].commits, notes[a].rows, judged,
               notes[a].restored, notes[a].off)
    PROVE  SeqsAreBounded'
<1> SUFFICES ASSUME NEW b \in DOMAIN notes
             PROVE  \E bound \in Nat : \A r \in notes'[b].rows : r.seq <= bound
  BY DEF SeqsAreBounded, NotesBecome
<1>1. notes'[b].rows = notes[b].rows
  BY DEF NotesBecome
<1> QED
  BY <1>1 DEF Base, SeqsAreBounded

LEMMA StartCycleDoes ==
    ASSUME Base, StartCycle, L!StartCycle(Task),
           notes' = Append(notes, NewNotes(DOMAIN run.passed # {})),
           run' = [run EXCEPT !.at = IF run.seed THEN "seedStart" ELSE "snapshot",
                              !.a = Len(cycles'[Task])],
           NEW a, a = Len(Attempts) + 1
    PROVE  /\ CycleOpens /\ a \in Nat /\ a # 0
           /\ run' \in RunRow /\ run'.at \in {"seedStart", "snapshot"} /\ run'.a = a
           /\ run'.at = "seedStart" => run.seed
           /\ run'.retry = run.retry /\ run'.seed = run.seed /\ run'.off = run.off
           /\ run'.passed = run.passed /\ run'.attempt = run.attempt
           /\ notes' \in Seq(NotesRow) /\ Len(notes') = Len(notes) + 1 /\ a = Len(notes) + 1
           /\ DOMAIN notes' = DOMAIN notes \cup {a}
           /\ \A b \in DOMAIN notes : notes'[b] = notes[b]
           /\ notes'[a] = NewNotes(DOMAIN run.passed # {})
<1>1. CycleOpens
  BY CycleOpening DEF Base
<1>2. a \in Nat /\ a # 0 /\ a = Len(notes) + 1
  BY LedgerRows DEF Base, NotesShape
<1>3. a = Len(cycles'[Task])
  BY <1>1 DEF CycleOpens, Attempts
<1>4. /\ run' \in RunRow /\ run'.at \in {"seedStart", "snapshot"} /\ run'.a = a
      /\ run'.at = "seedStart" => run.seed
      /\ run'.retry = run.retry /\ run'.seed = run.seed /\ run'.off = run.off
      /\ run'.passed = run.passed /\ run'.attempt = run.attempt
  <2> DEFINE at == IF run.seed THEN "seedStart" ELSE "snapshot"
  <2>1. at \in {"seedStart", "snapshot"} /\ at \in Places /\ (at = "seedStart" => run.seed)
    BY DEF Places, Holding, Working, Seeding
  <2>2. run' = [run EXCEPT !.at = at, !.a = a]
    BY <1>3
  <2> HIDE DEF at
  <2> QED
    BY <1>2, <2>1, <2>2 DEF Base, TypeInv, RunRow
<1>5. NewNotes(DOMAIN run.passed # {}) \in NotesRow
  <2>1. (DOMAIN run.passed # {}) \in BOOLEAN
    OBVIOUS
  <2>2. \A restored \in BOOLEAN : NewNotes(restored) \in NotesRow
    BY DEF NewNotes, NotesRow
  <2> QED
    BY <2>1, <2>2
<1>6. LET u == Append(notes, NewNotes(DOMAIN run.passed # {}))
      IN  /\ u \in Seq(NotesRow) /\ Len(u) = Len(notes) + 1
          /\ DOMAIN u = DOMAIN notes \cup {Len(notes) + 1}
          /\ u[Len(notes) + 1] = NewNotes(DOMAIN run.passed # {})
          /\ \A b \in DOMAIN notes : u[b] = notes[b]
  <2>1. notes \in Seq(NotesRow)
    BY DEF Base, TypeInv
  <2> QED
    BY <1>5, <2>1, LedgerBounds, LP!AppendElement
<1> QED
  BY <1>1, <1>2, <1>4, <1>6

LEMMA StartCycleBase == ASSUME Base, UNCHANGED world, StartCycle PROVE Base'
<1>1. ASSUME L!StartCycle(Task), notes' = Append(notes, NewNotes(DOMAIN run.passed # {})),
             run' = [run EXCEPT !.at = IF run.seed THEN "seedStart" ELSE "snapshot",
                                !.a = Len(cycles'[Task])],
             UNCHANGED spent
      PROVE  Base'
  <2>1. PICK a : a = Len(Attempts) + 1
    OBVIOUS
  <2>2. /\ CycleOpens /\ a \in Nat /\ a # 0
        /\ run' \in RunRow /\ run'.at \in {"seedStart", "snapshot"} /\ run'.a = a
        /\ run'.at = "seedStart" => run.seed
        /\ run'.retry = run.retry /\ run'.seed = run.seed
        /\ notes' \in Seq(NotesRow) /\ Len(notes') = Len(notes) + 1 /\ a = Len(notes) + 1
        /\ DOMAIN notes' = DOMAIN notes \cup {a}
        /\ \A b \in DOMAIN notes : notes'[b] = notes[b]
        /\ notes'[a] = NewNotes(DOMAIN run.passed # {})
    BY <1>1, <2>1, StartCycleDoes
  <2>3. SeqsAreBounded'
    <3>1. \A r \in notes'[a].rows : r.seq <= 0
      BY <2>2 DEF NewNotes
    <3> QED
      BY <2>2, <3>1 DEF Base, SeqsAreBounded
  <2>4. NotesShape'
    <3>1. DOMAIN notes = DOMAIN Attempts
      BY LedgerRows DEF Base, TypeInv, NotesShape
    <3>2. Phases(a)' = <<>>
      BY <2>1, <2>2 DEF CycleOpens, Phases
    <3>3. notes'[a].bases = <<>>
      BY <2>2 DEF NewNotes
    <3> QED
      BY <2>2, <3>1, <3>2, <3>3 DEF Base, NotesShape, CycleOpens
  <2>5. RetryShape'
    <3>1. run.seed => run.retry.mode = "resume"
      BY DEF StartCycle, Base, RetryShape
    <3>2. run.seed => run.retry.parent < a
      BY <2>1, <3>1, LedgerRows DEF StartCycle, Base, RetryShape, ParentIsClosed
    <3> QED
      BY <2>2, <3>2, PastKept, RetryStays DEF StartCycle, Seeding
  <2>6. RunShape'
    <3>1. Phases(run.a)' = <<>> /\ run'.a = Len(Attempts)' /\ ~Closed(run.a)'
      BY <2>1, <2>2 DEF CycleOpens, Phases, Closed
    <3> QED
      BY <2>2, <3>1 DEF RunShape, Holding, Working, Seeding, Looping, Verifying
  <2> QED
    BY <1>1, <2>2, <2>3, <2>4, <2>5, <2>6, LedgerBase DEF StartCycle, Base, TypeInv, CycleOpens
<1>2. ASSUME Fails(L!HasRunningCycle(Task)), Go("failTask"), UNCHANGED <<cycles, notes>>
      PROVE  Base'
  <2>1. Goes("failTask") /\ run.at = "startCycle"
    BY <1>2, Going DEF StartCycle, Base, TypeInv, Places
  <2>2. spent' \in [ops : Nat, crashes : Nat, faults : Nat]
    BY <1>2, FaultIsSpent DEF Fails, Base, TypeInv
  <2> QED
    BY <1>2, <2>1, <2>2, GoBase DEF StartCycle, Base, TypeInv, Places
<1> QED
  BY <1>1, <1>2 DEF StartCycle

\* A phase is opened, and its details are still empty.
LEMMA StartPhaseDoes ==
    ASSUME Base, NEW a \in DOMAIN Attempts, a = run.a, NEW kind \in {"execute", "verify"},
           StartPhase(kind)
    PROVE  /\ PhaseOpens(a, kind)
           /\ NotesBecome(a, Append(notes[a].bases, None), notes[a].commits, notes[a].rows,
                  notes[a].judged, notes[a].restored, notes[a].off)
           /\ SeqsAreBounded' /\ NotesShape' /\ LastIs(a, kind, "running")'
<1>1. PhaseOpens(a, kind)
  BY PhaseOpening DEF StartPhase, Base
<1>2. a \in DOMAIN notes /\ notes[a] \in NotesRow
  BY BasesTyped
<1> DEFINE bases == Append(notes[a].bases, None)
           new == [notes[a] EXCEPT !.bases = bases]
<1>3. bases \in Seq(Revision) /\ Len(bases) = Len(notes[a].bases) + 1
  BY <1>2 DEF NotesRow, None, Revision
<1>4. new \in NotesRow /\ notes' = [notes EXCEPT ![a] = new]
  <2>1. notes' = [notes EXCEPT ![a] = new]
    BY DEF StartPhase
  <2> HIDE DEF bases
  <2> QED
    BY <1>2, <1>3, <2>1 DEF NotesRow
<1> HIDE DEF bases
<1>5. /\ new.bases = bases /\ new.commits = notes[a].commits /\ new.rows = notes[a].rows
      /\ (notes[a].unsaved => new.unsaved) /\ (notes[a].resumed => new.resumed)
      /\ new.judged = notes[a].judged /\ new.off = notes[a].off /\ new.restored = notes[a].restored
  BY <1>2 DEF NotesRow
<1> HIDE DEF new
<1>6. NotesBecome(a, bases, notes[a].commits, notes[a].rows, notes[a].judged,
          notes[a].restored, notes[a].off)
  <2>1. NotesBecome(a, new.bases, new.commits, new.rows, new.judged, new.restored, new.off)
    BY <1>2, <1>4, <1>5, NotesEdit DEF Base, TypeInv
  <2> QED
    BY <1>5, <2>1
<1>7. NotesShape'
  <2>1. \A b \in DOMAIN notes : Len(notes'[b].bases) = Len(Phases(b)')
    <3> TAKE b \in DOMAIN notes
    <3>1. b \in DOMAIN Attempts
      BY LedgerRows DEF Base, TypeInv, NotesShape
    <3>2. CASE b = a
      BY <1>1, <1>3, <1>6, <3>2 DEF Base, NotesShape, PhaseOpens, NotesBecome
    <3>3. CASE b # a
      BY <1>1, <1>6, <3>1, <3>3 DEF Base, NotesShape, PhaseOpens, OtherRowsStay, NotesBecome
    <3> QED
      BY <3>2, <3>3
  <2> QED
    BY <1>1, <1>6, <2>1 DEF Base, NotesShape, PhaseOpens, OtherRowsStay, NotesBecome
<1>8. SeqsAreBounded'
  BY <1>2, <1>6, BoundStays
<1>9. LastIs(a, kind, "running")'
  <2>1. Len(Phases(a)) \in Nat
    BY LedgerRows DEF Base
  <2> QED
    BY <1>1, <2>1 DEF LastIs, PhaseOpens
<1> QED
  BY <1>1, <1>6, <1>7, <1>8, <1>9 DEF bases

\* The run opens a phase and goes on inside it.
LEMMA OpeningBase ==
    ASSUME Base, NEW kind \in {"execute", "verify"}, StartPhase(kind),
           UNCHANGED <<row, pending, completions, tree, spent, world>>,
           run' \in RunRow, run'.a = run.a, run'.retry = run.retry, run'.seed = run.seed,
           \/ run.at = "seedStart" /\ run'.at = "seedComplete" /\ kind = "execute"
           \/ run.at = "execute" /\ run'.at = "agent" /\ kind = "execute"
           \/ run.at = "verify" /\ run'.at = "checks" /\ kind = "verify"
    PROVE  Base'
<1>1. PICK a : a = run.a
  OBVIOUS
<1>2. run.at \in Working /\ run.at \in Holding
  BY DEF Holding, Working, Seeding, Looping
<1>3. /\ a \in DOMAIN Attempts /\ a = Len(Attempts) /\ a # 0
      /\ Attempts[a].status = "running"
  <2>1. run.a # 0
    BY <1>2 DEF Base, RunShape, Working
  <2> QED
    BY <1>1, <1>2, <2>1, Holds DEF Holding
<1>4. /\ PhaseOpens(a, kind) /\ notes' \in Seq(NotesRow)
      /\ SeqsAreBounded' /\ NotesShape' /\ LastIs(a, kind, "running")'
  BY <1>1, <1>3, StartPhaseDoes DEF NotesBecome
<1>5. RetryShape'
  <2>1. PastIsKept
    BY <1>3, <1>4, PastKept DEF PhaseOpens
  <2>2. run'.seed /\ run'.at \in Seeding => run.at = "seedStart" /\ run.retry.parent < run.a
    BY DEF Base, RetryShape, Seeding
  <2> QED
    BY <2>1, <2>2, RetryStays DEF Base, RetryShape, Seeding
<1>6. RunShape'
  <2>1. LastIs(run.a, kind, "running")'
    BY <1>1, <1>4 DEF LastIs, Phases
  <2>2. run'.at = "seedComplete" => Len(Phases(run.a)') = 1
    <3>1. run.at = "seedStart" => Phases(a) = <<>>
      BY <1>1 DEF Base, RunShape
    <3>2. run.at = "seedStart" => Len(Phases(a)') = 1
      BY <1>4, <3>1 DEF PhaseOpens
    <3> QED
      BY <1>1, <3>2 DEF Phases
  <2>3. run'.a = Len(Attempts)' /\ run'.a # 0 /\ ~Closed(run.a)'
    BY <1>1, <1>3, <1>4 DEF PhaseOpens, OtherRowsStay, Closed
  <2> QED
    BY <2>1, <2>2, <2>3 DEF RunShape, Holding, Working, Seeding, Looping, Verifying
<1> QED
  BY <1>4, <1>5, <1>6, LedgerBase DEF PhaseOpens, Base, TypeInv

LEMMA SeedStartBase == ASSUME Base, UNCHANGED world, SeedStart PROVE Base'
<1>1. run \in RunRow /\ run.at = "seedStart"
  BY DEF SeedStart, Base, TypeInv
<1>2. {"seedComplete", "failTask"} \subseteq Places
  BY DEF Places, Holding, Working, Seeding
<1>3. CASE StartPhase("execute") /\ Go("seedComplete") /\ UNCHANGED spent
  <2>1. Goes("seedComplete")
    BY <1>1, <1>2, <1>3, Going
  <2> QED
    BY <1>1, <1>3, <2>1, OpeningBase DEF SeedStart, Goes
<1>4. CASE Fault /\ Go("failTask") /\ UNCHANGED <<cycles, notes>>
  <2>1. Goes("failTask")
    BY <1>1, <1>2, <1>4, Going
  <2> QED
    BY <1>1, <1>2, <1>4, <2>1, FaultIsSpent, GoBase DEF SeedStart, Base, TypeInv
<1> QED
  BY <1>3, <1>4 DEF SeedStart

LEMMA StartExecuteBase == ASSUME Base, UNCHANGED world, StartExecute PROVE Base'
<1>1. run \in RunRow /\ run.at = "execute" /\ tree \in Revision
  BY DEF StartExecute, Base, TypeInv
<1>2. CASE StartPhase("execute") /\ run' = [run EXCEPT !.at = "agent", !.head = tree]
           /\ UNCHANGED spent
  <2>1. /\ run' \in RunRow /\ run'.at = "agent" /\ run'.a = run.a
        /\ run'.retry = run.retry /\ run'.seed = run.seed
    BY <1>1, <1>2 DEF RunRow, Places, Holding, Working, Looping
  <2> QED
    BY <1>1, <1>2, <2>1, OpeningBase DEF StartExecute
<1>3. CASE Fails(Refused("execute")) /\ run' = Aborting("abortCycle", "failed")
           /\ UNCHANGED <<cycles, notes>>
  <2>1. Drops("abortCycle", run.a, "failed")
    BY <1>1, <1>3, Stopping
  <2>2. spent' \in [ops : Nat, crashes : Nat, faults : Nat]
    BY <1>3, FaultIsSpent DEF Fails, Base, TypeInv
  <2> QED
    BY <1>1, <1>3, <2>1, <2>2, DropBase DEF StartExecute, Base, TypeInv, Holding, Working, Looping
<1> QED
  BY <1>2, <1>3 DEF StartExecute

\* Another pass, after one that failed and left the ledger as it was.
LEMMA AgainBase ==
    ASSUME Base, UNCHANGED <<cycles, notes, row, pending, completions, tree, world>>,
           spent' \in [ops : Nat, crashes : Nat, faults : Nat],
           run.at \in {"verify"} \cup Verifying,
           run' \in RunRow, run'.at \in {"execute", "verify"}, run'.a = run.a,
           run'.retry = run.retry
    PROVE  Base'
<1>1. LedgerStays
  BY LedgerStutters DEF Base
<1>2. RetryShape'
  BY <1>1, PastKept, RetryStays DEF Seeding
<1>3. run.a = Len(Attempts) /\ run.a # 0 /\ ~Closed(run.a)
  BY DEF Base, RunShape, Holding, Working, Looping, Verifying
<1>4. RunShape'
  BY <1>1, <1>3 DEF RunShape, LedgerStays, Closed, Holding, Working, Seeding, Looping, Verifying
<1> QED
  BY <1>2, <1>4, StillBase DEF Base, TypeInv

LEMMA StartVerifyBase == ASSUME Base, UNCHANGED world, StartVerify PROVE Base'
<1>1. run \in RunRow /\ run.at = "verify"
  BY DEF StartVerify, Base, TypeInv
<1>2. CASE StartPhase("verify") /\ Go("checks") /\ UNCHANGED spent
  <2>1. Goes("checks")
    BY <1>1, <1>2, Going DEF Places, Holding, Working, Looping, Verifying
  <2> QED
    BY <1>1, <1>2, <2>1, OpeningBase DEF StartVerify, Goes
<1>3. CASE Fails(Refused("verify")) /\ run' \in AfterFailedVerify(FALSE)
           /\ UNCHANGED <<cycles, notes>>
  <2>1. spent' \in [ops : Nat, crashes : Nat, faults : Nat]
    BY <1>3, FaultIsSpent DEF Fails, Base, TypeInv
  <2>2. \/ Drops("close", run.a, "failed")
        \/ /\ run' \in RunRow /\ run'.at \in {"execute", "verify"}
           /\ run'.a = run.a /\ run'.retry = run.retry
    BY <1>3, AfterFailedVerifyDoes
  <2> QED
    BY <1>1, <1>3, <2>1, <2>2, DropBase, AgainBase
    DEF StartVerify, Base, TypeInv, Holding, Working, Looping
<1> QED
  BY <1>2, <1>3 DEF StartVerify

\* A phase closes; its base may be recorded, a pass may be counted.
LEMMA ClosingKeeps ==
    ASSUME Base, NEW a \in DOMAIN Attempts, NEW status, PhaseCloses(a, status),
           \/ notes' = notes
           \/ \E bases, judged :
                 /\ Len(bases) = Len(notes[a].bases)
                 /\ NotesBecome(a, bases, notes[a].commits, notes[a].rows, judged,
                        notes[a].restored, notes[a].off)
    PROVE  notes' \in Seq(NotesRow) /\ SeqsAreBounded' /\ NotesShape'
<1>1. a \in DOMAIN notes
  BY BasesTyped
<1>2. \A b \in DOMAIN notes : b \in DOMAIN Attempts /\ Len(Phases(b)') = Len(Phases(b))
  BY LedgerRows, SMTT(15), ZenonT(40) DEF Base, TypeInv, NotesShape, PhaseCloses, OtherRowsStay
<1>3. CASE notes' = notes
  BY <1>2, <1>3 DEF Base, TypeInv, SeqsAreBounded, NotesShape, PhaseCloses, OtherRowsStay
<1>4. ASSUME NEW bases, NEW judged, Len(bases) = Len(notes[a].bases),
             NotesBecome(a, bases, notes[a].commits, notes[a].rows, judged,
                 notes[a].restored, notes[a].off)
      PROVE  notes' \in Seq(NotesRow) /\ SeqsAreBounded' /\ NotesShape'
  <2>1. \A b \in DOMAIN notes : Len(notes'[b].bases) = Len(notes[b].bases)
    BY <1>4 DEF NotesBecome
  <2>2. notes' \in Seq(NotesRow) /\ Len(notes') = Len(notes) /\ DOMAIN notes' = DOMAIN notes
    BY <1>4 DEF NotesBecome
  <2>3. SeqsAreBounded'
    BY <1>1, <1>4, BoundStays
  <2>4. NotesShape'
    BY <1>2, <2>1, <2>2 DEF Base, NotesShape, PhaseCloses, OtherRowsStay
  <2> QED
    BY <2>2, <2>3, <2>4
<1> QED
  BY <1>3, <1>4

\* The base of the last phase is recorded, and nothing else in the notes.
Records(a, base) ==
    \E bases :
       /\ NotesBecome(a, bases, notes[a].commits, notes[a].rows, notes[a].judged,
              notes[a].restored, notes[a].off)
       /\ Len(bases) = Len(notes[a].bases) /\ DOMAIN bases = DOMAIN notes[a].bases
       /\ bases[Len(Phases(a))] = base
       /\ \A p \in DOMAIN Phases(a) : p # Len(Phases(a)) => bases[p] = notes[a].bases[p]

LEMMA Recording ==
    ASSUME Base, NEW a \in DOMAIN Attempts, Phases(a) # <<>>, NEW base \in Revision,
           notes' = [notes EXCEPT ![a].bases[Len(Phases(a))] = base]
    PROVE  Records(a, base)
<1>1. a \in DOMAIN notes /\ notes[a] \in NotesRow /\ DOMAIN notes[a].bases = DOMAIN Phases(a)
  BY BasesTyped
<1>2. Len(Phases(a)) \in DOMAIN Phases(a)
  BY LedgerRows DEF Base
<1> DEFINE last == Len(Phases(a))
           bases == [notes[a].bases EXCEPT ![last] = base]
           new == [notes[a] EXCEPT !.bases = bases]
<1>3. /\ bases \in Seq(Revision) /\ Len(bases) = Len(notes[a].bases)
      /\ DOMAIN bases = DOMAIN notes[a].bases /\ bases[last] = base
      /\ \A p \in DOMAIN Phases(a) : p # last => bases[p] = notes[a].bases[p]
  <2>1. notes[a].bases \in Seq(Revision)
    BY <1>1 DEF NotesRow
  <2> QED
    BY <1>1, <1>2, <2>1, LedgerBounds, LP!UpdateElement
<1>4. new \in NotesRow /\ notes' = [notes EXCEPT ![a] = new]
  <2>1. notes' = [notes EXCEPT ![a] = new]
    OBVIOUS
  <2> HIDE DEF bases
  <2> QED
    BY <1>1, <1>3, <2>1 DEF NotesRow
<1> HIDE DEF bases
<1>5. /\ new.bases = bases /\ new.commits = notes[a].commits /\ new.rows = notes[a].rows
      /\ (notes[a].unsaved => new.unsaved) /\ (notes[a].resumed => new.resumed)
      /\ new.judged = notes[a].judged /\ new.off = notes[a].off /\ new.restored = notes[a].restored
  BY <1>1 DEF NotesRow
<1> HIDE DEF new
<1>6. NotesBecome(a, new.bases, new.commits, new.rows, new.judged, new.restored, new.off)
  BY <1>1, <1>4, <1>5, NotesEdit DEF Base, TypeInv
<1> QED
  BY <1>3, <1>5, <1>6 DEF Records

\* The parent whose work is verified again has executed.
LEMMA ParentExecuted ==
    ASSUME Base, run.at \in Seeding, run.seed, NEW parent, parent = run.retry.parent
    PROVE  /\ parent \in DOMAIN Attempts /\ parent < run.a
           /\ Max(Executes(parent)) \in Executes(parent)
           /\ notes[parent].bases[Max(Executes(parent))] \in Revision
<1>1. parent \in DOMAIN Attempts /\ parent < run.a /\ Executes(parent) # {}
  BY DEF Base, RetryShape, ParentIsClosed
<1>2. DOMAIN Phases(parent) = 1..Len(Phases(parent)) /\ Len(Phases(parent)) \in Nat
  BY <1>1, LedgerRows DEF Base
<1>3. Executes(parent) \subseteq Nat /\ \A p \in Executes(parent) : p <= Len(Phases(parent))
  BY <1>2 DEF Executes
<1>4. Max(Executes(parent)) \in Executes(parent)
  BY <1>1, <1>2, <1>3, MaxOfBounded
<1>5. Max(Executes(parent)) \in DOMAIN Phases(parent)
  BY <1>4 DEF Executes
<1> QED
  BY <1>1, <1>4, <1>5, BasesTyped

LEMMA SeedCompleteDoes ==
    ASSUME Base, run.at = "seedComplete", NEW a, a = run.a, NEW parent, parent = run.retry.parent,
           L!CompletePhase(Task, run.a, 1, "succeeded"),
           notes' = [notes EXCEPT ![run.a].bases[1] = notes[parent].bases[Max(Executes(parent))]]
    PROVE  /\ a \in DOMAIN Attempts /\ a \in DOMAIN notes /\ Attempts[a].status = "running"
           /\ parent \in DOMAIN Attempts /\ parent < a
           /\ Max(Executes(parent)) \in DOMAIN Phases(parent)
           /\ PhaseCloses(a, "succeeded") /\ Len(Phases(a)) = 1
           /\ Records(a, notes[parent].bases[Max(Executes(parent))])
<1>1. a \in DOMAIN Attempts /\ a \in DOMAIN notes /\ Attempts[a].status = "running"
  BY Holds DEF Holding, Working, Seeding
<1>2. Len(Phases(a)) = 1
  BY DEF Base, RunShape
<1>3. 1 \in DOMAIN Phases(a) /\ Phases(a) # <<>>
  BY <1>1, <1>2, LedgerRows DEF Base
<1>4. PhaseCloses(a, "succeeded")
  BY <1>1, <1>3, PhaseClosing DEF Base
<1>5. run.seed /\ run.at \in Seeding
  BY DEF Base, RetryShape, Seeding
<1>6. /\ parent \in DOMAIN Attempts /\ parent < a
      /\ Max(Executes(parent)) \in DOMAIN Phases(parent)
      /\ notes[parent].bases[Max(Executes(parent))] \in Revision
  BY <1>5, ParentExecuted DEF Executes
<1>7. Records(a, notes[parent].bases[Max(Executes(parent))])
  BY <1>1, <1>2, <1>3, <1>6, Recording
<1> QED
  BY <1>1, <1>2, <1>4, <1>6, <1>7

LEMMA RecordsKeep ==
    ASSUME Base, NEW a \in DOMAIN Attempts, NEW status, NEW base,
           PhaseCloses(a, status), Records(a, base)
    PROVE  notes' \in Seq(NotesRow) /\ SeqsAreBounded' /\ NotesShape'
<1>1. PICK bases :
         /\ Len(bases) = Len(notes[a].bases)
         /\ NotesBecome(a, bases, notes[a].commits, notes[a].rows, notes[a].judged,
                notes[a].restored, notes[a].off)
  BY DEF Records
<1> QED
  BY <1>1, ClosingKeeps

LEMMA SeedCompleteBase == ASSUME Base, UNCHANGED world, SeedComplete PROVE Base'
<1>1. run \in RunRow /\ run.at = "seedComplete" /\ {"mirror", "failTask"} \subseteq Places
  BY DEF SeedComplete, Base, TypeInv, Places, Holding, Working, Seeding
<1>2. PICK a, parent : a = run.a /\ parent = run.retry.parent
  OBVIOUS
<1>3. CASE /\ L!CompletePhase(Task, run.a, 1, "succeeded")
           /\ notes' = [notes EXCEPT ![run.a].bases[1] = notes[parent].bases[Max(Executes(parent))]]
           /\ Go("mirror")
           /\ UNCHANGED spent
  <2>1. Goes("mirror")
    BY <1>1, <1>3, Going
  <2>2. /\ a \in DOMAIN Attempts /\ Attempts[a].status = "running" /\ parent < a
        /\ PhaseCloses(a, "succeeded") /\ Records(a, notes[parent].bases[Max(Executes(parent))])
    BY <1>1, <1>2, <1>3, SeedCompleteDoes
  <2>3. notes' \in Seq(NotesRow) /\ SeqsAreBounded' /\ NotesShape'
    BY <2>2, RecordsKeep
  <2>4. RetryShape'
    <3>1. PastIsKept
      BY <2>2, PastKept DEF PhaseCloses
    <3> QED
      BY <1>1, <1>2, <2>1, <2>2, <3>1, RetryStays DEF SeedComplete, Goes, Base, RetryShape, Seeding
  <2>5. RunShape'
    <3>1. a = Len(Attempts) /\ a # 0
      BY <1>1, <1>2 DEF Base, RunShape, Holding, Working, Seeding
    <3>2. run'.a = Len(Attempts)' /\ ~Closed(run.a)'
      BY <1>2, <2>1, <2>2, <3>1 DEF Goes, PhaseCloses, OtherRowsStay, Closed
    <3> QED
      BY <1>2, <2>1, <3>1, <3>2
      DEF SeedComplete, Goes, RunShape, Holding, Working, Seeding, Looping, Verifying
  <2> QED
    BY <1>3, <2>1, <2>2, <2>3, <2>4, <2>5, LedgerBase
    DEF SeedComplete, Goes, PhaseCloses, Base, TypeInv
<1>4. CASE Fault /\ Go("failTask") /\ UNCHANGED <<cycles, notes>>
  <2>1. Goes("failTask")
    BY <1>1, <1>4, Going
  <2> QED
    BY <1>1, <1>4, <2>1, FaultIsSpent, GoBase DEF SeedComplete, Base, TypeInv
<1> QED
  BY <1>2, <1>3, <1>4 DEF SeedComplete

\* The run closes its phase and goes on from there.
LEMMA ClosedBase ==
    ASSUME Base, run.at \in Holding, NEW a, a = run.a, NEW status, PhaseCloses(a, status),
           UNCHANGED <<row, pending, completions, tree, world>>,
           spent' \in [ops : Nat, crashes : Nat, faults : Nat],
           notes' \in Seq(NotesRow), SeqsAreBounded', NotesShape',
           run' \in RunRow, run'.a = a, run'.retry \in {run.retry, NoRetry},
           \/ run'.at \in {"execute", "verify"}
           \/ run'.at = "finalize" /\ run'.left \subseteq DOMAIN run'.passed
           \/ run'.at = "close" /\ run'.result = "failed"
           \/ run'.at = "abortCycle" /\ run'.result \in {"failed", "aborted"}
    PROVE  Base'
<1>1. a \in DOMAIN Attempts /\ a = Len(Attempts) /\ a # 0
  <2>1. run.a # 0
    BY DEF Base, RunShape, Holding, Working, Seeding, Looping, Verifying
  <2> QED
    BY <2>1, Holds
<1>2. RetryShape'
  <2>1. PastIsKept
    BY PastKept DEF PhaseCloses
  <2> QED
    BY <2>1, RetryStays DEF Seeding
<1>3. run'.a = Len(Attempts)' /\ ~Closed(run.a)'
  BY <1>1 DEF PhaseCloses, OtherRowsStay, Closed
<1>4. RunShape'
  BY <1>1, <1>3 DEF RunShape, Holding, Working, Seeding, Looping, Verifying
<1> QED
  BY <1>2, <1>4, LedgerBase DEF PhaseCloses, Base, TypeInv

LEMMA CycleBaseTyped ==
    ASSUME Base, NEW a \in DOMAIN Attempts, a = run.a
    PROVE  /\ CycleBase \in Revision
           /\ CycleBase \in FirstBase(a) \/ (FirstBase(a) = {} /\ CycleBase = run.head)
<1>1. FirstBase(a) \subseteq Revision
  BY BasesTyped DEF FirstBase, Executes
<1>2. run.head \in Revision
  BY DEF Base, TypeInv, RunRow
<1> DEFINE first == CHOOSE base \in FirstBase(a) : TRUE
<1>4. FirstBase(a) # {} => first \in FirstBase(a)
  OBVIOUS
<1>3. CycleBase = IF FirstBase(a) # {} THEN first ELSE run.head
  BY DEF CycleBase
<1> HIDE DEF first
<1>5. CASE FirstBase(a) # {}
  BY <1>1, <1>3, <1>4, <1>5
<1>6. CASE FirstBase(a) = {}
  BY <1>2, <1>3, <1>6
<1> QED
  BY <1>5, <1>6

LEMMA CompleteExecuteDoes ==
    ASSUME Base, CompleteExecute, NEW a, a = run.a
    PROVE  /\ a \in DOMAIN Attempts /\ a \in DOMAIN notes /\ Attempts[a].status = "running"
           /\ \/ /\ Fault /\ UNCHANGED <<cycles, notes>>
                 /\ Drops("abortCycle", a, "failed")
              \/ /\ UNCHANGED spent /\ Records(a, CycleBase)
                 /\ \/ PhaseCloses(a, "failed") /\ Drops("close", a, "failed")
                    \/ /\ PhaseCloses(a, "succeeded")
                       /\ run' \in RunRow /\ run'.at = "verify" /\ run'.a = a
                       /\ run'.retry = run.retry /\ run'.off = run.off
                       /\ run'.passed = run.passed /\ run'.attempt = run.attempt
<1>1. run.at = "completeExecute" /\ run \in RunRow
  BY DEF CompleteExecute, Base, TypeInv
<1>2. a \in DOMAIN Attempts /\ a \in DOMAIN notes /\ Attempts[a].status = "running"
  BY <1>1, Holds DEF Holding, Working, Looping
<1>3. Phases(a) # <<>> /\ Len(Phases(a)) \in DOMAIN Phases(a)
  BY <1>1, <1>2, LedgerRows DEF Base, RunShape, LastIs
<1> DEFINE status == IF run.ok THEN "succeeded" ELSE "failed"
<1>4. CASE /\ L!CompletePhase(Task, run.a, Len(Phases(run.a)), status)
           /\ notes' = [notes EXCEPT ![run.a].bases[Len(Phases(run.a))] = CycleBase]
           /\ run' = IF run.ok THEN [run EXCEPT !.at = "verify", !.reached = TRUE, !.head = None]
                               ELSE Closing("failed")
           /\ UNCHANGED spent
  <2>1. Records(a, CycleBase)
    BY <1>2, <1>3, <1>4, CycleBaseTyped, Recording
  <2>2. PhaseCloses(a, status)
    <3>1. status \in {"succeeded", "failed", "interrupted"}
      OBVIOUS
    <3> HIDE DEF status
    <3> QED
      BY <1>2, <1>3, <1>4, <3>1, PhaseClosing DEF Base
  <2>3. CASE run.ok
    <3>1. /\ run' \in RunRow /\ run'.at = "verify" /\ run'.a = a
          /\ run'.retry = run.retry /\ run'.off = run.off
          /\ run'.passed = run.passed /\ run'.attempt = run.attempt
      <4>1. None \in Revision
        BY DEF None, Revision
      <4> QED
        BY <1>1, <1>4, <2>3, <4>1 DEF RunRow, Places, Holding, Working, Looping
    <3> QED
      BY <1>2, <1>4, <2>1, <2>2, <2>3, <3>1
  <2>4. CASE ~run.ok
    <3>1. Drops("close", a, "failed")
      BY <1>1, <1>4, <2>4, Stopping
    <3> QED
      BY <1>2, <1>4, <2>1, <2>2, <2>4, <3>1
  <2> QED
    BY <2>3, <2>4
<1>5. CASE Fault /\ run' = Aborting("abortCycle", "failed") /\ UNCHANGED <<cycles, notes>>
  BY <1>1, <1>2, <1>5, Stopping
<1> QED
  BY <1>4, <1>5 DEF CompleteExecute

LEMMA CompleteExecuteBase == ASSUME Base, UNCHANGED world, CompleteExecute PROVE Base'
<1>1. PICK a : a = run.a
  OBVIOUS
<1>2. run.at = "completeExecute" /\ run.at \in Holding /\ a \in DOMAIN Attempts
  BY <1>1, CompleteExecuteDoes DEF CompleteExecute, Holding, Working, Looping
<1>3. CASE Fault /\ UNCHANGED <<cycles, notes>> /\ Drops("abortCycle", a, "failed")
  BY <1>1, <1>2, <1>3, FaultIsSpent, DropBase DEF CompleteExecute, Base, TypeInv
<1>4. CASE /\ UNCHANGED spent /\ Records(a, CycleBase)
           /\ PhaseCloses(a, "failed") /\ Drops("close", a, "failed")
  BY <1>1, <1>2, <1>4, RecordsKeep, ClosedBase DEF CompleteExecute, Drops, Base, TypeInv
<1>5. CASE /\ UNCHANGED spent /\ Records(a, CycleBase) /\ PhaseCloses(a, "succeeded")
           /\ run' \in RunRow /\ run'.at = "verify" /\ run'.a = a /\ run'.retry = run.retry
  BY <1>1, <1>2, <1>5, RecordsKeep, ClosedBase DEF CompleteExecute, Base, TypeInv
<1> QED
  BY <1>1, <1>3, <1>4, <1>5, CompleteExecuteDoes

\* The pass ends in finalize, in another try, or closes the run.
VerifyEnds(a, good) ==
    \/ /\ good /\ run' \in RunRow /\ run'.at = "finalize" /\ run'.a = a
       /\ run'.retry = run.retry /\ run'.off = run.off /\ run'.passed = run.passed
       /\ run'.left = Locked
    \/ ~good /\ Drops("close", a, "failed")
    \/ /\ ~good /\ ~run.ok
       /\ run' \in RunRow /\ run'.at \in {"execute", "verify"} /\ run'.a = a
       /\ run'.retry = run.retry /\ run'.off = run.off /\ run'.passed = run.passed
       /\ run'.attempt = run.attempt + 1 /\ run.attempt < world.retries

\* The judged passes of the attempt count one more, or not.
Counts(a, judged) ==
    NotesBecome(a, notes[a].bases, notes[a].commits, notes[a].rows, judged,
        notes[a].restored, notes[a].off)

CompleteVerifyEffect(a, good) ==
    \/ Fault /\ UNCHANGED <<cycles, notes>> /\ VerifyEnds(a, good)
    \/ /\ UNCHANGED spent /\ VerifyEnds(a, good)
       /\ PhaseCloses(a, IF good THEN "succeeded" ELSE "failed")
       /\ Counts(a, IF run.at # "infra" THEN notes[a].judged + 1 ELSE notes[a].judged)

LEMMA CompleteVerifyDoes ==
    ASSUME Base, CompleteVerify, NEW a, a = run.a
    PROVE  /\ a \in DOMAIN Attempts /\ a \in DOMAIN notes /\ Attempts[a].status = "running"
           /\ \E good \in BOOLEAN : (good => run.ok) /\ CompleteVerifyEffect(a, good)
<1>1. run.at \in {"judged", "unsaved", "infra"} /\ run \in RunRow
  BY DEF CompleteVerify, Base, TypeInv
<1>2. /\ a \in DOMAIN Attempts /\ a \in DOMAIN notes /\ Attempts[a].status = "running"
      /\ notes[a] \in NotesRow
  BY <1>1, Holds, BasesTyped DEF Holding, Working, Looping, Verifying
<1>3. Phases(a) # <<>> /\ Len(Phases(a)) \in DOMAIN Phases(a)
  BY <1>1, <1>2, LedgerRows DEF Base, RunShape, LastIs, Verifying
<1>4. PICK tampered \in BOOLEAN, stored \in BOOLEAN :
         LET good == run.ok /\ ~tampered
         IN  /\ IF stored
                THEN /\ L!CompletePhase(Task, run.a, Len(Phases(run.a)),
                                        IF good THEN "succeeded" ELSE "failed")
                     /\ UNCHANGED spent
                ELSE Fault /\ UNCHANGED cycles
             /\ notes' = [notes EXCEPT ![run.a].judged = IF stored /\ run.at # "infra" THEN @ + 1 ELSE @]
             /\ IF good THEN run' = [run EXCEPT !.at = "finalize", !.left = Locked]
                ELSE IF tampered THEN run' = Closing("failed")
                ELSE run' \in AfterFailedVerify(run.at # "infra")
  BY DEF CompleteVerify
<1>5. PICK good \in BOOLEAN : good <=> run.ok /\ ~tampered
  OBVIOUS
<1>6. VerifyEnds(a, good)
  <2>1. CASE good
    <3>1. Locked \in SUBSET Criteria
      BY VerdictsTyped
    <3>2. run' = [run EXCEPT !.at = "finalize", !.left = Locked]
      BY <1>4, <1>5, <2>1
    <3> QED
      BY <1>1, <2>1, <3>1, <3>2 DEF VerifyEnds, RunRow, Places, Holding
  <2>2. CASE ~good /\ run' = Closing("failed")
    BY <1>1, <2>2, Stopping DEF VerifyEnds
  <2>3. CASE ~good /\ ~tampered /\ run' \in AfterFailedVerify(run.at # "infra")
    <3>1. (run.at # "infra") \in BOOLEAN /\ ~run.ok
      BY <1>5, <2>3
    <3> QED
      BY <2>3, <3>1, AfterFailedVerifyDoes DEF VerifyEnds
  <2> QED
    BY <1>4, <1>5, <2>1, <2>2, <2>3
<1>7. CASE stored
  <2> DEFINE status == IF good THEN "succeeded" ELSE "failed"
             judged == IF run.at # "infra" THEN notes[a].judged + 1 ELSE notes[a].judged
             new == [notes[a] EXCEPT !.judged = judged]
  <2>1. PhaseCloses(a, status) /\ UNCHANGED spent
    <3>1. status \in {"succeeded", "failed", "interrupted"}
      OBVIOUS
    <3>2. L!CompletePhase(Task, a, Len(Phases(a)), status) /\ UNCHANGED spent
      BY <1>4, <1>5, <1>7
    <3> HIDE DEF status
    <3> QED
      BY <1>2, <1>3, <3>1, <3>2, PhaseClosing DEF Base
  <2>2. judged \in Nat
    BY <1>2 DEF NotesRow
  <2>3. notes' = [notes EXCEPT ![a] = new]
    BY <1>4, <1>7
  <2>6. judged = IF run.at # "infra" THEN notes[a].judged + 1 ELSE notes[a].judged
    OBVIOUS
  <2> HIDE DEF judged
  <2>4. /\ new \in NotesRow
        /\ new.bases = notes[a].bases /\ new.commits = notes[a].commits /\ new.rows = notes[a].rows
        /\ (notes[a].unsaved => new.unsaved) /\ (notes[a].resumed => new.resumed)
        /\ new.judged = judged /\ new.off = notes[a].off /\ new.restored = notes[a].restored
    BY <1>2, <2>2 DEF NotesRow
  <2> HIDE DEF new
  <2>5. Counts(a, judged)
    <3>1. NotesBecome(a, new.bases, new.commits, new.rows, new.judged, new.restored, new.off)
      BY <1>2, <2>3, <2>4, NotesEdit DEF Base, TypeInv
    <3> QED
      BY <2>4, <3>1 DEF Counts
  <2> QED
    BY <1>2, <1>5, <1>6, <2>1, <2>5, <2>6 DEF CompleteVerifyEffect
<1>8. CASE ~stored
  <2>1. Fault /\ UNCHANGED cycles
    BY <1>4, <1>8
  <2>2. notes' = notes
    <3>1. notes' = [notes EXCEPT ![a].judged = @]
      BY <1>4, <1>8
    <3>2. [notes[a] EXCEPT !.judged = notes[a].judged] = notes[a]
      BY <1>2 DEF NotesRow
    <3> QED
      BY <1>2, <3>1, <3>2 DEF Base, TypeInv
  <2> QED
    BY <1>2, <1>5, <1>6, <2>1, <2>2 DEF CompleteVerifyEffect
<1> QED
  BY <1>7, <1>8

LEMMA CountsKeep ==
    ASSUME Base, NEW a \in DOMAIN Attempts, NEW status, NEW judged,
           PhaseCloses(a, status), Counts(a, judged)
    PROVE  notes' \in Seq(NotesRow) /\ SeqsAreBounded' /\ NotesShape'
<1>1. \E bases, j :
         /\ Len(bases) = Len(notes[a].bases)
         /\ NotesBecome(a, bases, notes[a].commits, notes[a].rows, j,
                notes[a].restored, notes[a].off)
  BY DEF Counts
<1> QED
  BY <1>1, ClosingKeeps

LEMMA CompleteVerifyBase == ASSUME Base, UNCHANGED world, CompleteVerify PROVE Base'
<1>1. PICK a : a = run.a
  OBVIOUS
<1>2. run.at \in Verifying /\ run.at \in Holding
  BY DEF CompleteVerify, Holding, Working, Looping, Verifying
<1>3. PICK good \in BOOLEAN : CompleteVerifyEffect(a, good)
  BY <1>1, CompleteVerifyDoes
<1>4. a \in DOMAIN Attempts
  BY <1>1, CompleteVerifyDoes
<1>5. VerifyEnds(a, good)
  BY <1>3 DEF CompleteVerifyEffect
<1>6. CASE Fault /\ UNCHANGED <<cycles, notes>>
  <2>1. spent' \in [ops : Nat, crashes : Nat, faults : Nat]
    BY <1>6, FaultIsSpent DEF Base
  <2>2. CASE Drops("close", a, "failed")
    BY <1>1, <1>2, <1>6, <2>1, <2>2, DropBase DEF CompleteVerify, Base, TypeInv
  <2>3. CASE run' \in RunRow /\ run'.at \in {"execute", "verify"} /\ run'.a = a
             /\ run'.retry = run.retry
    BY <1>1, <1>2, <1>6, <2>1, <2>3, AgainBase DEF CompleteVerify
  <2>4. CASE run' \in RunRow /\ run'.at = "finalize" /\ run'.a = a
             /\ run'.retry = run.retry /\ run'.passed = run.passed /\ run'.left = Locked
    <3>1. LedgerStays
      BY <1>6, LedgerStutters DEF Base
    <3>2. RetryShape'
      BY <2>4, <3>1, PastKept, RetryStays DEF CompleteVerify, Seeding
    <3>3. run.a = Len(Attempts) /\ run.a # 0 /\ ~Closed(run.a)
      BY <1>2 DEF Base, RunShape, Holding, Working, Looping, Verifying
    <3>4. RunShape'
      BY <1>1, <2>4, <3>1, <3>3
      DEF CompleteVerify, RunShape, LedgerStays, Closed, Locked, Holding, Working, Seeding, Looping, Verifying
    <3> QED
      BY <1>6, <2>1, <2>4, <3>2, <3>4, StillBase DEF CompleteVerify, Base, TypeInv
  <2> QED
    BY <1>5, <2>2, <2>3, <2>4 DEF VerifyEnds
<1>7. CASE /\ UNCHANGED spent
           /\ PhaseCloses(a, IF good THEN "succeeded" ELSE "failed")
           /\ Counts(a, IF run.at # "infra" THEN notes[a].judged + 1 ELSE notes[a].judged)
  <2>1. PICK status, judged : PhaseCloses(a, status) /\ Counts(a, judged)
    BY <1>7
  <2>2. notes' \in Seq(NotesRow) /\ SeqsAreBounded' /\ NotesShape'
    BY <1>4, <2>1, CountsKeep
  <2>3. /\ run' \in RunRow /\ run'.a = a /\ run'.retry \in {run.retry, NoRetry}
        /\ \/ run'.at \in {"execute", "verify"}
           \/ run'.at = "finalize" /\ run'.left \subseteq DOMAIN run'.passed
           \/ run'.at = "close" /\ run'.result = "failed"
    BY <1>5 DEF VerifyEnds, Drops, Locked
  <2> QED
    BY <1>1, <1>2, <1>7, <2>1, <2>2, <2>3, ClosedBase DEF CompleteVerify, Base, TypeInv
<1> QED
  BY <1>3, <1>6, <1>7 DEF CompleteVerifyEffect

\* The run closes its attempt.
LEMMA TerminateDoes ==
    ASSUME Base, run.at \in {"close", "abortCycle"}, NEW a, a = run.a,
           L!Terminate(Task, run.a, run.result)
    PROVE  a \in DOMAIN Attempts /\ Attempts[a].status = "running" /\ CycleCloses(a, run.result)
<1>1. a \in DOMAIN Attempts /\ Attempts[a].status = "running"
  BY Holds DEF Holding
<1>2. run.result \in {"succeeded", "failed", "aborted"}
  BY DEF Base, RunShape
<1> QED
  BY <1>1, <1>2, CycleClosing DEF Base

LEMMA CycleClosesKeeps ==
    ASSUME Base, NEW a \in DOMAIN Attempts, NEW status, CycleCloses(a, status), UNCHANGED notes
    PROVE  LP!IInv' /\ SeqsAreBounded' /\ NotesShape' /\ \A b : b \in DOMAIN Attempts => Phases(b)' = Phases(b)
<1>1. \A b \in DOMAIN Attempts : Phases(b)' = Phases(b)
  BY DEF CycleCloses, OtherRowsStay
<1>2. DOMAIN notes = DOMAIN Attempts
  BY LedgerRows DEF Base, TypeInv, NotesShape
<1>3. SeqsAreBounded'
  BY DEF Base, SeqsAreBounded
<1> QED
  BY <1>1, <1>2, <1>3 DEF CycleCloses, OtherRowsStay, Base, NotesShape

LEMMA TerminatedBase ==
    ASSUME Base, run.at \in {"close", "abortCycle"}, NEW a, a = run.a,
           L!Terminate(Task, run.a, run.result), NEW at \in {"settle", "failTask"}, Goes(at),
           UNCHANGED <<notes, row, pending, completions, tree, spent, world>>,
           at = "settle" => run.at = "close"
    PROVE  Base'
<1>1. a \in DOMAIN Attempts /\ Attempts[a].status = "running" /\ CycleCloses(a, run.result)
  BY TerminateDoes
<1>2. LP!IInv' /\ SeqsAreBounded' /\ NotesShape'
  BY <1>1, CycleClosesKeeps
<1>3. RetryShape'
  <2>1. PastIsKept
    BY <1>1, PastKept DEF CycleCloses
  <2> QED
    BY <2>1, RetryStays DEF Goes, Seeding
<1>4. RunShape'
  <2>1. a = Len(Attempts) /\ a # 0
    BY DEF Base, RunShape, Holding
  <2>2. at = "settle" => run'.result \in {"succeeded", "failed"}
    BY DEF Base, RunShape, Goes
  <2> QED
    BY <1>1, <2>1, <2>2
    DEF Goes, CycleCloses, OtherRowsStay, RunShape, Holding, Working, Seeding, Looping, Verifying
<1> QED
  BY <1>2, <1>3, <1>4, LedgerBase DEF Goes, Base, TypeInv

LEMMA CloseBase == ASSUME Base, UNCHANGED world, Close PROVE Base'
<1>1. run \in RunRow /\ run.at = "close" /\ "settle" \in Places
  BY DEF Close, Base, TypeInv, Places
<1>2. CASE L!Terminate(Task, run.a, run.result) /\ Go("settle") /\ UNCHANGED spent
  <2>1. Goes("settle")
    BY <1>1, <1>2, Going
  <2> QED
    BY <1>1, <1>2, <2>1, TerminatedBase DEF Close
<1>3. CASE Fails(L!HasRunningPhase(Task, run.a)) /\ run' = Idle /\ UNCHANGED cycles
  <2>1. Drops("idle", 0, "none")
    BY <1>1, <1>3, Stopping
  <2>2. spent' \in [ops : Nat, crashes : Nat, faults : Nat]
    BY <1>3, FaultIsSpent DEF Fails, Base, TypeInv
  <2> QED
    BY <1>3, <2>1, <2>2, DropBase DEF Close, Base, TypeInv
<1> QED
  BY <1>2, <1>3 DEF Close

LEMMA AbortCycleBase == ASSUME Base, UNCHANGED world, AbortCycle PROVE Base'
<1>1. run \in RunRow /\ run.at = "abortCycle" /\ "failTask" \in Places
  BY DEF AbortCycle, Base, TypeInv, Places
<1>2. Goes("failTask")
  BY <1>1, Going DEF AbortCycle
<1>3. CASE L!Terminate(Task, run.a, run.result) /\ UNCHANGED spent
  BY <1>1, <1>2, <1>3, TerminatedBase DEF AbortCycle
<1>4. CASE Fails(L!HasRunningPhase(Task, run.a)) /\ UNCHANGED cycles
  <2>1. spent' \in [ops : Nat, crashes : Nat, faults : Nat]
    BY <1>4, FaultIsSpent DEF Fails, Base, TypeInv
  <2> QED
    BY <1>1, <1>2, <1>4, <2>1, GoBase DEF AbortCycle, Base, TypeInv
<1> QED
  BY <1>3, <1>4 DEF AbortCycle

LEMMA AbortPhaseDoes ==
    ASSUME Base, AbortPhase, NEW a, a = run.a
    PROVE  /\ a \in DOMAIN Attempts /\ a \in DOMAIN notes /\ Attempts[a].status = "running"
           /\ Goes("abortCycle")
           /\ \/ PhaseCloses(a, "failed") /\ UNCHANGED spent
              \/ Fault /\ UNCHANGED cycles
<1>1. run \in RunRow /\ run.at = "abortPhase"
  BY DEF AbortPhase, Base, TypeInv
<1>2. a \in DOMAIN Attempts /\ a \in DOMAIN notes /\ Attempts[a].status = "running"
  BY <1>1, Holds DEF Holding
<1>3. Goes("abortCycle")
  BY <1>1, Going DEF AbortPhase, Places, Holding
<1>4. Len(Phases(a)) \in DOMAIN Phases(a)
  BY <1>1, <1>2, LedgerRows DEF Base, RunShape, LastRuns
<1>5. L!CompletePhase(Task, run.a, Len(Phases(run.a)), "failed") => PhaseCloses(a, "failed")
  BY <1>2, <1>4, PhaseClosing DEF Base
<1> QED
  BY <1>2, <1>3, <1>5 DEF AbortPhase

LEMMA AbortPhaseBase == ASSUME Base, UNCHANGED world, AbortPhase PROVE Base'
<1>1. PICK a : a = run.a
  OBVIOUS
<1>2. run.at = "abortPhase" /\ run.at \in Holding /\ run.result \in {"failed", "aborted"}
  BY DEF AbortPhase, Base, RunShape, Holding
<1>3. a \in DOMAIN Attempts /\ Goes("abortCycle")
  BY <1>1, AbortPhaseDoes
<1>4. CASE PhaseCloses(a, "failed") /\ UNCHANGED spent
  <2>1. notes' \in Seq(NotesRow) /\ SeqsAreBounded' /\ NotesShape'
    BY <1>3, <1>4, ClosingKeeps DEF AbortPhase
  <2> QED
    BY <1>1, <1>2, <1>3, <1>4, <2>1, ClosedBase DEF AbortPhase, Goes, Base, TypeInv
<1>5. CASE Fault /\ UNCHANGED cycles
  <2>1. LedgerStays
    BY <1>5, LedgerStutters DEF Base
  <2>2. RetryShape'
    BY <1>2, <1>3, <2>1, PastKept, RetryStays DEF AbortPhase, Goes, Seeding
  <2>3. a = Len(Attempts) /\ a # 0 /\ ~Closed(a)
    BY <1>1, <1>2 DEF Base, RunShape, Holding, Working, Looping, Verifying
  <2>4. RunShape'
    BY <1>1, <1>2, <1>3, <2>1, <2>3
    DEF AbortPhase, Goes, RunShape, LedgerStays, Closed, Holding, Working, Seeding, Looping, Verifying
  <2> QED
    BY <1>3, <1>5, <2>2, <2>4, FaultIsSpent, StillBase DEF AbortPhase, Goes, Base, TypeInv
<1> QED
  BY <1>1, <1>4, <1>5, AbortPhaseDoes

\* The sweep closes the phase that ran, if one did.
LEMMA RestartDoes ==
    ASSUME Base, Restart, NEW a, a = Len(Attempts)
    PROVE  /\ Drops("idle", 0, "none")
           /\ spent' \in [ops : Nat, crashes : Nat, faults : Nat] /\ spent'.faults = spent.faults
           /\ \/ UNCHANGED cycles /\ LedgerStays
              \/ a \in DOMAIN Attempts /\ PhaseCloses(a, "interrupted")
<1>1. Drops("idle", 0, "none")
  BY Stopping DEF Restart, Base, TypeInv
<1>2. spent' \in [ops : Nat, crashes : Nat, faults : Nat] /\ spent'.faults = spent.faults
  BY Spending DEF Restart, Base
<1>3. ASSUME NEW b \in DOMAIN Attempts, L!HasRunningPhase(Task, b),
             L!CompletePhase(Task, Len(Attempts), Len(Phases(Len(Attempts))), "interrupted")
      PROVE  a \in DOMAIN Attempts /\ PhaseCloses(a, "interrupted")
  <2>1. b = a
    BY <1>3, LedgerRows DEF Base, Closed
  <2>2. Len(Phases(a)) \in DOMAIN Phases(a)
    BY <1>3, <2>1, LedgerRows DEF Base, L!HasRunningPhase, Phases, Attempts
  <2> QED
    BY <1>3, <2>1, <2>2, PhaseClosing DEF Base
<1>4. UNCHANGED cycles => LedgerStays
  BY LedgerStutters DEF Base
<1> QED
  BY <1>1, <1>2, <1>3, <1>4 DEF Restart

LEMMA RestartBase == ASSUME Base, UNCHANGED world, Restart PROVE Base'
<1>1. PICK a : a = Len(Attempts)
  OBVIOUS
<1>2. /\ Drops("idle", 0, "none")
      /\ spent' \in [ops : Nat, crashes : Nat, faults : Nat]
  BY <1>1, RestartDoes
<1>3. CASE UNCHANGED cycles
  BY <1>2, <1>3, DropBase DEF Restart, Base, TypeInv
<1>4. CASE a \in DOMAIN Attempts /\ PhaseCloses(a, "interrupted")
  <2>1. notes' \in Seq(NotesRow) /\ SeqsAreBounded' /\ NotesShape'
    BY <1>4, ClosingKeeps DEF Restart
  <2>2. RetryShape'
    <3>1. PastIsKept
      BY <1>4, PastKept DEF PhaseCloses
    <3> QED
      BY <1>2, <3>1, RetryStays DEF Restart, Drops, Seeding
  <2>3. RunShape'
    BY <1>2 DEF Drops, RunShape, Holding, Working, Seeding, Looping, Verifying
  <2> QED
    BY <1>2, <1>4, <2>1, <2>2, <2>3, LedgerBase DEF Restart, PhaseCloses, Drops, Base, TypeInv
<1> QED
  BY <1>1, <1>3, <1>4, RestartDoes

-----------------------------------------------------------------------------
(* Types and shape hold in every reachable state.                            *)

LEMMA InitBase == ASSUME Init PROVE Base
<1>1. TypeInv
  <2>1. NoVerdicts \in Completions
    <3>1. NoVerdicts \in [{} -> CompletionRow]
      BY DEF NoVerdicts
    <3> QED
      BY <3>1 DEF Completions
  <2>2. <<Root>> \in Revision /\ <<>> \in Seq(NotesRow)
    BY DEF Revision, Root
  <2> QED
    BY <2>1, <2>2, NothingHeld DEF Init, TypeInv
<1>2. notes = <<>> /\ Attempts = <<>>
  BY DEF Init, Attempts
<1>3. DOMAIN notes = {} /\ DOMAIN Attempts = {}
  BY <1>2
<1>4. SeqsAreBounded /\ NotesShape
  BY <1>2, <1>3 DEF SeqsAreBounded, NotesShape
<1>5. LP!IInv
  BY LedgerBounds, LP!InitIInv DEF Init, LP!Init
<1>6. RetryShape
  BY DEF Init, RetryShape, ParentIsClosed, Idle, NoRetry, Seeding
<1>7. RunShape
  BY DEF Init, RunShape, Idle, Holding, Working, Seeding, Looping, Verifying
<1> QED
  BY <1>1, <1>4, <1>5, <1>6, <1>7 DEF Base

LEMMA StutterBase == ASSUME Base, UNCHANGED vars PROVE Base'
<1>1. UNCHANGED <<cycles, notes, row, pending, completions, tree, run, world, spent>>
  BY DEF vars
<1>2. LedgerStays
  BY <1>1, LedgerStutters DEF Base
<1>3. RetryShape' /\ RunShape'
  BY <1>1, <1>2
  DEF Base, RetryShape, RunShape, ParentIsClosed, LedgerStays, Closed, Executes, LastIs, LastRuns,
      Phases
<1> QED
  BY <1>1, <1>3, StillBase DEF Base, TypeInv

LEMMA NextBase == ASSUME Base, [Next /\ UNCHANGED world]_vars PROVE Base'
<1>1. CASE UNCHANGED vars
  BY <1>1, StutterBase
<1>2. CASE Next /\ UNCHANGED world
  <2>1. ASSUME NEW mode \in {"fresh", "resume"}, NEW parent \in DOMAIN Attempts,
               RequestTaskRetry(mode, parent)
        PROVE  Base'
    BY <1>2, <2>1, RequestBase
  <2>2. CASE Pickup \/ Resume
    BY <1>2, <2>2, PickupBase, ResumeBase
  <2>11. ASSUME NEW to \in {"ready", "running", "failed", "done"}, PatchStatus(to)
         PROVE  Base'
    BY <1>2, <2>11, PatchBase
  <2>3. CASE ResetForFreshRetry \/ LoadCheckpointFromParent
    BY <1>2, <2>3, ResetBase, LoadBase
  <2>4. CASE StartCycle \/ SeedStart \/ SeedComplete \/ MirrorParentCriteria
    BY <1>2, <2>4, StartCycleBase, SeedStartBase, SeedCompleteBase, MirrorBase
  <2>5. CASE LoadSnapshot
    BY <1>2, <2>5, LoadSnapshotBase
  <2>6. CASE Execute
    BY <1>2, <2>6, StartExecuteBase, GitProbeBase, RunAgentBase, CompleteExecuteBase DEF Execute
  <2>7. CASE Verify
    BY <1>2, <2>7, StartVerifyBase, ChecksBase, CompleteVerifyBase DEF Verify
  <2>8. CASE Finish
    BY <1>2, <2>8, CompleteLegacyBase, ApplyBase, FinalizeBase, CloseBase, SettleBase DEF Finish
  <2>9. CASE Abort
    BY <1>2, <2>9, AbortPhaseBase, AbortCycleBase, FailTaskBase DEF Abort
  <2>10. CASE Restart
    BY <1>2, <2>10, RestartBase
  <2> QED
    BY <1>2, <2>1, <2>2, <2>3, <2>4, <2>5, <2>6, <2>7, <2>8, <2>9, <2>10, <2>11 DEF Next
<1> QED
  BY <1>1, <1>2

(* Every value the harness keeps in memory or in the store has its type, the *)
(* rows of attempts and phases are legal, and where the run stands agrees    *)
(* with them: a run inside an attempt holds the latest one, which is open,   *)
(* and in the execute or verify loop the last phase is the one it started    *)
(* (runCycleLoop, processState).                                             *)
THEOREM HarnessTypeCorrect == Spec => []Base
<1>1. Init => Base
  BY InitBase
<1>2. Base /\ [Next /\ UNCHANGED world]_vars => Base'
  BY NextBase
<1> QED
  BY <1>1, <1>2, PTL DEF Spec

-----------------------------------------------------------------------------
(* The safety properties, on top of the types and the shape.  Each property  *)
(* is strengthened to an invariant that says what every attempt, open or     *)
(* closed, and the run inside the open one have to keep for it:              *)
(*   CleanInv   where commits of an attempt can be found;                    *)
(*   BudgetInv  how judged passes, verdict rows and the counter of the run   *)
(*              hang together;                                               *)
(*   BackedInv  what locked verdicts and completions are based on;           *)
(*   BlankInv   how an attempt ends and what it has completed.               *)
(* Each action keeps all four.                                               *)


\* No commit of a later attempt; no commit of this one.
Within(rev, a) == \A i \in DOMAIN rev : rev[i] <= a
Lacks(rev, a) == \A i \in DOMAIN rev : rev[i] # a

IsFirst(a, p) == p \in Executes(a) /\ \A q \in Executes(a) : p <= q

CleanAt(a) ==
    /\ \A p \in DOMAIN notes[a].bases : Within(notes[a].bases[p], a)
    /\ \A commit \in notes[a].commits : Within(commit, a)
    /\ \A p \in Executes(a) : IsFirst(a, p) => Lacks(notes[a].bases[p], a)
    /\ ~Closed(a) /\ Executes(a) = {} => Lacks(tree, a)
    /\ run.a = a /\ run.at \in {"agent", "completeExecute"} =>
          /\ Within(run.head, a)
          /\ IsFirst(a, Len(Phases(a))) => Lacks(run.head, a)

CleanInv ==
    /\ Within(tree, Len(Attempts))
    /\ \A a \in DOMAIN notes : CleanAt(a)
    /\ StartOverIsClean

\* A run came back after the rows of a pass were lost.
Escaped(a) == notes[a].unsaved /\ notes[a].resumed

\* The row that a restarted run takes its counter from is there, or was lost.
Covered(a) ==
    notes[a].judged = 0 \/ notes[a].unsaved \/ \E r \in notes[a].rows : r.seq >= notes[a].judged

AtMost(a, passes) == notes[a].judged <= passes \/ Escaped(a)
WithinBudget(a) == AtMost(a, world.retries) /\ Covered(a)

\* A run may come back to it, or is in it.
MayGoOn(a) == Phases(a) # <<>> /\ (Resumable(a) \/ LastRuns(a))

BudgetAt(a) ==
    /\ AtMost(a, world.retries + 1)
    /\ MayGoOn(a) /\ ~Closed(a) => WithinBudget(a)
    /\ run.a = a /\ run.at \in Working => WithinBudget(a) /\ AtMost(a, run.attempt)
    /\ run.a = a /\ run.at = "unsaved" => notes[a].unsaved
    /\ run.a = a /\ run.at = "judged" /\ ~run.ok =>
          \E r \in notes[a].rows : r.seq = run.attempt + 1

BudgetInv == \A a \in DOMAIN notes : BudgetAt(a)

Backed(c) ==
    /\ c \in DOMAIN completions
    /\ completions[c].a = Len(notes)
    /\ IsPrefix(completions[c].at, tree)
AllBacked == \A c \in Criteria : Backed(c)

BackedInv ==
    /\ \A c \in Locked : run.passed[c].ev => IsPrefix(run.passed[c].at, tree)
    /\ run.at \in Looping \cup {"finalize"} => notes[run.a].off = run.off
    /\ run.at \in {"judged", "unsaved"} /\ run.ok => Criteria \subseteq Locked
    /\ run.at = "infra" => ~run.ok
    /\ run.at \in Verifying => ~run.off
    /\ run.at = "finalize" /\ ~run.off =>
          Criteria \subseteq Locked /\ \A c \in Criteria \ run.left : Backed(c)
    /\ run.at \in {"close", "settle"} /\ run.result = "succeeded" /\ ~notes[run.a].off => AllBacked

Excused(a) == notes[a].restored \/ spent.faults > 0
EndsVerified(a) == LastIs(a, "verify", "succeeded")
EndsRight(a) == Excused(a) \/ ~EndsVerified(a)

BlankAt(a) ==
    /\ \A c \in DOMAIN completions : completions[c].a = a => Excused(a) \/ EndsVerified(a)
    /\ Attempts[a].status = "failed" => EndsRight(a)
    /\ run.a = a /\ run.at \in Working \cup {"abortPhase", "abortCycle"} => EndsRight(a)
    /\ run.a = a /\ run.at = "close" /\ run.result = "failed" => EndsRight(a)
    /\ run.a = a /\ run.at = "finalize" => Excused(a) \/ EndsVerified(a)
    /\ run.a = a /\ run.at \in Holding =>
          \A c \in Locked : run.passed[c].ev \/ notes[a].restored

BlankInv ==
    /\ \A c \in DOMAIN completions : completions[c].a \in DOMAIN notes
    /\ \A a \in DOMAIN notes : BlankAt(a)
    /\ run.off => spent.faults > 0

SafeInv == CleanInv /\ BudgetInv /\ BackedInv /\ BlankInv

-----------------------------------------------------------------------------
(* What a step leaves alone.                                                 *)

Untouched(b) ==
    notes'[b] = notes[b] /\ Attempts'[b] = Attempts[b] /\ Phases(b)' = Phases(b)

FaultsGrow == spent'.faults >= spent.faults

LEMMA NumbersTyped ==
    ASSUME Base, Base'
    PROVE  /\ \A b \in DOMAIN notes : notes[b] \in NotesRow /\ notes[b].judged \in Nat
           /\ run.attempt \in Nat /\ run'.attempt \in Nat /\ run.a \in Nat
           /\ world.retries \in Nat /\ spent.faults \in Nat /\ spent'.faults \in Nat
<1>1. notes \in Seq(NotesRow) /\ run \in RunRow /\ run' \in RunRow /\ world \in Worlds
      /\ spent \in [ops : Nat, crashes : Nat, faults : Nat]
      /\ spent' \in [ops : Nat, crashes : Nat, faults : Nat]
  BY DEF Base, TypeInv
<1>2. \A b \in DOMAIN notes : notes[b] \in NotesRow
  BY <1>1
<1>3. \A b \in DOMAIN notes : notes[b].judged \in Nat
  BY <1>2 DEF NotesRow
<1> QED
  BY <1>1, <1>2, <1>3, WorldsAssumption DEF RunRow

\* Only the run looks at an attempt that is left alone.
LEMMA OthersSafe ==
    ASSUME Base, Base', SafeInv, NEW b \in DOMAIN notes, Untouched(b),
           run'.a # b \/ run'.at \notin Holding,
           Closed(b) \/ tree' = tree \/ Lacks(tree', b), FaultsGrow, UNCHANGED world,
           \A c \in DOMAIN completions' : completions'[c].a = b =>
              c \in DOMAIN completions /\ completions[c].a = b
    PROVE  CleanAt(b)' /\ BudgetAt(b)' /\ BlankAt(b)'
<1>1. CleanAt(b) /\ BudgetAt(b) /\ BlankAt(b)
  BY DEF SafeInv, CleanInv, BudgetInv, BlankInv
<1>2. Executes(b)' = Executes(b) /\ Closed(b)' = Closed(b)
  BY DEF Untouched, Executes, Closed
<1>3. IsFirst(b, Len(Phases(b)))' = IsFirst(b, Len(Phases(b)))
      /\ \A p : IsFirst(b, p)' = IsFirst(b, p)
  BY <1>2 DEF Untouched, IsFirst
<1> DEFINE holds == run'.a = b /\ run'.at \in Holding
<1>7. ~holds /\ Working \subseteq Holding
      /\ {"agent", "completeExecute", "judged", "unsaved"} \subseteq Working
      /\ {"abortPhase", "abortCycle", "close", "finalize"} \subseteq Holding
  BY DEF Holding, Working, Looping, Verifying
<1>4. CleanAt(b)'
  BY <1>1, <1>2, <1>3, <1>7 DEF CleanAt, Untouched, Lacks, Within
<1>5. BudgetAt(b)'
  <2>1. MayGoOn(b)' = MayGoOn(b) /\ WithinBudget(b)' = WithinBudget(b)
    BY DEF Untouched, MayGoOn, Resumable, LastRuns, WithinBudget, AtMost, Escaped, Covered
  <2> QED
    BY <1>1, <1>2, <1>7, <2>1 DEF BudgetAt, AtMost, Escaped, Untouched
<1>6. BlankAt(b)'
  <2>1. EndsVerified(b)' = EndsVerified(b)
    BY DEF Untouched, EndsVerified, LastIs
  <2>2. Excused(b) => Excused(b)'
    BY DEF Untouched, Excused, FaultsGrow, Base, TypeInv
  <2> QED
    BY <1>1, <1>7, <2>1, <2>2 DEF BlankAt, Untouched, EndsRight
<1> QED
  BY <1>4, <1>5, <1>6

\* The run leaves, or goes on between two phases; nothing it shares with a
\* later run has changed.
Leaves ==
    /\ LedgerStays /\ UNCHANGED <<notes, completions, tree, world>> /\ FaultsGrow
    /\ run'.off => run.off
    /\ \A c \in DOMAIN run'.passed :
          run'.passed[c].ev => c \in Locked /\ run.passed[c] = run'.passed[c]
    /\ \/ /\ run'.at \in {"idle", "failTask", "reset", "load", "startCycle"}
          /\ run'.at = "startCycle" => run'.retry.mode # "fresh"
       \/ /\ run.at \in Working \cup {"abortPhase"} /\ run'.a = run.a
          /\ run'.passed \in {run.passed, NoVerdicts}
          /\ \/ run'.at \in {"abortPhase", "abortCycle"}
             \/ run'.at = "close" /\ run'.result = "failed"
             \/ /\ run.at \in Working /\ run'.attempt >= run.attempt /\ run'.off = run.off
                /\ \/ run'.at = "snapshot"
                   \/ run'.at \in {"execute", "verify"} /\ run.at \notin Seeding

LEMMA LeavesSafe == ASSUME Base, Base', SafeInv, Leaves PROVE SafeInv'
<1>1. \A b \in DOMAIN notes : b \in DOMAIN Attempts /\ Untouched(b)
  <2>1. DOMAIN notes = DOMAIN Attempts
    BY LedgerRows DEF Base, TypeInv, NotesShape
  <2> QED
    BY <2>1 DEF Leaves, LedgerStays, Untouched
<1>2. ASSUME NEW b \in DOMAIN notes
      PROVE  CleanAt(b)' /\ BudgetAt(b)' /\ BlankAt(b)'
  <2>1. CleanAt(b) /\ BudgetAt(b) /\ BlankAt(b) /\ Untouched(b)
    BY <1>1 DEF SafeInv, CleanInv, BudgetInv, BlankInv
  <2>2. Executes(b)' = Executes(b) /\ Closed(b)' = Closed(b)
    BY <2>1 DEF Untouched, Executes, Closed
  <2>3. CleanAt(b)'
    <3>1. \A p : IsFirst(b, p)' = IsFirst(b, p)
      BY <2>2 DEF IsFirst
    <3>2. run'.at \notin {"agent", "completeExecute"}
      BY DEF Leaves
    <3> QED
      BY <2>1, <2>2, <3>1, <3>2 DEF Leaves, CleanAt, Untouched, Lacks, Within
  <2>4. BudgetAt(b)'
    <3>1. MayGoOn(b)' = MayGoOn(b) /\ WithinBudget(b)' = WithinBudget(b)
      BY <2>1 DEF Leaves, Untouched, MayGoOn, Resumable, LastRuns, WithinBudget, AtMost, Escaped, Covered
    <3>2. AtMost(b, world.retries + 1)' /\ (MayGoOn(b)' /\ ~Closed(b)' => WithinBudget(b)')
      BY <2>1, <2>2, <3>1 DEF Leaves, BudgetAt, AtMost, Escaped, Untouched
    <3>3. run'.at \notin {"judged", "unsaved"}
      BY DEF Leaves
    <3>4. ASSUME run'.a = b, run'.at \in Working
          PROVE  WithinBudget(b)' /\ AtMost(b, run.attempt)'
      <4>1. run.a = b /\ run.at \in Working /\ run'.attempt >= run.attempt
        BY <3>4 DEF Leaves, Working, Seeding, Looping, Verifying
      <4>2. AtMost(b, run.attempt) /\ WithinBudget(b)
        BY <2>1, <4>1 DEF BudgetAt
      <4>3. notes[b].judged \in Nat /\ run.attempt \in Nat /\ run'.attempt \in Nat
        BY NumbersTyped
      <4> QED
        BY <2>1, <3>1, <4>1, <4>2, <4>3 DEF AtMost, Escaped, Untouched
    <3> QED
      BY <3>2, <3>3, <3>4 DEF BudgetAt
  <2>5. BlankAt(b)'
    <3>1. EndsVerified(b)' = EndsVerified(b)
      BY <2>1 DEF Untouched, EndsVerified, LastIs
    <3>2. Excused(b) => Excused(b)'
      BY <2>1 DEF Leaves, Untouched, Excused, FaultsGrow, Base, TypeInv
    <3>3. EndsRight(b) => EndsRight(b)'
      BY <3>1, <3>2 DEF EndsRight
    <3>4. ASSUME run'.a = b, run'.at \in Working \cup {"abortPhase", "abortCycle", "close"}
          PROVE  EndsRight(b)'
      <4>1. run.a = b /\ run.at \in Working \cup {"abortPhase"}
        BY <3>4 DEF Leaves, Working, Seeding, Looping, Verifying
      <4> QED
        BY <2>1, <3>3, <4>1 DEF BlankAt
    <3>5. ASSUME run'.a = b, run'.at \in Holding
          PROVE  \A c \in DOMAIN run'.passed : run'.passed[c].ev \/ notes'[b].restored
      <4>1. run.a = b /\ run.at \in Holding /\ run'.passed \in {run.passed, NoVerdicts}
        BY <3>5 DEF Leaves, Holding, Working, Seeding, Looping, Verifying
      <4> QED
        BY <2>1, <4>1 DEF BlankAt, Untouched, NoVerdicts, Locked
    <3>6. run'.at # "finalize"
      BY DEF Leaves
    <3> QED
      BY <2>1, <3>1, <3>2, <3>3, <3>4, <3>5, <3>6 DEF Leaves, BlankAt, Untouched, Locked
  <2> QED
    BY <2>3, <2>4, <2>5
<1>3. CleanInv'
  <2>1. StartOverIsClean'
    BY DEF Leaves, StartOverIsClean
  <2> QED
    BY <1>2, <2>1 DEF Leaves, LedgerStays, SafeInv, CleanInv, Within
<1>4. BackedInv'
  <2>1. \A c \in DOMAIN run'.passed : run'.passed[c].ev => IsPrefix(run'.passed[c].at, tree')
    BY DEF Leaves, SafeInv, BackedInv
  <2>2. run'.at \in Looping \cup {"finalize"} => notes'[run'.a].off = run'.off
    BY DEF Leaves, SafeInv, BackedInv, Working, Looping, Verifying, Seeding
  <2>3. run'.at \notin {"finalize", "settle"} \cup Verifying
        /\ ~(run'.at = "close" /\ run'.result = "succeeded")
    BY DEF Leaves, Verifying
  <2> QED
    BY <2>1, <2>2, <2>3 DEF BackedInv, Locked, Verifying
<1>5. BudgetInv' /\ BlankInv'
  <2>1. run'.off => spent'.faults > 0
    BY DEF Leaves, FaultsGrow, SafeInv, BlankInv, Base, TypeInv
  <2>2. \A c \in DOMAIN completions' : completions'[c].a \in DOMAIN notes'
    BY DEF Leaves, SafeInv, BlankInv
  <2> QED
    BY <1>2, <2>1, <2>2 DEF Leaves, BudgetInv, BlankInv
<1> QED
  BY <1>3, <1>4, <1>5 DEF SafeInv

-----------------------------------------------------------------------------
(* The steps that leave.                                                     *)

LEMMA Growing ==
    ASSUME Base, UNCHANGED spent \/ Fault \/ Spend("ops") \/ Spend("crashes")
    PROVE  FaultsGrow
<1>1. spent.faults \in Nat
  BY DEF Base, TypeInv
<1>2. ASSUME Fault PROVE spent'.faults = spent.faults + 1
  BY <1>2, Spending DEF Fault, Base
<1>3. ASSUME Spend("ops") \/ Spend("crashes") PROVE spent'.faults = spent.faults
  BY <1>3, Spending DEF Base
<1> QED
  BY <1>1, <1>2, <1>3 DEF FaultsGrow

\* The run gives up before its next call, or after a call that failed.
LEMMA GivesUp ==
    ASSUME Base, UNCHANGED <<cycles, notes, completions, tree, world, row>>, FaultsGrow,
           Goes("failTask")
    PROVE  Leaves
<1>1. LedgerStays
  BY LedgerStutters DEF Base
<1> QED
  BY <1>1 DEF Leaves, Goes, Locked

LEMMA DropLeaves ==
    ASSUME Base, UNCHANGED <<cycles, notes, completions, tree, world>>, FaultsGrow,
           NEW at, NEW a, NEW result, Drops(at, a, result),
           \/ at = "idle"
           \/ /\ at \in {"abortPhase", "abortCycle"} \/ (at = "close" /\ result = "failed")
              /\ run.at \in Working /\ a = run.a
    PROVE  Leaves
<1>1. LedgerStays
  BY LedgerStutters DEF Base
<1> QED
  BY <1>1 DEF Leaves, Drops, NoVerdicts

LEMMA PickupLeaves == ASSUME Base, UNCHANGED world, Pickup PROVE Leaves
<1>1. LedgerStays /\ FaultsGrow
  BY LedgerStutters, Growing DEF Base, Pickup
<1> DEFINE at == CASE pending.mode = "fresh" -> "reset"
                   [] pending.mode = "resume" -> "load"
                   [] OTHER -> "startCycle"
<1>2. /\ at \in {"reset", "load", "startCycle"}
      /\ at = "startCycle" => pending.mode # "fresh"
  OBVIOUS
<1>3. run' = [Idle EXCEPT !.retry = pending, !.at = at]
  BY DEF Pickup
<1> HIDE DEF at
<1>4. run'.at = at /\ run'.retry = pending /\ run'.off = FALSE /\ run'.passed = NoVerdicts
  BY <1>3 DEF Idle
<1> QED
  BY <1>1, <1>2, <1>4 DEF Pickup, Leaves, NoVerdicts

LEMMA LoadLeaves == ASSUME Base, UNCHANGED world, LoadCheckpointFromParent PROVE Leaves
<1>1. LedgerStays /\ FaultsGrow
  BY LedgerStutters, Growing DEF Base, LoadCheckpointFromParent
<1>2. run.retry.mode = "resume" /\ run.retry.parent \in DOMAIN Attempts /\ run \in RunRow
  BY DEF LoadCheckpointFromParent, Base, TypeInv, RetryShape, ParentIsClosed
<1>3. CASE Go("failTask")
  BY <1>1, <1>2, <1>3, Going, GivesUp DEF LoadCheckpointFromParent, Places
<1>4. CASE run' = [run EXCEPT !.at = "startCycle",
                              !.passed = RestoredVerdicts(run.retry.parent),
                              !.seed = VerifyOnlyEntry(run.retry.parent),
                              !.skip = VerifyOnlyEntry(run.retry.parent)]
  <2>1. /\ run'.at = "startCycle" /\ run'.retry = run.retry /\ run'.off = run.off
        /\ run'.passed = RestoredVerdicts(run.retry.parent)
    BY <1>2, <1>4 DEF RunRow
  <2>2. \A c \in DOMAIN run'.passed : ~run'.passed[c].ev
    BY <1>2, <2>1, RestoringTyped
  <2> QED
    BY <1>1, <1>2, <2>1, <2>2 DEF LoadCheckpointFromParent, Leaves
<1> QED
  BY <1>3, <1>4 DEF LoadCheckpointFromParent

LEMMA MirrorLeaves == ASSUME Base, UNCHANGED world, MirrorParentCriteria PROVE Leaves
<1>1. LedgerStays /\ FaultsGrow
  BY LedgerStutters, Growing DEF Base, MirrorParentCriteria
<1>2. run \in RunRow /\ run.at = "mirror" /\ run.at \in Working /\ run.attempt \in Nat
      /\ {"snapshot", "failTask"} \subseteq Places
  BY DEF MirrorParentCriteria, Base, TypeInv, RunRow, Places, Holding, Working, Seeding
<1>3. Goes("snapshot") \/ Goes("failTask")
  BY <1>2, Going DEF MirrorParentCriteria
<1>4. CASE Goes("snapshot")
  BY <1>1, <1>2, <1>4 DEF MirrorParentCriteria, Leaves, Goes, Locked
<1>5. CASE Goes("failTask")
  BY <1>1, <1>2, <1>5, GivesUp DEF MirrorParentCriteria
<1> QED
  BY <1>3, <1>4, <1>5

LEMMA GitProbeLeaves == ASSUME Base, UNCHANGED world, GitProbeFails PROVE Leaves
<1>1. Drops("abortPhase", run.a, "failed") /\ run.at \in Working
  BY Stopping DEF GitProbeFails, Base, TypeInv, Working, Looping
<1> QED
  BY <1>1, Growing, DropLeaves DEF GitProbeFails

LEMMA FailTaskLeaves == ASSUME Base, UNCHANGED world, FailTask PROVE Leaves
<1>1. Drops("idle", 0, "none")
  BY Stopping DEF FailTask, Base, TypeInv
<1> QED
  BY <1>1, Growing, DropLeaves DEF FailTask

LEMMA FailingGrows ==
    ASSUME Base, NEW refused, Fails(refused)
    PROVE  FaultsGrow
  BY Growing DEF Fails

-----------------------------------------------------------------------------
(* The steps inside an attempt.                                              *)

LEMMA ExecutesNext ==
    ASSUME Base', NEW a \in DOMAIN notes'
    PROVE  Executes(a)' \subseteq DOMAIN notes'[a].bases
<1>1. /\ notes' \in Seq(NotesRow) /\ Len(notes') = Len(Attempts')
      /\ Len(notes'[a].bases) = Len(Phases(a)')
  BY DEF Base, TypeInv, NotesShape
<1>2. Attempts' \in Seq(LP!CycleRow)
  BY DEF Base, LP!IInv, LP!TypeOK, Attempts
<1>3. a \in DOMAIN Attempts' /\ Attempts'[a] \in LP!CycleRow /\ notes'[a] \in NotesRow
  BY <1>1, <1>2
<1>4. Phases(a)' \in Seq(LP!PhaseRow) /\ notes'[a].bases \in Seq(Revision)
  BY <1>3 DEF Phases, LP!CycleRow, NotesRow
<1> QED
  BY <1>1, <1>4 DEF Executes

\* Bases and commits are as they were, but for phases without a base.
LEMMA CleanGrows ==
    ASSUME Base, Base', NEW a \in DOMAIN notes, a \in DOMAIN notes', CleanAt(a),
           Closed(a) => Closed(a)',
           tree' = tree \/ Executes(a)' # {},
           Executes(a) \subseteq Executes(a)', notes'[a].commits = notes[a].commits,
           \A p \in DOMAIN notes'[a].bases :
              \/ notes'[a].bases[p] = None
              \/ p \in DOMAIN notes[a].bases /\ notes'[a].bases[p] = notes[a].bases[p],
           \A p \in Executes(a)' : p \in Executes(a) \/ notes'[a].bases[p] = None,
           run'.at \in {"agent", "completeExecute"} =>
              /\ Within(run'.head, a)
              /\ IsFirst(a, Len(Phases(a)))' => Lacks(run'.head, a)
    PROVE  CleanAt(a)'
<1>1. Lacks(None, a) /\ Within(None, a)
  BY DEF None, Lacks, Within
<1>2. Executes(a)' \subseteq DOMAIN notes'[a].bases
  BY ExecutesNext
<1>3. \A p \in DOMAIN notes'[a].bases : Within(notes'[a].bases[p], a)
  BY <1>1 DEF CleanAt
<1>4. ASSUME NEW p \in Executes(a)', IsFirst(a, p)'
      PROVE  Lacks(notes'[a].bases[p], a)
  <2>1. CASE notes'[a].bases[p] = None
    BY <1>1, <2>1
  <2>2. CASE notes'[a].bases[p] # None
    <3>1. p \in Executes(a) /\ IsFirst(a, p) /\ notes'[a].bases[p] = notes[a].bases[p]
      BY <1>2, <1>4, <2>2 DEF IsFirst
    <3> QED
      BY <3>1 DEF CleanAt
  <2> QED
    BY <2>1, <2>2
<1>5. ~Closed(a)' /\ Executes(a)' = {} => Lacks(tree', a)
  BY DEF CleanAt
<1> QED
  BY <1>3, <1>4, <1>5 DEF CleanAt, Lacks, Within

\* No pass is counted, and the rows go as far as they did.
LEMMA BudgetGrows ==
    ASSUME Base, Base', NEW a \in DOMAIN notes, BudgetAt(a), UNCHANGED world,
           run.a = a, run.at \in Working, notes'[a].judged = notes[a].judged, MarksStay(a),
           \A r \in notes[a].rows : \E s \in notes'[a].rows : s.seq = r.seq,
           run'.a = a /\ run'.at \in Working => run'.attempt >= run.attempt,
           run'.a = a /\ run'.at = "unsaved" => notes'[a].unsaved,
           run'.a = a /\ run'.at = "judged" /\ ~run'.ok =>
              \E r \in notes'[a].rows : r.seq = run'.attempt + 1
    PROVE  BudgetAt(a)'
<1>1. WithinBudget(a) /\ AtMost(a, run.attempt) /\ AtMost(a, world.retries + 1)
  BY DEF BudgetAt
<1>2. Escaped(a) => Escaped(a)'
  BY DEF Escaped, MarksStay
<1>3. Covered(a)'
  BY <1>1 DEF WithinBudget, Covered, MarksStay
<1>4. AtMost(a, world.retries)' /\ AtMost(a, world.retries + 1)'
  BY <1>1, <1>2 DEF WithinBudget, AtMost
<1>5. run'.a = a /\ run'.at \in Working => AtMost(a, run.attempt)'
  BY <1>1, <1>2, NumbersTyped DEF AtMost
<1> QED
  BY <1>3, <1>4, <1>5 DEF BudgetAt, WithinBudget

\* The attempt does not come to end in a verify phase that succeeded.
LEMMA BlankGrows ==
    ASSUME Base, Base', NEW a \in DOMAIN notes, BlankAt(a), FaultsGrow, UNCHANGED completions,
           run.a = a, run.at \in Working \cup {"abortPhase", "abortCycle"},
           notes[a].restored => notes'[a].restored, EndsVerified(a)' => EndsVerified(a),
           run'.at # "finalize",
           \/ run'.passed \in {run.passed, NoVerdicts}
           \/ \A c \in DOMAIN run'.passed :
                 run'.passed[c].ev \/ (c \in Locked /\ run'.passed[c] = run.passed[c])
    PROVE  BlankAt(a)'
<1>1. EndsRight(a) /\ \A c \in Locked : run.passed[c].ev \/ notes[a].restored
  BY DEF BlankAt, Holding
<1>2. Excused(a) => Excused(a)'
  BY NumbersTyped DEF Excused, FaultsGrow
<1>3. EndsRight(a)'
  BY <1>1, <1>2 DEF EndsRight
<1>4. \A c \in DOMAIN completions : completions[c].a = a => Excused(a)
  BY <1>1 DEF BlankAt, EndsRight
<1>5. \A c \in DOMAIN run'.passed : run'.passed[c].ev \/ notes'[a].restored
  BY <1>1 DEF Locked, NoVerdicts
<1> QED
  BY <1>2, <1>3, <1>4, <1>5 DEF BlankAt, Locked

LEMMA BackedGrows ==
    ASSUME BackedInv, tree' = tree, run'.passed \in {run.passed, NoVerdicts},
           run'.at \in Looping =>
              /\ run.at \in Looping /\ run'.a = run.a /\ run'.off = run.off
              /\ notes'[run.a].off = notes[run.a].off,
           run'.at \notin {"judged", "unsaved", "infra", "finalize", "settle"},
           run'.at = "checks" => ~run'.off,
           run'.at = "close" => run'.result = "failed"
    PROVE  BackedInv'
<1>1. \A c \in DOMAIN run'.passed : run'.passed[c].ev => IsPrefix(run'.passed[c].at, tree')
  BY DEF BackedInv, Locked, NoVerdicts
<1>2. run'.at \in Looping \cup {"finalize"} => notes'[run'.a].off = run'.off
  BY DEF BackedInv
<1> QED
  BY <1>1, <1>2 DEF BackedInv, Locked, Verifying

\* Every other attempt is closed and stays as it is.
LEMMA InsideSafe ==
    ASSUME Base, Base', SafeInv, NEW a \in DOMAIN Attempts, Attempts[a].status = "running",
           LedgerStays \/ OtherRowsStay(a), DOMAIN notes' = DOMAIN notes,
           \A b \in DOMAIN notes : b # a => notes'[b] = notes[b],
           UNCHANGED <<completions, world>>, FaultsGrow, run'.off => run.off \/ spent'.faults > 0,
           run'.a = a \/ run'.at \notin Holding, run'.at # "startCycle",
           Within(tree', a), CleanAt(a)', BudgetAt(a)', BlankAt(a)', BackedInv'
    PROVE  SafeInv'
<1>1. DOMAIN notes = DOMAIN Attempts /\ a = Len(Attempts) /\ Len(Attempts') = Len(Attempts)
  BY LedgerRows DEF Base, TypeInv, NotesShape, LedgerStays, OtherRowsStay
<1>2. ASSUME NEW b \in DOMAIN notes, b # a
      PROVE  CleanAt(b)' /\ BudgetAt(b)' /\ BlankAt(b)'
  <2>1. Closed(b)
    BY <1>1, <1>2, LedgerRows DEF Base, Closed
  <2>2. Untouched(b)
    BY <1>1, <1>2 DEF Untouched, LedgerStays, OtherRowsStay
  <2> QED
    BY <1>2, <2>1, <2>2, OthersSafe
<1>3. \A b \in DOMAIN notes' : CleanAt(b)' /\ BudgetAt(b)' /\ BlankAt(b)'
  BY <1>2
<1>4. CleanInv'
  BY <1>1, <1>3 DEF CleanInv, StartOverIsClean, Within
<1>5. BlankInv'
  <2>1. run'.off => spent'.faults > 0
    BY NumbersTyped DEF SafeInv, BlankInv, FaultsGrow
  <2> QED
    BY <1>3, <2>1 DEF SafeInv, BlankInv
<1> QED
  BY <1>3, <1>4, <1>5 DEF SafeInv, BudgetInv

-----------------------------------------------------------------------------
(* Coming back: start over, take up again.                                   *)

LEMMA AnchorsClean ==
    ASSUME Base, CleanInv, NEW a \in DOMAIN Attempts, NEW anchor \in Anchors(a)
    PROVE  Within(anchor, a) /\ (FirstBase(a) = {} \/ Lacks(anchor, a))
<1>1. a \in DOMAIN notes /\ CleanAt(a) /\ DOMAIN notes[a].bases = DOMAIN Phases(a)
  BY BasesTyped DEF CleanInv
<1>2. CASE anchor \in FirstBase(a)
  <2>1. PICK p \in Executes(a) : IsFirst(a, p) /\ anchor = notes[a].bases[p]
    BY <1>2 DEF FirstBase, IsFirst
  <2>2. p \in DOMAIN notes[a].bases
    BY <1>1 DEF Executes
  <2> QED
    BY <1>1, <2>1, <2>2 DEF CleanAt
<1>3. CASE FirstBase(a) = {} /\ anchor \in FallbackAnchors(a)
  <2>1. PICK commit \in notes[a].commits : anchor = Front(commit)
    BY <1>3 DEF FallbackAnchors
  <2>2. commit \in Seq(Nat) /\ commit # <<>>
    BY <2>1, BasesTyped DEF Revision
  <2>3. \A i \in DOMAIN anchor : i \in DOMAIN commit /\ anchor[i] = commit[i]
    BY <2>1, <2>2 DEF Front
  <2> QED
    BY <1>1, <1>3, <2>1, <2>3 DEF CleanAt, Within
<1> QED
  BY <1>2, <1>3 DEF Anchors

LEMMA ResetSafe ==
    ASSUME Base, Base', SafeInv, UNCHANGED world, ResetForFreshRetry PROVE SafeInv'
<1>1. PICK parent : parent = run.retry.parent
  OBVIOUS
<1>2. /\ run.at = "reset" /\ run \in RunRow /\ {"startCycle", "failTask"} \subseteq Places
      /\ run.retry.mode = "fresh" /\ parent \in DOMAIN Attempts /\ Closed(parent)
      /\ run.passed = NoVerdicts
  BY <1>1 DEF ResetForFreshRetry, Base, TypeInv, RetryShape, RunShape, ParentIsClosed, Places
<1>3. LedgerStays
  BY LedgerStutters DEF ResetForFreshRetry, Base
<1>4. ASSUME NEW anchor \in Anchors(run.retry.parent), tree' = anchor, Go("startCycle"),
             UNCHANGED spent
      PROVE  SafeInv'
  <2>1. Goes("startCycle") /\ FaultsGrow
    BY <1>2, <1>4, Going, Growing
  <2>2. Within(tree', parent) /\ (FirstBase(parent) = {} \/ Lacks(tree', parent))
    BY <1>1, <1>2, <1>4, AnchorsClean DEF SafeInv
  <2>3. /\ DOMAIN notes = DOMAIN Attempts /\ DOMAIN Attempts = 1..Len(Attempts)
        /\ Len(Attempts) \in Nat /\ tree' \in Seq(Nat)
    BY LedgerRows DEF Base, TypeInv, NotesShape, Revision
  <2>4. \A i \in DOMAIN tree' : tree'[i] \in Nat
    BY <2>3
  <2>5. ASSUME NEW b \in DOMAIN notes
        PROVE  CleanAt(b)' /\ BudgetAt(b)' /\ BlankAt(b)'
    <3>1. Untouched(b)
      BY <1>3, <2>3 DEF ResetForFreshRetry, LedgerStays, Untouched
    <3>2. Closed(b) \/ Lacks(tree', b)
      <4>1. ASSUME ~Closed(b) PROVE parent < b
        <5>1. b = Len(Attempts) /\ b # parent
          BY <1>2, <2>3, <4>1, LedgerRows DEF Base, Closed
        <5> QED
          BY <1>2, <2>3, <5>1
      <4> QED
        BY <1>2, <2>2, <2>3, <2>4, <4>1 DEF Within, Lacks
    <3>3. run'.at \notin Holding
      BY <2>1 DEF Goes, Holding, Working, Seeding, Looping, Verifying
    <3> QED
      BY <2>1, <3>1, <3>2, <3>3, OthersSafe DEF ResetForFreshRetry
  <2>6. CleanInv'
    <3>1. StartOverIsClean'
      <4>1. FirstBase(parent)' = FirstBase(parent)
        BY <1>3 DEF ResetForFreshRetry, FirstBase, Executes, LedgerStays
      <4>2. run'.retry.parent = parent
        BY <1>1, <2>1 DEF Goes
      <4>3. (\A i \in DOMAIN tree' : tree'[i] # parent) \/ FirstBase(parent)' = {}
        BY <2>2, <4>1 DEF Lacks
      <4>4. FirstBase(run.retry.parent)' = FirstBase(parent)'
        BY <4>2 DEF FirstBase, Executes, Phases
      <4> QED
        BY <4>2, <4>3, <4>4 DEF StartOverIsClean
    <3>2. Within(tree', Len(Attempts'))
      BY <1>2, <1>3, <2>2, <2>3, <2>4 DEF Within, LedgerStays
    <3> QED
      BY <2>5, <3>1, <3>2 DEF ResetForFreshRetry, CleanInv, Within
  <2>7. BackedInv'
    <3>1. run'.passed = NoVerdicts /\ run'.at = "startCycle"
      BY <1>2, <2>1 DEF ResetForFreshRetry, Goes
    <3> QED
      BY <3>1 DEF BackedInv, Locked, NoVerdicts, Looping, Verifying
  <2>8. BudgetInv' /\ BlankInv'
    BY <1>4, <2>1, <2>5 DEF ResetForFreshRetry, SafeInv, BudgetInv, BlankInv, Goes
  <2> QED
    BY <2>6, <2>7, <2>8 DEF SafeInv
<1>5. CASE Fails(Anchors(run.retry.parent) = {}) /\ Go("failTask") /\ UNCHANGED tree
  <2>1. Goes("failTask") /\ FaultsGrow
    BY <1>2, <1>5, Going, FailingGrows
  <2> QED
    BY <1>5, <2>1, GivesUp, LeavesSafe DEF ResetForFreshRetry
<1> QED
  BY <1>4, <1>5 DEF ResetForFreshRetry

\* A run that may go on has not been verified.
LEMMA ResumableIsOpen ==
    ASSUME NEW a, Resumable(a)
    PROVE  Phases(a) # <<>> /\ ~EndsVerified(a) /\ MayGoOn(a)
  BY DEF Resumable, EndsVerified, LastIs, MayGoOn, Last

LEMMA ResumeSafe == ASSUME Base, Base', SafeInv, UNCHANGED world, Resume PROVE SafeInv'
<1>1. PICK a : a = Len(Attempts)
  OBVIOUS
<1>2. CASE ~Resumable(a)
  <2>1. Goes("failTask")
    BY <1>1, <1>2, Going DEF Resume, Base, TypeInv, Places
  <2> QED
    BY <1>1, <1>2, <2>1, Growing, GivesUp, LeavesSafe DEF Resume
<1>3. CASE Resumable(a)
  <2> DEFINE back == notes[a].restored \/ DOMAIN RestoredVerdicts(a) # {}
  <2>1. /\ a \in DOMAIN Attempts /\ Attempts[a].status = "running" /\ a \in DOMAIN notes
        /\ LedgerStays
        /\ run' \in RunRow /\ run'.at = "snapshot" /\ run'.a = a
        /\ run'.attempt = MaxAttemptSeq(a) /\ ~run'.off /\ run'.passed = RestoredVerdicts(a)
        /\ notes'[a].resumed
        /\ NotesBecome(a, notes[a].bases, notes[a].commits, notes[a].rows, notes[a].judged,
               back, notes[a].off)
    BY <1>1, <1>3, ResumeDoes
  <2> HIDE DEF back
  <2>2. CleanAt(a) /\ BudgetAt(a) /\ BlankAt(a) /\ ~Closed(a)
    BY <2>1 DEF SafeInv, CleanInv, BudgetInv, BlankInv, Closed
  <2>3. /\ DOMAIN notes' = DOMAIN notes
        /\ notes'[a].bases = notes[a].bases /\ notes'[a].commits = notes[a].commits
        /\ notes'[a].rows = notes[a].rows /\ notes'[a].judged = notes[a].judged
        /\ notes'[a].restored = back /\ notes'[a].off = notes[a].off
        /\ \A b \in DOMAIN notes : b # a => notes'[b] = notes[b]
    BY <2>1 DEF NotesBecome
  <2>4. CleanAt(a)'
    <3>1. Executes(a)' = Executes(a) /\ Closed(a)' = Closed(a)
      BY <2>1 DEF LedgerStays, Executes, Closed
    <3>2. Executes(a) \subseteq DOMAIN notes[a].bases
      BY <2>1, BasesTyped DEF Executes
    <3> QED
      BY <2>1, <2>2, <2>3, <3>1, <3>2, CleanGrows DEF Resume
  <2>5. BudgetAt(a)'
    <3>1. WithinBudget(a)
      BY <1>3, <2>2, ResumableIsOpen DEF BudgetAt
    <3>2. MarksStay(a)
      BY <2>1 DEF NotesBecome
    <3>4. WithinBudget(a)' /\ AtMost(a, world.retries + 1)'
      BY <2>2, <2>3, <3>1, <3>2 DEF Resume, BudgetAt, MarksStay, WithinBudget, AtMost, Escaped, Covered
    <3>3. notes[a].judged <= MaxAttemptSeq(a) \/ Escaped(a)'
      <4>1. /\ MaxAttemptSeq(a) \in Nat
            /\ \A r \in notes[a].rows : r.seq <= MaxAttemptSeq(a) /\ r.seq \in Nat
        BY <2>1, MaxAttempt, BasesTyped DEF NotesRow, ReportRow
      <4>2. notes[a].unsaved => Escaped(a)'
        BY <2>1, <3>2 DEF MarksStay, Escaped
      <4> QED
        BY <2>1, <3>1, <4>1, <4>2, NumbersTyped DEF WithinBudget, Covered
    <3>5. AtMost(a, run.attempt)'
      BY <2>1, <2>3, <3>3 DEF AtMost
    <3> QED
      BY <2>1, <3>4, <3>5 DEF BudgetAt
  <2>6. BlankAt(a)'
    <3>1. ~EndsVerified(a)'
      BY <1>3, <2>1, ResumableIsOpen DEF LedgerStays, EndsVerified, LastIs
    <3>2. Excused(a) => Excused(a)'
      BY <2>3 DEF Resume, Excused, back
    <3>3. \A c \in DOMAIN completions : completions[c].a = a => Excused(a)'
      BY <1>3, <2>2, <3>2, ResumableIsOpen DEF BlankAt
    <3>4. \A c \in DOMAIN run'.passed : notes'[a].restored
      BY <2>1, <2>3 DEF back
    <3> QED
      BY <2>1, <3>1, <3>3, <3>4 DEF Resume, BlankAt, EndsRight, Locked
  <2>7. BackedInv'
    <3>1. \A c \in DOMAIN run'.passed : ~run'.passed[c].ev
      BY <2>1, RestoringTyped
    <3> QED
      BY <2>1, <3>1 DEF Resume, BackedInv, Locked, Looping, Verifying
  <2>8. Within(tree', a)
    BY <1>1 DEF Resume, SafeInv, CleanInv, Within
  <2> QED
    BY <2>1, <2>3, <2>4, <2>5, <2>6, <2>7, <2>8, Growing, InsideSafe DEF Resume
<1> QED
  BY <1>2, <1>3

-----------------------------------------------------------------------------
(* The notes of the open attempt.                                            *)

LEMMA LoadSnapshotSafe ==
    ASSUME Base, Base', SafeInv, UNCHANGED world, LoadSnapshot PROVE SafeInv'
<1>1. PICK a : a = run.a
  OBVIOUS
<1>2. /\ a \in DOMAIN Attempts /\ a \in DOMAIN notes /\ Attempts[a].status = "running"
      /\ LedgerStays
      /\ run'.at \in {"verify", "execute"} /\ run'.a = a
      /\ run'.attempt = run.attempt /\ run'.passed = run.passed
      /\ NotesBecome(a, notes[a].bases, notes[a].commits, notes[a].rows, notes[a].judged,
             notes[a].restored, run'.off)
      /\ run'.off => spent'.faults > 0
  BY <1>1, LoadSnapshotDoes
<1>3. CleanAt(a) /\ BudgetAt(a) /\ BlankAt(a) /\ run.at \in Working /\ a = Len(Attempts)
  BY <1>1, <1>2, Holds
  DEF LoadSnapshot, SafeInv, CleanInv, BudgetInv, BlankInv, Holding, Working, Seeding
<1>4. /\ DOMAIN notes' = DOMAIN notes
      /\ notes'[a].bases = notes[a].bases /\ notes'[a].commits = notes[a].commits
      /\ notes'[a].rows = notes[a].rows /\ notes'[a].judged = notes[a].judged
      /\ notes'[a].restored = notes[a].restored /\ notes'[a].off = run'.off /\ MarksStay(a)
      /\ \A b \in DOMAIN notes : b # a => notes'[b] = notes[b]
  BY <1>2 DEF NotesBecome
<1>5. CleanAt(a)'
  <2>1. Executes(a)' = Executes(a) /\ Closed(a)' = Closed(a)
    BY <1>2 DEF LedgerStays, Executes, Closed
  <2>2. Executes(a) \subseteq DOMAIN notes[a].bases
    BY <1>2, BasesTyped DEF Executes
  <2> QED
    BY <1>2, <1>3, <1>4, <2>1, <2>2, CleanGrows DEF LoadSnapshot
<1>6. BudgetAt(a)'
  BY <1>1, <1>2, <1>3, <1>4, NumbersTyped, BudgetGrows
<1>7. FaultsGrow
  BY Growing DEF LoadSnapshot
<1>8. BlankAt(a)'
  <2>1. EndsVerified(a)' = EndsVerified(a)
    BY <1>2 DEF LedgerStays, EndsVerified, LastIs
  <2> QED
    BY <1>1, <1>2, <1>3, <1>4, <1>7, <2>1, BlankGrows DEF LoadSnapshot
<1>9. BackedInv'
  <2>1. \A c \in DOMAIN run'.passed : run'.passed[c].ev => IsPrefix(run'.passed[c].at, tree')
    BY <1>2 DEF LoadSnapshot, SafeInv, BackedInv, Locked
  <2> QED
    BY <1>2, <1>4, <2>1 DEF BackedInv, Locked, Verifying
<1>10. Within(tree', a)
  BY <1>3 DEF LoadSnapshot, SafeInv, CleanInv, Within
<1> QED
  BY <1>2, <1>4, <1>5, <1>6, <1>7, <1>8, <1>9, <1>10, InsideSafe DEF LoadSnapshot

LEMMA RunAgentSafe == ASSUME Base, Base', SafeInv, UNCHANGED world, RunAgent PROVE SafeInv'
<1>1. PICK a : a = run.a
  OBVIOUS
<1>2. /\ a \in DOMAIN Attempts /\ a \in DOMAIN notes /\ Attempts[a].status = "running"
      /\ a \in Nat /\ LedgerStays
      /\ tree' \in Revision /\ tree' \in {tree, Append(tree, a)}
      /\ \/ run'.at = "completeExecute"
         \/ Drops("abortPhase", a, "aborted") \/ Drops("abortPhase", a, "failed")
      /\ run'.at = "completeExecute" =>
            /\ run'.a = a /\ run'.off = run.off
            /\ run'.passed = run.passed /\ run'.attempt = run.attempt /\ run'.head = run.head
  BY <1>1, RunAgentDoes
<1>3. PICK commits \in {notes[a].commits, notes[a].commits \cup {tree'}} :
         NotesBecome(a, notes[a].bases, commits, notes[a].rows, notes[a].judged,
             notes[a].restored, notes[a].off)
  BY <1>1, RunAgentDoes
<1>4. /\ run'.at \in {"completeExecute", "abortPhase"} /\ run'.a = a
      /\ run'.at = "completeExecute" \/ run'.passed = NoVerdicts
      /\ run'.passed \in {run.passed, NoVerdicts} /\ (run'.off => run.off)
      /\ run'.at = "abortPhase" => run'.result # "succeeded"
  BY <1>2 DEF Drops
<1>5. /\ CleanAt(a) /\ BudgetAt(a) /\ BlankAt(a)
      /\ run.at = "agent" /\ run.at \in Working /\ run.at \in Looping /\ a = Len(Attempts)
  <2>1. run.at = "agent" /\ run.at \in Holding
    BY DEF RunAgent, Holding, Working, Looping
  <2>2. run.a = Len(Attempts)
    BY <2>1 DEF Base, RunShape
  <2> QED
    BY <1>1, <1>2, <2>1, <2>2 DEF SafeInv, CleanInv, BudgetInv, BlankInv, Working, Looping
<1>6. /\ DOMAIN notes' = DOMAIN notes
      /\ notes'[a].bases = notes[a].bases /\ notes'[a].commits = commits
      /\ notes'[a].rows = notes[a].rows /\ notes'[a].judged = notes[a].judged
      /\ notes'[a].restored = notes[a].restored /\ notes'[a].off = notes[a].off /\ MarksStay(a)
      /\ \A b \in DOMAIN notes : b # a => notes'[b] = notes[b]
  BY <1>3 DEF NotesBecome
<1>7. Within(tree', a)
  <2>1. Within(tree, a) /\ tree \in Seq(Nat)
    BY <1>5 DEF SafeInv, CleanInv, Base, TypeInv, Revision
  <2>2. Within(Append(tree, a), a)
    BY <1>2, <2>1 DEF Within
  <2> QED
    BY <1>2, <2>1, <2>2
<1>8. CleanAt(a)'
  <2>1. Executes(a)' = Executes(a) /\ Closed(a)' = Closed(a) /\ Phases(a)' = Phases(a)
    BY <1>2 DEF LedgerStays, Executes, Closed
  <2>2. Executes(a) # {}
    <3>1. LastIs(a, "execute", "running") /\ Len(Phases(a)) \in DOMAIN Phases(a)
      BY <1>1, <1>2, <1>5, LedgerRows DEF Base, RunShape, LastIs
    <3> QED
      BY <3>1 DEF LastIs, Executes
  <2>3. \A p : IsFirst(a, p)' = IsFirst(a, p)
    BY <2>1 DEF IsFirst
  <2>4. \A commit \in commits : Within(commit, a)
    BY <1>5, <1>7 DEF CleanAt
  <2>5. run'.at = "completeExecute" =>
           /\ Within(run'.head, a)
           /\ IsFirst(a, Len(Phases(a))) => Lacks(run'.head, a)
    BY <1>1, <1>2, <1>5 DEF CleanAt
  <2> QED
    BY <1>4, <1>5, <1>6, <2>1, <2>2, <2>3, <2>4, <2>5 DEF CleanAt, Lacks, Within
<1>9. BudgetAt(a)'
  <2>1. run'.at \in Working => run'.attempt >= run.attempt
    <3>1. run'.at \in Working => run'.at = "completeExecute"
      BY <1>4 DEF Working, Seeding, Looping, Verifying
    <3> QED
      BY <1>2, <3>1, NumbersTyped
  <2>2. run'.at \notin {"judged", "unsaved"} /\ run.a = a /\ run.at \in Working /\ BudgetAt(a)
    BY <1>1, <1>4, <1>5
  <2> QED
    BY <1>2, <1>6, <2>1, <2>2, BudgetGrows
<1>10. FaultsGrow
  BY Growing DEF RunAgent
<1>11. BlankAt(a)'
  <2>1. EndsVerified(a)' = EndsVerified(a)
    BY <1>2 DEF LedgerStays, EndsVerified, LastIs
  <2> QED
    BY <1>1, <1>2, <1>4, <1>5, <1>6, <1>10, <2>1, BlankGrows DEF RunAgent
<1>12. BackedInv'
  <2>1. ASSUME NEW c \in Locked, run.passed[c].ev
        PROVE  IsPrefix(run.passed[c].at, tree')
    <3>1. IsPrefix(run.passed[c].at, tree)
      BY <2>1 DEF SafeInv, BackedInv
    <3>2. run.passed[c].at \in Seq(Nat) /\ tree \in Seq(Nat)
      BY <2>1, VerdictsTyped DEF Verdict, Base, TypeInv, Revision
    <3> QED
      BY <1>2, <3>1, <3>2, PrefixOfLonger
  <2>2. \A c \in DOMAIN run'.passed : run'.passed[c].ev => IsPrefix(run'.passed[c].at, tree')
    BY <1>4, <2>1 DEF Locked, NoVerdicts
  <2>3. notes[a].off = run.off
    BY <1>1, <1>5 DEF SafeInv, BackedInv
  <2> QED
    BY <1>2, <1>4, <1>5, <1>6, <2>2, <2>3, SMTT(15), ZenonT(40) DEF RunAgent, BackedInv, Locked, Looping, Verifying
<1> QED
  BY <1>2, <1>4, <1>5, <1>6, <1>7, <1>8, <1>9, <1>10, <1>11, <1>12, InsideSafe DEF RunAgent

\* In one place, what the steps of a verify pass start from.
LEMMA PassStarts ==
    ASSUME Base, SafeInv, run.at \in Verifying, NEW a, a = run.a
    PROVE  /\ CleanAt(a) /\ BudgetAt(a) /\ BlankAt(a)
           /\ a \in DOMAIN Attempts /\ a \in DOMAIN notes /\ a = Len(Attempts)
           /\ Attempts[a].status = "running"
           /\ run.at \in Working /\ run.at \in Looping /\ ~run.off /\ notes[a].off = run.off
           /\ Within(tree, a)
<1>1. run.at \in Working /\ run.at \in Looping /\ run.at \in Holding
  BY DEF Holding, Working, Looping
<1>2. /\ a \in DOMAIN Attempts /\ a \in DOMAIN notes /\ a = Len(Attempts)
      /\ Attempts[a].status = "running"
  BY <1>1, Holds DEF Verifying
<1>3. ~run.off /\ notes[a].off = run.off
  BY <1>1 DEF SafeInv, BackedInv, Base, RunShape, Verifying
<1> QED
  BY <1>1, <1>2, <1>3 DEF SafeInv, CleanInv, BudgetInv, BlankInv

LEMMA ChecksSafe == ASSUME Base, Base', SafeInv, UNCHANGED world, Checks PROVE SafeInv'
<1>1. PICK a : a = run.a
  OBVIOUS
<1>2. /\ LedgerStays
      /\ \/ \E good \in SUBSET Unlocked, saved \in BOOLEAN : ChecksJudges(a, good, saved)
         \/ ChecksFails(a)
  BY <1>1, ChecksDoes
<1>3. /\ CleanAt(a) /\ BudgetAt(a) /\ BlankAt(a)
      /\ a \in DOMAIN Attempts /\ a \in DOMAIN notes /\ a = Len(Attempts)
      /\ Attempts[a].status = "running"
      /\ run.at \in Working /\ run.at \in Looping /\ ~run.off /\ notes[a].off = run.off
      /\ Within(tree, a)
  BY <1>1, PassStarts DEF Checks, Verifying
<1>4. EndsVerified(a)' = EndsVerified(a) /\ Executes(a)' = Executes(a) /\ Closed(a)' = Closed(a)
  BY <1>2 DEF LedgerStays, EndsVerified, LastIs, Executes, Closed
<1>5. Executes(a) \subseteq DOMAIN notes[a].bases
  BY <1>3, BasesTyped DEF Executes
<1>6. CASE ChecksFails(a) /\ Drops("abortPhase", a, "failed")
  BY <1>1, <1>3, <1>6, Growing, DropLeaves, LeavesSafe DEF Checks, ChecksFails
<1>7. CASE ChecksFails(a) /\ ~Drops("abortPhase", a, "failed")
  <2>1. /\ UNCHANGED <<notes, spent>> /\ run'.at = "infra" /\ ~run'.ok /\ run'.a = a
        /\ run'.off = run.off /\ run'.attempt = run.attempt /\ run'.passed = run.passed
    BY <1>7 DEF ChecksFails
  <2>2. CleanAt(a)'
    BY <1>3, <1>4, <1>5, <2>1, CleanGrows DEF Checks
  <2>3. BudgetAt(a)'
    BY <1>1, <1>3, <2>1, NumbersTyped, BudgetGrows DEF MarksStay
  <2>4. FaultsGrow
    BY <2>1, Growing
  <2>5. BlankAt(a)'
    BY <1>1, <1>3, <1>4, <2>1, <2>4, BlankGrows DEF Checks
  <2>6. BackedInv'
    BY <1>3, <2>1 DEF Checks, SafeInv, BackedInv, Locked
  <2> QED
    BY <1>2, <1>3, <2>1, <2>2, <2>3, <2>4, <2>5, <2>6, InsideSafe DEF Checks
<1>8. ASSUME NEW good \in SUBSET Unlocked, NEW saved \in BOOLEAN, ChecksJudges(a, good, saved)
      PROVE  SafeInv'
  <2> DEFINE rows == IF saved THEN KeptReports(a) \cup NewReports(good) ELSE notes[a].rows
  <2>1. /\ DOMAIN notes' = DOMAIN notes
        /\ notes'[a].bases = notes[a].bases /\ notes'[a].commits = notes[a].commits
        /\ notes'[a].rows = rows /\ notes'[a].judged = notes[a].judged
        /\ notes'[a].restored = notes[a].restored /\ notes'[a].off = notes[a].off /\ MarksStay(a)
        /\ \A b \in DOMAIN notes : b # a => notes'[b] = notes[b]
    BY <1>8 DEF ChecksJudges, NotesBecome
  <2>10. run'.at = "unsaved" => notes'[a].unsaved
    BY <1>8 DEF ChecksJudges
  <2>2. /\ run'.at = (IF saved THEN "judged" ELSE "unsaved") /\ run'.a = a /\ run'.off = run.off
        /\ run'.attempt = run.attempt /\ run'.passed = Lock(good) /\ run'.ok = (good = Unlocked)
    BY <1>8 DEF ChecksJudges
  <2>3. FaultsGrow
    BY <1>8, Growing DEF ChecksJudges
  <2>9. run'.at \in {"judged", "unsaved"}
    BY <2>2
  <2>4. CleanAt(a)'
    BY <1>3, <1>4, <1>5, <2>1, <2>9, CleanGrows DEF Checks
  <2>5. BudgetAt(a)'
    <3>1. ASSUME NEW c \in Unlocked PROVE \E s \in NewReports(good) : s.seq = run.attempt + 1
      <4> DEFINE at == IF c \in good THEN tree ELSE None
                 s == [c |-> c, seq |-> run.attempt + 1, ok |-> c \in good, at |-> at]
      <4>1. s \in NewReports(good)
        BY DEF NewReports
      <4> HIDE DEF at
      <4>2. s.seq = run.attempt + 1
        OBVIOUS
      <4> QED
        BY <4>1, <4>2
    <3>2. \A r \in notes[a].rows : \E s \in rows : s.seq = r.seq
      <4> SUFFICES ASSUME NEW r \in notes[a].rows
                   PROVE  \E s \in rows : s.seq = r.seq
        OBVIOUS
      <4>1. CASE r \in rows
        BY <4>1
      <4>2. CASE r \notin rows
        <5>1. saved /\ r \notin KeptReports(a)
          BY <4>2
        <5>2. r.seq = run.attempt + 1 /\ r.c \in Unlocked
          BY <5>1 DEF KeptReports
        <5> QED
          BY <3>1, <5>1, <5>2
      <4> QED
        BY <4>1, <4>2
    <3>3. run'.at = "judged" /\ ~run'.ok => \E r \in rows : r.seq = run'.attempt + 1
      <4>1. good # Unlocked => \E c \in Unlocked : TRUE
        OBVIOUS
      <4>2. run'.at = "judged" => saved
        BY <2>2
      <4> QED
        BY <2>2, <3>1, <4>1, <4>2
    <3> HIDE DEF rows
    <3>4. run'.at \in Working => run'.attempt >= run.attempt
      BY <2>2, NumbersTyped
    <3> QED
      BY <1>1, <1>3, <2>1, <2>2, <2>10, <3>2, <3>3, <3>4, BudgetGrows
  <2> HIDE DEF rows
  <2>6. /\ DOMAIN Lock(good) = Locked \cup good
        /\ \A c \in Locked : Lock(good)[c] = run.passed[c]
        /\ \A c \in good : Lock(good)[c] = [ev |-> TRUE, at |-> tree]
    BY LockTyped
  <2>7. BlankAt(a)'
    <3>1. \A c \in DOMAIN run'.passed :
             run'.passed[c].ev \/ (c \in Locked /\ run'.passed[c] = run.passed[c])
      BY <2>2, <2>6
    <3>2. run'.at # "finalize"
      BY <2>9
    <3> QED
      BY <1>1, <1>3, <1>4, <2>1, <2>3, <3>1, <3>2, BlankGrows DEF Checks
  <2>8. BackedInv'
    <3>1. IsPrefix(tree, tree)
      BY PrefixOfItself DEF Base, TypeInv, Revision
    <3>2. \A c \in DOMAIN run'.passed : run'.passed[c].ev => IsPrefix(run'.passed[c].at, tree')
      <4>1. \A c \in Locked : run.passed[c].ev => IsPrefix(run.passed[c].at, tree)
        BY DEF SafeInv, BackedInv
      <4>2. tree' = tree
        BY DEF Checks
      <4>3. ASSUME NEW c \in Locked \cup good, Lock(good)[c].ev
            PROVE  IsPrefix(Lock(good)[c].at, tree)
        <5>1. CASE c \in Locked
          BY <2>6, <4>1, <4>3, <5>1
        <5>2. CASE c \in good
          <6>1. Lock(good)[c].at = tree
            BY <2>6, <5>2
          <6> QED
            BY <3>1, <6>1
        <5> QED
          BY <4>3, <5>1, <5>2
      <4> QED
        BY <2>2, <2>6, <4>2, <4>3
    <3>3. run'.ok => Criteria \subseteq DOMAIN run'.passed
      BY <2>2, <2>6 DEF Unlocked
    <3>4. run'.a = a /\ run'.off = run.off
      BY <1>3, <1>8 DEF Checks, ChecksJudges
    <3>5. ~run'.off /\ notes'[run'.a].off = run'.off
      BY <1>3, <2>1, <3>4
    <3> QED
      BY <2>9, <3>2, <3>3, <3>4, <3>5 DEF BackedInv, Locked
  <2> QED
    BY <1>2, <1>3, <2>1, <2>2, <2>3, <2>4, <2>5, <2>7, <2>8, InsideSafe DEF Checks
<1> QED
  BY <1>2, <1>6, <1>7, <1>8

-----------------------------------------------------------------------------
(* Opening an attempt.                                                       *)

LEMMA StartCycleSafe == ASSUME Base, Base', SafeInv, UNCHANGED world, StartCycle PROVE SafeInv'
<1>1. PICK a : a = Len(Attempts) + 1
  OBVIOUS
<1>2. CASE Fails(L!HasRunningCycle(Task)) /\ Go("failTask") /\ UNCHANGED <<cycles, notes>>
  <2>1. Goes("failTask")
    BY <1>2, Going DEF Base, TypeInv, Places
  <2> QED
    BY <1>2, <2>1, FailingGrows, GivesUp, LeavesSafe DEF StartCycle
<1>3. ASSUME L!StartCycle(Task), notes' = Append(notes, NewNotes(DOMAIN run.passed # {})),
             run' = [run EXCEPT !.at = IF run.seed THEN "seedStart" ELSE "snapshot",
                                !.a = Len(cycles'[Task])],
             UNCHANGED spent
      PROVE  SafeInv'
  <2>1. /\ CycleOpens /\ a \in Nat
        /\ run'.at \in {"seedStart", "snapshot"} /\ run'.a = a
        /\ run'.off = run.off /\ run'.passed = run.passed /\ run'.attempt = run.attempt
        /\ a = Len(notes) + 1 /\ DOMAIN notes' = DOMAIN notes \cup {a}
        /\ \A b \in DOMAIN notes : notes'[b] = notes[b]
        /\ notes'[a] = NewNotes(DOMAIN run.passed # {})
    BY <1>1, <1>3, StartCycleDoes
  <2>2. /\ DOMAIN notes = DOMAIN Attempts /\ DOMAIN Attempts = 1..Len(Attempts)
        /\ Len(Attempts) \in Nat /\ tree \in Seq(Nat)
    BY LedgerRows DEF StartCycle, Base, TypeInv, NotesShape, RunShape, Revision
  <2>3. Within(tree, Len(Attempts))
    BY DEF SafeInv, CleanInv
  <2>4. Lacks(tree', a) /\ Within(tree', Len(Attempts'))
    <3>1. \A i \in DOMAIN tree : tree[i] \in Nat /\ tree[i] <= Len(Attempts)
      BY <2>2, <2>3 DEF Within
    <3>2. tree' = tree /\ Len(Attempts') = Len(Attempts) + 1
      BY <2>1 DEF StartCycle, CycleOpens
    <3>3. \A i \in DOMAIN tree : tree[i] # a /\ tree[i] <= Len(Attempts')
      BY <1>1, <2>2, <3>1, <3>2
    <3> QED
      BY <3>2, <3>3 DEF Lacks, Within
  <2>5. FaultsGrow
    BY <1>3, Growing
  <2>6. ASSUME NEW b \in DOMAIN notes
        PROVE  CleanAt(b)' /\ BudgetAt(b)' /\ BlankAt(b)'
    <3>1. Untouched(b) /\ b # a
      BY <1>1, <2>1, <2>2 DEF CycleOpens, Untouched
    <3> QED
      BY <2>1, <2>5, <3>1, OthersSafe DEF StartCycle
  <2>7. /\ notes'[a].bases = <<>> /\ notes'[a].commits = {} /\ notes'[a].judged = 0
        /\ notes'[a].restored = (DOMAIN run.passed # {})
    BY <2>1 DEF NewNotes
  <2>8. Phases(a)' = <<>> /\ Attempts'[a].status = "running"
    BY <1>1, <2>1 DEF CycleOpens, Phases
  <2>9. CleanAt(a)'
    <3>1. Executes(a)' = {}
      BY <2>8 DEF Executes
    <3> QED
      BY <2>1, <2>4, <2>7, <3>1 DEF CleanAt, Lacks, Within
  <2>10. BudgetAt(a)'
    <3>1. AtMost(a, world.retries)' /\ AtMost(a, world.retries + 1)' /\ AtMost(a, run.attempt)'
      BY <2>7, NumbersTyped DEF AtMost
    <3>2. WithinBudget(a)' /\ run'.at \notin {"judged", "unsaved"}
      BY <2>1, <2>7, <3>1 DEF WithinBudget, Covered
    <3> QED
      BY <3>1, <3>2 DEF BudgetAt
  <2>11. BlankAt(a)'
    <3>1. ~EndsVerified(a)'
      BY <2>8 DEF EndsVerified, LastIs
    <3>2. \A c \in DOMAIN completions' : completions'[c].a # a
      BY <1>1, <2>2 DEF StartCycle, SafeInv, BlankInv
    <3> QED
      BY <2>1, <2>7, <2>8, <3>1, <3>2 DEF BlankAt, EndsRight, Locked
  <2>12. CleanInv' /\ BudgetInv' /\ BlankInv'
    <3>1. \A b \in DOMAIN notes' : CleanAt(b)' /\ BudgetAt(b)' /\ BlankAt(b)'
      BY <2>1, <2>6, <2>9, <2>10, <2>11
    <3>2. StartOverIsClean'
      BY <2>1 DEF StartOverIsClean
    <3>3. run'.off => spent'.faults > 0
      BY <1>3, <2>1 DEF SafeInv, BlankInv
    <3>4. \A c \in DOMAIN completions' : completions'[c].a \in DOMAIN notes'
      BY <2>1 DEF StartCycle, SafeInv, BlankInv
    <3> QED
      BY <2>4, <3>1, <3>2, <3>3, <3>4 DEF CleanInv, BudgetInv, BlankInv
  <2>13. BackedInv'
    BY <2>1, <2>2 DEF StartCycle, SafeInv, BackedInv, Locked, Looping, Verifying
  <2> QED
    BY <2>12, <2>13 DEF SafeInv
<1> QED
  BY <1>2, <1>3 DEF StartCycle

\* An attempt with a phase that runs, or was cut off, has not been verified.
LEMMA OpenedEnds ==
    ASSUME NEW a, NEW kind, PhaseOpens(a, kind), Len(Phases(a)) \in Nat
    PROVE  ~EndsVerified(a)'
<1>1. /\ Len(Phases(a)') = Len(Phases(a)) + 1
      /\ Phases(a)'[Len(Phases(a)) + 1].status = "running"
  BY DEF PhaseOpens
<1> QED
  BY <1>1 DEF EndsVerified, LastIs

LEMMA OpenedExecutes ==
    ASSUME NEW a, NEW kind, PhaseOpens(a, kind), Len(Phases(a)) \in Nat,
           DOMAIN Phases(a) = 1..Len(Phases(a))
    PROVE  Executes(a)' = Executes(a) \cup (IF kind = "execute" THEN {Len(Phases(a)) + 1} ELSE {})
<1>1. DOMAIN Phases(a)' = DOMAIN Phases(a) \cup {Len(Phases(a)) + 1}
  BY DEF PhaseOpens
<1>2. \A p \in DOMAIN Phases(a) : Phases(a)'[p] = Phases(a)[p]
  BY DEF PhaseOpens
<1>3. Phases(a)'[Len(Phases(a)) + 1].kind = kind
  BY DEF PhaseOpens
<1> QED
  BY <1>1, <1>2, <1>3 DEF Executes

LEMMA ClosedExecutes ==
    ASSUME NEW a, NEW status, PhaseCloses(a, status)
    PROVE  /\ Executes(a)' = Executes(a) /\ Closed(a)' = Closed(a) /\ ~Closed(a)
           /\ Len(Phases(a)') = Len(Phases(a))
           /\ EndsVerified(a)' =>
                 status = "succeeded" /\ LastRuns(a) /\ Phases(a)[Len(Phases(a))].kind = "verify"
<1>1. DOMAIN Phases(a)' = DOMAIN Phases(a)
      /\ \A p \in DOMAIN Phases(a) : Phases(a)'[p].kind = Phases(a)[p].kind
  BY DEF PhaseCloses
<1>2. Executes(a)' = Executes(a)
  BY <1>1 DEF Executes
<1>3. /\ Closed(a)' = Closed(a) /\ ~Closed(a) /\ LastRuns(a) /\ Len(Phases(a)') = Len(Phases(a))
      /\ Phases(a)'[Len(Phases(a))] = [kind |-> Phases(a)[Len(Phases(a))].kind, status |-> status]
  BY DEF PhaseCloses, Closed
<1>4. ASSUME EndsVerified(a)' 
      PROVE  status = "succeeded" /\ LastRuns(a) /\ Phases(a)[Len(Phases(a))].kind = "verify"
  BY <1>3, <1>4 DEF EndsVerified, LastIs
<1> QED
  BY <1>2, <1>3, <1>4

LEMMA OpeningSafe ==
    ASSUME Base, Base', SafeInv, UNCHANGED <<world, row, completions, tree, spent>>,
           NEW kind \in {"execute", "verify"}, run.at \in Working, StartPhase(kind),
           run'.a = run.a, run'.off = run.off, run'.passed = run.passed,
           run'.attempt = run.attempt,
           \/ run'.at = "seedComplete"
           \/ run'.at = "agent" /\ run'.head = tree /\ kind = "execute" /\ run.at \in Looping
           \/ run'.at = "checks" /\ ~run.off /\ run.at \in Looping
    PROVE  SafeInv'
<1>1. PICK a : a = run.a
  OBVIOUS
<1>2. /\ a \in DOMAIN Attempts /\ a \in DOMAIN notes /\ Attempts[a].status = "running"
      /\ a = Len(Attempts)
  BY <1>1, Holds DEF Base, RunShape, Holding, Working, Seeding, Looping, Verifying
<1>3. CleanAt(a) /\ BudgetAt(a) /\ BlankAt(a) /\ Within(tree, a)
  BY <1>2 DEF SafeInv, CleanInv, BudgetInv, BlankInv
<1>4. /\ PhaseOpens(a, kind)
      /\ NotesBecome(a, Append(notes[a].bases, None), notes[a].commits, notes[a].rows,
             notes[a].judged, notes[a].restored, notes[a].off)
  BY <1>1, <1>2, StartPhaseDoes
<1>5. /\ DOMAIN notes' = DOMAIN notes
      /\ notes'[a].bases = Append(notes[a].bases, None) /\ notes'[a].commits = notes[a].commits
      /\ notes'[a].rows = notes[a].rows /\ notes'[a].judged = notes[a].judged
      /\ notes'[a].restored = notes[a].restored /\ notes'[a].off = notes[a].off /\ MarksStay(a)
      /\ \A b \in DOMAIN notes : b # a => notes'[b] = notes[b]
  BY <1>4 DEF NotesBecome
<1>6. /\ Len(Phases(a)) \in Nat /\ DOMAIN Phases(a) = 1..Len(Phases(a))
      /\ DOMAIN notes[a].bases = DOMAIN Phases(a) /\ notes[a].bases \in Seq(Revision)
      /\ Len(notes[a].bases) = Len(Phases(a))
  BY <1>2, LedgerRows, BasesTyped DEF Base, NotesShape, NotesRow
<1>7. Executes(a)' = Executes(a) \cup (IF kind = "execute" THEN {Len(Phases(a)) + 1} ELSE {})
      /\ ~EndsVerified(a)' /\ OtherRowsStay(a) /\ Len(Phases(a)') = Len(Phases(a)) + 1
  BY <1>4, <1>6, OpenedExecutes, OpenedEnds DEF PhaseOpens
<1>8. ~Closed(a)
  BY <1>2 DEF Closed
<1>9. CleanAt(a)'
  <2>1. /\ DOMAIN notes'[a].bases = DOMAIN notes[a].bases \cup {Len(Phases(a)) + 1}
        /\ notes'[a].bases[Len(Phases(a)) + 1] = None
        /\ \A p \in DOMAIN notes[a].bases : notes'[a].bases[p] = notes[a].bases[p]
    BY <1>5, <1>6
  <2>2. run'.at \in {"agent", "completeExecute"} =>
           /\ Within(run'.head, a)
           /\ IsFirst(a, Len(Phases(a)))' => Lacks(run'.head, a)
    <3> SUFFICES ASSUME run'.at = "agent"
                 PROVE  Within(run'.head, a) /\ (IsFirst(a, Len(Phases(a)))' => Lacks(run'.head, a))
      OBVIOUS
    <3>1. run'.head = tree /\ kind = "execute"
      OBVIOUS
    <3>2. ASSUME IsFirst(a, Len(Phases(a)))' PROVE Executes(a) = {}
      <4>1. \A q \in Executes(a) : q \in 1..Len(Phases(a)) /\ Len(Phases(a)) + 1 <= q
        BY <1>6, <1>7, <3>2 DEF IsFirst, Executes
      <4> QED
        BY <1>6, <4>1
    <3> QED
      BY <1>3, <1>8, <3>1, <3>2 DEF CleanAt
  <2>3. \A p \in Executes(a)' : p \in Executes(a) \/ notes'[a].bases[p] = None
    BY <1>7, <2>1
  <2>4. Executes(a) \subseteq Executes(a)'
    BY <1>7
  <2>5. \A p \in DOMAIN notes'[a].bases :
           \/ notes'[a].bases[p] = None
           \/ p \in DOMAIN notes[a].bases /\ notes'[a].bases[p] = notes[a].bases[p]
    BY <2>1
  <2> QED
    BY <1>2, <1>3, <1>5, <1>8, <2>2, <2>3, <2>4, <2>5, CleanGrows
<1>10. BudgetAt(a)'
  BY <1>1, <1>2, <1>3, <1>5, NumbersTyped, BudgetGrows
<1>11. FaultsGrow
  BY Growing
<1>12. BlankAt(a)'
  BY <1>1, <1>2, <1>3, <1>5, <1>7, <1>11, BlankGrows
<1>13. BackedInv'
  <2>1. run'.at \notin {"judged", "unsaved", "infra", "finalize", "settle", "close"}
        /\ (run'.at \in Looping => run.at \in Looping)
    BY DEF Looping, Verifying
  <2> QED
    BY <1>1, <1>2, <1>5, <2>1, BackedGrows DEF SafeInv
<1> QED
  BY <1>1, <1>2, <1>3, <1>5, <1>7, <1>9, <1>10, <1>11, <1>12, <1>13, InsideSafe

LEMMA SeedStartSafe == ASSUME Base, Base', SafeInv, UNCHANGED world, SeedStart PROVE SafeInv'
<1>1. run.at = "seedStart" /\ run.at \in Working /\ {"seedComplete", "failTask"} \subseteq Places
  BY DEF SeedStart, Working, Seeding, Places, Holding
<1>2. CASE StartPhase("execute") /\ Go("seedComplete") /\ UNCHANGED spent
  <2>1. Goes("seedComplete")
    BY <1>1, <1>2, Going DEF Base, TypeInv
  <2> QED
    BY <1>1, <1>2, <2>1, OpeningSafe DEF SeedStart, Goes
<1>3. CASE Fault /\ Go("failTask") /\ UNCHANGED <<cycles, notes>>
  <2>1. Goes("failTask")
    BY <1>1, <1>3, Going DEF Base, TypeInv
  <2> QED
    BY <1>3, <2>1, Growing, GivesUp, LeavesSafe DEF SeedStart
<1> QED
  BY <1>2, <1>3 DEF SeedStart

LEMMA StartExecuteSafe ==
    ASSUME Base, Base', SafeInv, UNCHANGED world, StartExecute PROVE SafeInv'
<1>1. run.at = "execute" /\ run.at \in Working /\ run.at \in Looping /\ run \in RunRow
  BY DEF StartExecute, Working, Looping, Base, TypeInv
<1>2. CASE StartPhase("execute") /\ run' = [run EXCEPT !.at = "agent", !.head = tree] /\ UNCHANGED spent
  <2>1. /\ run'.at = "agent" /\ run'.head = tree /\ run'.a = run.a /\ run'.off = run.off
        /\ run'.passed = run.passed /\ run'.attempt = run.attempt
    BY <1>1, <1>2 DEF RunRow
  <2> QED
    BY <1>1, <1>2, <2>1, OpeningSafe DEF StartExecute
<1>3. CASE /\ Fails(Refused("execute")) /\ run' = Aborting("abortCycle", "failed")
           /\ UNCHANGED <<cycles, notes>>
  <2>1. Drops("abortCycle", run.a, "failed") /\ FaultsGrow
    BY <1>1, <1>3, Stopping, FailingGrows
  <2> QED
    BY <1>1, <1>3, <2>1, DropLeaves, LeavesSafe DEF StartExecute
<1> QED
  BY <1>2, <1>3 DEF StartExecute

\* The pass is over and the run tries again, or not.
LEMMA AgainLeaves ==
    ASSUME Base, UNCHANGED <<cycles, notes, row, completions, tree, world>>, FaultsGrow,
           run.at \in Looping, NEW judged \in BOOLEAN, run' \in AfterFailedVerify(judged)
    PROVE  Leaves
<1>1. run.at \in Working /\ run.at \notin Seeding
  BY DEF Working, Looping, Verifying, Seeding
<1>2. CASE Drops("close", run.a, "failed")
  BY <1>1, <1>2, DropLeaves
<1>3. CASE ~Drops("close", run.a, "failed")
  <2>1. /\ run'.at \in {"execute", "verify"} /\ run'.a = run.a /\ run'.off = run.off
        /\ run'.passed = run.passed /\ run'.attempt = run.attempt + 1
    BY <1>3, AfterFailedVerifyDoes
  <2>2. LedgerStays /\ run.attempt \in Nat
    BY LedgerStutters DEF Base, TypeInv, RunRow
  <2> QED
    BY <1>1, <2>1, <2>2 DEF Leaves, Locked
<1> QED
  BY <1>2, <1>3

LEMMA StartVerifySafe ==
    ASSUME Base, Base', SafeInv, UNCHANGED world, StartVerify PROVE SafeInv'
<1>1. run.at = "verify" /\ ~run.off /\ run.at \in Working /\ run.at \in Looping
      /\ run \in RunRow /\ "checks" \in Places
  BY DEF StartVerify, Working, Looping, Base, TypeInv, Places, Holding, Verifying
<1>2. CASE StartPhase("verify") /\ Go("checks") /\ UNCHANGED spent
  <2>1. Goes("checks")
    BY <1>1, <1>2, Going
  <2> QED
    BY <1>1, <1>2, <2>1, OpeningSafe DEF StartVerify, Goes
<1>3. CASE Fails(Refused("verify")) /\ run' \in AfterFailedVerify(FALSE) /\ UNCHANGED <<cycles, notes>>
  <2>1. FaultsGrow
    BY <1>3, FailingGrows
  <2> QED
    BY <1>1, <1>3, <2>1, AgainLeaves, LeavesSafe DEF StartVerify
<1> QED
  BY <1>2, <1>3 DEF StartVerify

-----------------------------------------------------------------------------
(* Recording the base of an execute phase.                                   *)

LEMMA RecordingSafe ==
    ASSUME Base, Base', SafeInv, UNCHANGED <<world, row, completions, tree, spent>>,
           NEW a, a = run.a, run.at \in {"seedComplete", "completeExecute"},
           NEW status, PhaseCloses(a, status), NEW base, Records(a, base), Within(base, a),
           IsFirst(a, Len(Phases(a))) => Lacks(base, a),
           run'.a = a, run'.passed \in {run.passed, NoVerdicts}, run'.off => run.off,
           \/ run'.at = "mirror" /\ run'.attempt = run.attempt
           \/ /\ run'.at = "verify" /\ run'.attempt = run.attempt /\ run'.off = run.off
              /\ run.at = "completeExecute"
           \/ run'.at = "close" /\ run'.result = "failed"
    PROVE  SafeInv'
<1>1. /\ a \in DOMAIN Attempts /\ a \in DOMAIN notes /\ Attempts[a].status = "running"
      /\ a = Len(Attempts) /\ LastIs(a, "execute", "running")
      /\ run.at \in Working
  BY Holds DEF Base, RunShape, Holding, Working, Seeding, Looping
<1>2. CleanAt(a) /\ BudgetAt(a) /\ BlankAt(a) /\ Within(tree, a)
  BY <1>1 DEF SafeInv, CleanInv, BudgetInv, BlankInv
<1>3. /\ Executes(a)' = Executes(a) /\ Closed(a)' = Closed(a) /\ OtherRowsStay(a)
      /\ ~EndsVerified(a)' /\ Len(Phases(a)) \in DOMAIN Phases(a)
  <2>1. Phases(a)[Len(Phases(a))].kind # "verify" /\ Len(Phases(a)) \in DOMAIN Phases(a)
    BY <1>1, LedgerRows DEF LastIs, Base
  <2> QED
    BY <2>1, ClosedExecutes DEF PhaseCloses
<1>4. PICK bases :
        /\ NotesBecome(a, bases, notes[a].commits, notes[a].rows, notes[a].judged,
               notes[a].restored, notes[a].off)
        /\ Len(bases) = Len(notes[a].bases) /\ DOMAIN bases = DOMAIN notes[a].bases
        /\ bases[Len(Phases(a))] = base
        /\ \A p \in DOMAIN Phases(a) : p # Len(Phases(a)) => bases[p] = notes[a].bases[p]
  BY DEF Records
<1>5. /\ DOMAIN notes' = DOMAIN notes
      /\ notes'[a].bases = bases /\ notes'[a].commits = notes[a].commits
      /\ notes'[a].rows = notes[a].rows /\ notes'[a].judged = notes[a].judged
      /\ notes'[a].restored = notes[a].restored /\ notes'[a].off = notes[a].off /\ MarksStay(a)
      /\ \A b \in DOMAIN notes : b # a => notes'[b] = notes[b]
  BY <1>4 DEF NotesBecome
<1>6. CleanAt(a)'
  <2>1. DOMAIN bases = DOMAIN Phases(a) /\ Executes(a) \subseteq DOMAIN Phases(a)
    BY <1>1, <1>4, BasesTyped DEF Executes
  <2>2. ASSUME NEW p \in DOMAIN bases
        PROVE  Within(bases[p], a) /\ (IsFirst(a, p) => Lacks(bases[p], a))
    <3>1. CASE p = Len(Phases(a))
      BY <1>4, <3>1
    <3>2. CASE p # Len(Phases(a))
      <4>1. bases[p] = notes[a].bases[p] /\ p \in DOMAIN notes[a].bases
        BY <1>4, <2>1, <3>2
      <4>2. IsFirst(a, p) => p \in Executes(a)
        BY DEF IsFirst
      <4> QED
        BY <1>2, <4>1, <4>2 DEF CleanAt
    <3> QED
      BY <3>1, <3>2
  <2>3. \A p : IsFirst(a, p)' = IsFirst(a, p)
    BY <1>3 DEF IsFirst
  <2>4. run'.at \notin {"agent", "completeExecute"}
    OBVIOUS
  <2> QED
    BY <1>2, <1>3, <1>5, <2>1, <2>2, <2>3, <2>4 DEF CleanAt, Lacks, Within
<1>7. BudgetAt(a)'
  <2>1. run'.at \in Working => run'.attempt = run.attempt
    BY DEF Working, Seeding, Looping, Verifying
  <2> QED
    BY <1>1, <1>2, <1>5, <2>1, NumbersTyped, BudgetGrows
<1>8. FaultsGrow
  BY Growing
<1>9. BlankAt(a)'
  <2>1. UNCHANGED completions /\ run'.at # "finalize" /\ run.at \in Working \cup {"abortPhase", "abortCycle"}
    BY <1>1
  <2> QED
    BY <1>1, <1>2, <1>3, <1>5, <1>8, <2>1, BlankGrows
<1>10. BackedInv'
  <2>1. /\ run'.at \notin {"judged", "unsaved", "infra", "finalize", "settle", "checks"}
        /\ run'.at \in Looping => run'.at = "verify"
        /\ "completeExecute" \in Looping
    BY DEF Looping, Verifying
  <2> QED
    BY <1>1, <1>5, <2>1, BackedGrows DEF SafeInv
<1> QED
  BY <1>1, <1>2, <1>3, <1>5, <1>6, <1>7, <1>8, <1>9, <1>10, InsideSafe

LEMMA SeedCompleteSafe ==
    ASSUME Base, Base', SafeInv, UNCHANGED world, SeedComplete PROVE SafeInv'
<1>1. PICK a, parent : a = run.a /\ parent = run.retry.parent
  OBVIOUS
<1>2. run.at = "seedComplete" /\ {"mirror", "failTask"} \subseteq Places
  BY DEF SeedComplete, Places, Holding, Working, Seeding
<1>3. CASE Fault /\ Go("failTask") /\ UNCHANGED <<cycles, notes>>
  <2>1. Goes("failTask")
    BY <1>2, <1>3, Going DEF Base, TypeInv
  <2> QED
    BY <1>3, <2>1, Growing, GivesUp, LeavesSafe DEF SeedComplete
<1>4. ASSUME L!CompletePhase(Task, run.a, 1, "succeeded"),
             notes' = [notes EXCEPT ![run.a].bases[1] = notes[parent].bases[Max(Executes(parent))]],
             Go("mirror"), UNCHANGED spent
      PROVE  SafeInv'
  <2> DEFINE base == notes[parent].bases[Max(Executes(parent))]
  <2>1. /\ a \in DOMAIN Attempts /\ parent \in DOMAIN Attempts /\ parent < a
        /\ Max(Executes(parent)) \in DOMAIN Phases(parent)
        /\ PhaseCloses(a, "succeeded") /\ Records(a, base)
    BY <1>1, <1>2, <1>4, SeedCompleteDoes
  <2>2. /\ Max(Executes(parent)) \in DOMAIN notes[parent].bases /\ base \in Seq(Nat)
        /\ CleanAt(parent)
    BY <2>1, BasesTyped DEF SafeInv, CleanInv, Revision
  <2>3. Within(base, parent)
    BY <2>2 DEF CleanAt
  <2> HIDE DEF base
  <2>4. Within(base, a) /\ Lacks(base, a)
    <3>1. a \in Nat /\ parent \in Nat
      BY <2>1, LedgerRows DEF Base
    <3>2. \A i \in DOMAIN base : base[i] \in Nat /\ base[i] <= parent
      BY <2>2, <2>3 DEF Within
    <3>3. \A i \in DOMAIN base : base[i] <= a /\ base[i] # a
      BY <2>1, <3>1, <3>2
    <3> QED
      BY <3>3 DEF Within, Lacks
  <2>5. Goes("mirror")
    BY <1>2, <1>4, Going DEF Base, TypeInv
  <2> QED
    BY <1>1, <1>2, <1>4, <2>1, <2>4, <2>5, RecordingSafe DEF SeedComplete, Goes
<1> QED
  BY <1>1, <1>3, <1>4 DEF SeedComplete

LEMMA CompleteExecuteSafe ==
    ASSUME Base, Base', SafeInv, UNCHANGED world, CompleteExecute PROVE SafeInv'
<1>1. PICK a : a = run.a
  OBVIOUS
<1>2. /\ run.at = "completeExecute" /\ run.at \in Working
      /\ a \in DOMAIN Attempts /\ a \in DOMAIN notes
      /\ \/ /\ Fault /\ UNCHANGED <<cycles, notes>>
            /\ Drops("abortCycle", a, "failed")
         \/ /\ UNCHANGED spent /\ Records(a, CycleBase)
            /\ \/ PhaseCloses(a, "failed") /\ Drops("close", a, "failed")
               \/ /\ PhaseCloses(a, "succeeded")
                  /\ run' \in RunRow /\ run'.at = "verify" /\ run'.a = a
                  /\ run'.off = run.off
                  /\ run'.passed = run.passed /\ run'.attempt = run.attempt
  BY <1>1, CompleteExecuteDoes DEF CompleteExecute, Working, Looping
<1>3. CASE Fault /\ UNCHANGED <<cycles, notes>> /\ Drops("abortCycle", a, "failed")
  BY <1>1, <1>2, <1>3, Growing, DropLeaves, LeavesSafe DEF CompleteExecute
<1>4. PICK base : base = CycleBase
  OBVIOUS
<1>5. Within(base, a) /\ (IsFirst(a, Len(Phases(a))) => Lacks(base, a))
  <2>1. CleanAt(a)
    BY <1>2 DEF SafeInv, CleanInv
  <2>2. CASE base \in FirstBase(a)
    <3>1. PICK p \in Executes(a) : IsFirst(a, p) /\ base = notes[a].bases[p]
      BY <2>2 DEF FirstBase, IsFirst
    <3>2. p \in DOMAIN notes[a].bases
      BY <1>2, <3>1, BasesTyped DEF Executes
    <3> QED
      BY <2>1, <3>1, <3>2 DEF CleanAt
  <2>3. CASE base = run.head
    BY <1>1, <1>2, <2>1, <2>3 DEF CleanAt
  <2> QED
    BY <1>1, <1>2, <1>4, <2>2, <2>3, CycleBaseTyped
<1>6. CASE UNCHANGED spent /\ Records(a, CycleBase) /\ PhaseCloses(a, "failed") /\ Drops("close", a, "failed")
  BY <1>1, <1>2, <1>4, <1>5, <1>6, RecordingSafe DEF CompleteExecute, Drops
<1>7. CASE /\ UNCHANGED spent /\ Records(a, CycleBase) /\ PhaseCloses(a, "succeeded")
           /\ run' \in RunRow /\ run'.at = "verify" /\ run'.a = a /\ run'.off = run.off
           /\ run'.passed = run.passed /\ run'.attempt = run.attempt
  BY <1>1, <1>2, <1>4, <1>5, <1>7, RecordingSafe DEF CompleteExecute
<1> QED
  BY <1>2, <1>3, <1>6, <1>7

-----------------------------------------------------------------------------
(* The end of a verify pass.                                                 *)

\* A verify pass that was finished leaves nothing to come back to.
LEMMA FinishedVerify ==
    ASSUME NEW a, NEW status \in {"succeeded", "failed"}, PhaseCloses(a, status),
           LastIs(a, "verify", "running"), Len(Phases(a)) \in Nat
    PROVE  ~MayGoOn(a)' /\ (EndsVerified(a)' <=> status = "succeeded")
<1>1. /\ Len(Phases(a)') = Len(Phases(a)) /\ Phases(a) # <<>>
      /\ Phases(a)'[Len(Phases(a))] = [kind |-> "verify", status |-> status]
      /\ status # "running"
  <2>1. Phases(a)[Len(Phases(a))].kind = "verify"
    BY DEF LastIs
  <2>2. Len(Phases(a)') = Len(Phases(a)) /\ Phases(a) # <<>>
        /\ Phases(a)'[Len(Phases(a))] = [kind |-> Phases(a)[Len(Phases(a))].kind, status |-> status]
    BY DEF PhaseCloses, LastIs
  <2> QED
    BY <2>1, <2>2
<1> QED
  BY <1>1 DEF MayGoOn, Resumable, LastRuns, EndsVerified, LastIs, Last

LEMMA CompleteVerifySafe ==
    ASSUME Base, Base', SafeInv, UNCHANGED world, CompleteVerify PROVE SafeInv'
<1>1. PICK a : a = run.a
  OBVIOUS
<1>2. run.at \in Verifying /\ run.at \in {"judged", "unsaved", "infra"}
      /\ UNCHANGED <<row, completions, tree>>
  BY DEF CompleteVerify, Verifying
<1>3. /\ CleanAt(a) /\ BudgetAt(a) /\ BlankAt(a)
      /\ a \in DOMAIN Attempts /\ a \in DOMAIN notes /\ a = Len(Attempts)
      /\ Attempts[a].status = "running"
      /\ run.at \in Working /\ run.at \in Looping /\ ~run.off /\ notes[a].off = run.off
      /\ Within(tree, a)
  BY <1>1, <1>2, PassStarts
<1>4. LastIs(a, "verify", "running") /\ Len(Phases(a)) \in Nat
  BY <1>1, <1>2, <1>3, LedgerRows DEF Base, RunShape
<1>5. PICK good \in BOOLEAN : (good => run.ok) /\ CompleteVerifyEffect(a, good)
  BY <1>1, CompleteVerifyDoes
<1>6. PICK judged \in Nat :
        /\ judged = notes[a].judged \/ (run.at # "infra" /\ judged = notes[a].judged + 1)
        /\ DOMAIN notes' = DOMAIN notes
        /\ notes'[a].bases = notes[a].bases /\ notes'[a].commits = notes[a].commits
        /\ notes'[a].rows = notes[a].rows /\ notes'[a].judged = judged
        /\ notes'[a].restored = notes[a].restored /\ notes'[a].off = notes[a].off /\ MarksStay(a)
        /\ \A b \in DOMAIN notes : b # a => notes'[b] = notes[b]
        /\ \/ judged = notes[a].judged
           \/ PhaseCloses(a, IF good THEN "succeeded" ELSE "failed")
  <2>1. notes[a].judged \in Nat
    BY <1>3, NumbersTyped
  <2>2. CASE UNCHANGED <<cycles, notes>>
    BY <2>1, <2>2 DEF MarksStay
  <2>3. CASE /\ PhaseCloses(a, IF good THEN "succeeded" ELSE "failed")
             /\ Counts(a, IF run.at # "infra" THEN notes[a].judged + 1 ELSE notes[a].judged)
    <3> DEFINE judged == IF run.at # "infra" THEN notes[a].judged + 1 ELSE notes[a].judged
    <3>1. judged \in Nat
          /\ (judged = notes[a].judged \/ (run.at # "infra" /\ judged = notes[a].judged + 1))
      BY <2>1
    <3> HIDE DEF judged
    <3>2. NotesBecome(a, notes[a].bases, notes[a].commits, notes[a].rows, judged,
              notes[a].restored, notes[a].off)
      BY <2>3 DEF Counts, judged
    <3> QED
      BY <2>3, <3>1, <3>2 DEF NotesBecome
  <2> QED
    BY <1>5, <2>2, <2>3 DEF CompleteVerifyEffect
<1>7. /\ FaultsGrow
      /\ \/ LedgerStays /\ spent'.faults > 0
         \/ PhaseCloses(a, IF good THEN "succeeded" ELSE "failed")
  <2>1. Fault /\ UNCHANGED cycles => LedgerStays /\ spent'.faults > 0
    BY LedgerStutters, FaultIsSpent DEF Base
  <2> QED
    BY <1>5, <2>1, Growing DEF CompleteVerifyEffect
<1>8. Executes(a)' = Executes(a) /\ Closed(a)' = Closed(a)
      /\ (LedgerStays \/ OtherRowsStay(a)) /\ Attempts'[a].status = "running"
  <2>1. CASE LedgerStays
    BY <1>3, <2>1 DEF LedgerStays, Executes, Closed
  <2>2. CASE PhaseCloses(a, IF good THEN "succeeded" ELSE "failed")
    BY <2>2, ClosedExecutes DEF PhaseCloses
  <2> QED
    BY <1>7, <2>1, <2>2
<1>9. /\ run'.a = a /\ run'.passed \in {run.passed, NoVerdicts} /\ (run'.off => run.off)
      /\ \/ /\ good /\ run'.at = "finalize" /\ run'.off = run.off
            /\ run'.passed = run.passed /\ run'.left = Locked
         \/ ~good /\ run'.at = "close" /\ run'.result = "failed"
         \/ /\ ~good /\ ~run.ok /\ run'.at \in {"execute", "verify"} /\ run'.off = run.off
            /\ run'.attempt = run.attempt + 1 /\ run.attempt < world.retries
  BY <1>1, <1>5 DEF CompleteVerifyEffect, VerifyEnds, Drops
<1>10. run'.at \in {"finalize", "close", "execute", "verify"}
  BY <1>9
<1>11. EndsVerified(a)' /\ ~good => EndsVerified(a) \/ spent'.faults > 0
  <2>1. CASE LedgerStays /\ spent'.faults > 0
    BY <2>1
  <2>2. CASE PhaseCloses(a, IF good THEN "succeeded" ELSE "failed") /\ ~good
    <3>1. PhaseCloses(a, "failed")
      BY <2>2
    <3> QED
      BY <1>4, <3>1, FinishedVerify
  <2> QED
    BY <1>7, <2>1, <2>2
<1>12. CleanAt(a)'
  <2>1. Executes(a) \subseteq DOMAIN notes[a].bases
    BY <1>3, BasesTyped DEF Executes
  <2> QED
    BY <1>2, <1>3, <1>6, <1>8, <1>10, <2>1, CleanGrows
<1>13. BudgetAt(a)'
  <2>1. /\ WithinBudget(a) /\ AtMost(a, run.attempt)
        /\ notes[a].judged \in Nat /\ world.retries \in Nat /\ run.attempt \in Nat
        /\ run'.attempt \in Nat
    BY <1>1, <1>3, NumbersTyped DEF BudgetAt
  <2>2. CASE judged = notes[a].judged
    <3>1. run'.at \in Working => run'.attempt >= run.attempt
      BY <1>9, <2>1 DEF Working, Seeding, Looping, Verifying
    <3>2. run'.at \notin {"judged", "unsaved"}
      BY <1>10
    <3> QED
      BY <1>1, <1>3, <1>6, <2>2, <3>1, <3>2, BudgetGrows
  <2>3. CASE /\ run.at # "infra" /\ judged = notes[a].judged + 1
             /\ PhaseCloses(a, IF good THEN "succeeded" ELSE "failed")
    <3>1. Escaped(a) => Escaped(a)'
      BY <1>6 DEF Escaped, MarksStay
    <3>2. AtMost(a, world.retries + 1)'
      BY <1>2, <1>6, <2>1, <2>3, <3>1 DEF WithinBudget, AtMost
    <3>3. ~MayGoOn(a)'
      <4> DEFINE status == IF good THEN "succeeded" ELSE "failed"
      <4>1. status \in {"succeeded", "failed"} /\ PhaseCloses(a, status)
        BY <2>3
      <4> HIDE DEF status
      <4> QED
        BY <1>4, <4>1, FinishedVerify
    <3>4. ASSUME run'.at \in Working
          PROVE  WithinBudget(a)' /\ AtMost(a, run.attempt)'
      <4>1. ~run.ok /\ run'.attempt = run.attempt + 1 /\ run.attempt < world.retries
        BY <1>9, <3>4 DEF Working, Seeding, Looping, Verifying
      <4>2. AtMost(a, world.retries)' /\ AtMost(a, run.attempt)'
        BY <1>2, <1>6, <2>1, <2>3, <3>1, <4>1 DEF AtMost
      <4>3. CASE notes[a].unsaved
        BY <1>6, <4>2, <4>3 DEF WithinBudget, Covered, MarksStay
      <4>4. CASE ~notes[a].unsaved
        <5>1. run.at = "judged" /\ ~Escaped(a)
          BY <1>1, <1>2, <1>3, <2>3, <4>4 DEF BudgetAt, Escaped
        <5>2. PICK r \in notes[a].rows : r.seq = run.attempt + 1
          BY <1>1, <1>3, <4>1, <5>1 DEF BudgetAt
        <5>3. r \in notes'[a].rows /\ r.seq >= notes'[a].judged
          BY <1>6, <2>1, <2>3, <5>1, <5>2 DEF AtMost
        <5> QED
          BY <4>2, <5>3 DEF WithinBudget, Covered
      <4> QED
        BY <4>3, <4>4
    <3>5. run'.at \notin {"judged", "unsaved"}
      BY <1>10
    <3> QED
      BY <3>2, <3>3, <3>4, <3>5 DEF BudgetAt
  <2> QED
    BY <1>6, <2>2, <2>3
<1>14. BlankAt(a)'
  <2>1. EndsRight(a) /\ \A c \in Locked : run.passed[c].ev \/ notes[a].restored
    BY <1>1, <1>3 DEF BlankAt, Holding
  <2>2. Excused(a) => Excused(a)'
    BY <1>6, <1>7, NumbersTyped DEF Excused, FaultsGrow
  <2>3. spent'.faults > 0 => Excused(a)'
    BY DEF Excused
  <2>4. \A c \in DOMAIN completions' : completions'[c].a = a => Excused(a)'
    BY <1>2, <1>3, <2>1, <2>2 DEF BlankAt, EndsRight
  <2>5. ~good => EndsRight(a)'
    BY <1>11, <2>1, <2>2, <2>3 DEF EndsRight
  <2>6. good => Excused(a)' \/ EndsVerified(a)'
    <3>1. CASE LedgerStays /\ spent'.faults > 0
      BY <2>3, <3>1
    <3>2. CASE PhaseCloses(a, IF good THEN "succeeded" ELSE "failed") /\ good
      <4>1. PhaseCloses(a, "succeeded")
        BY <3>2
      <4> QED
        BY <1>4, <4>1, FinishedVerify
    <3> QED
      BY <1>7, <3>1, <3>2
  <2>7. \A c \in DOMAIN run'.passed : run'.passed[c].ev \/ notes'[a].restored
    BY <1>6, <1>9, <2>1 DEF Locked, NoVerdicts
  <2>8. run'.at \in Working \cup {"abortPhase", "abortCycle"} => ~good
    BY <1>9 DEF Working, Seeding, Looping, Verifying
  <2>9. run'.at = "close" => ~good
    BY <1>9
  <2>10. run'.at = "finalize" => good
    BY <1>9
  <2> QED
    BY <1>8, <2>4, <2>5, <2>6, <2>7, <2>8, <2>9, <2>10 DEF BlankAt, Locked
<1>15. BackedInv'
  <2>1. \A c \in DOMAIN run'.passed : run'.passed[c].ev => IsPrefix(run'.passed[c].at, tree')
    BY <1>2, <1>9 DEF SafeInv, BackedInv, Locked, NoVerdicts
  <2>2. run'.at \in Looping \cup {"finalize"} => notes'[run'.a].off = run'.off
    BY <1>3, <1>6, <1>9 DEF Looping, Verifying
  <2>3. run'.at = "finalize" => Criteria \subseteq DOMAIN run'.passed /\ Criteria \ run'.left = {}
    <3>1. good => Criteria \subseteq Locked
      BY <1>2, <1>5 DEF SafeInv, BackedInv
    <3> QED
      BY <1>9, <3>1 DEF Locked
  <2>4. run'.at \notin Verifying /\ run'.at # "settle"
        /\ ~(run'.at = "close" /\ run'.result = "succeeded")
    BY <1>2, <1>3, <1>9 DEF Verifying
  <2> QED
    BY <2>1, <2>2, <2>3, <2>4 DEF BackedInv, Locked, Verifying
<1> QED
  BY <1>2, <1>3, <1>6, <1>7, <1>8, <1>9, <1>10, <1>12, <1>13, <1>14, <1>15, InsideSafe

-----------------------------------------------------------------------------
(* Completions.                                                              *)

\* A completion is written, and nothing else of the run changes.
LEMMA CompletingSafe ==
    ASSUME Base, Base', SafeInv, UNCHANGED <<cycles, notes, row, tree, spent, world>>,
           NEW c \in Criteria, NEW at,
           c \in DOMAIN completions', completions'[c].a = run.a, completions'[c].at = at,
           DOMAIN completions' = {c} \cup DOMAIN completions,
           \A d \in DOMAIN completions : d # c => completions'[d] = completions[d],
           Excused(run.a) \/ EndsVerified(run.a),
           \/ run' = run /\ run.at = "verify" /\ run.off
           \/ run' = [run EXCEPT !.left = @ \ {c}] /\ run.at = "finalize" /\ IsPrefix(at, tree)
    PROVE  SafeInv'
<1>1. PICK a : a = run.a
  OBVIOUS
<1>2. /\ run.at \in Holding /\ run \in RunRow /\ a = Len(Attempts)
      /\ a = Len(notes) /\ a \in DOMAIN notes
  BY <1>1, Holds DEF Base, TypeInv, RunShape, NotesShape, Holding, Working, Looping
<1>3. /\ run'.at = run.at /\ run'.a = run.a /\ run'.off = run.off /\ run'.head = run.head
      /\ run'.ok = run.ok /\ run'.attempt = run.attempt /\ run'.passed = run.passed
      /\ run'.retry = run.retry /\ run'.result = run.result
      /\ run'.left \in {run.left, run.left \ {c}}
      /\ run'.at = "finalize" => IsPrefix(at, tree)
  BY <1>2 DEF RunRow
<1>4. LedgerStays
  BY LedgerStutters DEF Base
<1>5. ASSUME NEW b \in DOMAIN notes
      PROVE  /\ Executes(b)' = Executes(b) /\ Closed(b)' = Closed(b)
             /\ Phases(b)' = Phases(b) /\ Attempts'[b] = Attempts[b]
             /\ EndsVerified(b)' = EndsVerified(b) /\ Excused(b)' = Excused(b)
             /\ \A p : IsFirst(b, p)' = IsFirst(b, p)
             /\ MayGoOn(b)' = MayGoOn(b) /\ WithinBudget(b)' = WithinBudget(b)
  <2>1. Phases(b)' = Phases(b) /\ Attempts' = Attempts
    BY <1>4 DEF LedgerStays
  <2>2. Executes(b)' = Executes(b) /\ Closed(b)' = Closed(b)
    BY <2>1 DEF Executes, Closed
  <2>3. EndsVerified(b)' = EndsVerified(b) /\ Excused(b)' = Excused(b)
    BY <2>1 DEF EndsVerified, LastIs, Excused
  <2>4. \A p : IsFirst(b, p)' = IsFirst(b, p)
    BY <2>2 DEF IsFirst
  <2>5. MayGoOn(b)' = MayGoOn(b) /\ WithinBudget(b)' = WithinBudget(b)
    BY <2>1 DEF MayGoOn, Resumable, LastRuns, WithinBudget, AtMost, Escaped, Covered
  <2> QED
    BY <2>1, <2>2, <2>3, <2>4, <2>5
<1>6. CleanInv'
  <2>1. ASSUME NEW b \in DOMAIN notes PROVE CleanAt(b)'
    <3>1. CleanAt(b) /\ run'.at \notin {"agent", "completeExecute"}
      BY <1>3 DEF SafeInv, CleanInv
    <3> QED
      BY <1>5, <3>1 DEF CleanAt, Lacks, Within
  <2>2. StartOverIsClean'
    BY <1>3 DEF StartOverIsClean
  <2> QED
    BY <1>4, <2>1, <2>2 DEF LedgerStays, SafeInv, CleanInv, Within
<1>7. BudgetInv'
  <2>1. ASSUME NEW b \in DOMAIN notes PROVE BudgetAt(b)'
    <3>1. BudgetAt(b) /\ run'.at \notin {"judged", "unsaved"}
      BY <1>3 DEF SafeInv, BudgetInv
    <3> QED
      BY <1>3, <1>5, <3>1 DEF BudgetAt, AtMost, Escaped
  <2> QED
    BY <2>1 DEF BudgetInv
<1>8. BlankInv'
  <2>1. ASSUME NEW b \in DOMAIN notes PROVE BlankAt(b)'
    <3>1. BlankAt(b)
      BY DEF SafeInv, BlankInv
    <3>2. \A d \in DOMAIN completions' : completions'[d].a = b => Excused(b) \/ EndsVerified(b)
      <4> TAKE d \in DOMAIN completions'
      <4>1. CASE d = c
        BY <1>1, <4>1
      <4>2. CASE d # c
        BY <3>1, <4>2 DEF BlankAt
      <4> QED
        BY <4>1, <4>2
    <3>3. EndsRight(b)' = EndsRight(b)
      BY <1>5 DEF EndsRight
    <3> QED
      BY <1>3, <1>5, <3>1, <3>2, <3>3 DEF BlankAt, Locked
  <2>2. \A d \in DOMAIN completions' : completions'[d].a \in DOMAIN notes'
    <3> TAKE d \in DOMAIN completions'
    <3>1. CASE d = c
      BY <1>1, <1>2, <3>1
    <3>2. CASE d # c
      BY <3>2 DEF SafeInv, BlankInv
    <3> QED
      BY <3>1, <3>2
  <2> QED
    BY <1>3, <2>1, <2>2 DEF SafeInv, BlankInv
<1>9. BackedInv'
  <2>1. ASSUME run'.at = "finalize", ~run'.off
        PROVE  Criteria \subseteq DOMAIN run'.passed /\ \A d \in Criteria \ run'.left : Backed(d)'
    <3>1. Criteria \subseteq Locked /\ \A d \in Criteria \ run.left : Backed(d)
      BY <1>3, <2>1 DEF SafeInv, BackedInv
    <3>2. ASSUME NEW d \in Criteria \ run'.left PROVE Backed(d)'
      <4>1. CASE d = c
        BY <1>1, <1>2, <1>3, <2>1, <4>1 DEF Backed
      <4>2. CASE d # c
        <5>1. Backed(d)
          BY <1>3, <3>1, <3>2, <4>2
        <5> QED
          BY <4>2, <5>1 DEF Backed
      <4> QED
        BY <4>1, <4>2
    <3> QED
      BY <1>3, <3>1, <3>2 DEF Locked
  <2>2. run'.at \in {"verify", "finalize"}
        /\ (run'.at = "verify" => run'.off)
    BY <1>2, <1>3
  <2>3. \A d \in DOMAIN run'.passed : run'.passed[d].ev => IsPrefix(run'.passed[d].at, tree')
    BY <1>3 DEF SafeInv, BackedInv, Locked
  <2>4. notes'[run'.a].off = run'.off
    BY <1>3, <2>2 DEF SafeInv, BackedInv, Looping
  <2> QED
    BY <2>1, <2>2, <2>3, <2>4 DEF BackedInv, Locked, Verifying
<1> QED
  BY <1>6, <1>7, <1>8, <1>9 DEF SafeInv

\* The run is over, or has nothing left to verify.
LEMMA EndingSafe ==
    ASSUME Base, Base', SafeInv, UNCHANGED <<cycles, notes, row, completions, tree, world>>,
           FaultsGrow, NEW a, a = run.a, run.at \in {"verify", "finalize"},
           run'.a = a, run'.off => run.off, run'.passed \in {run.passed, NoVerdicts},
           \/ run'.at = "finalize" /\ run'.off /\ run.at = "verify"
           \/ run'.at = "close" /\ run'.result = "failed" /\ Excused(a)'
           \/ run'.at = "close" /\ run'.result = "succeeded" /\ (notes[a].off \/ AllBacked)
    PROVE  SafeInv'
<1>1. /\ a \in DOMAIN Attempts /\ a \in DOMAIN notes /\ Attempts[a].status = "running"
      /\ a = Len(Attempts) /\ run.at \in Holding
  BY Holds DEF Base, RunShape, Holding, Working, Looping
<1>2. CleanAt(a) /\ BudgetAt(a) /\ BlankAt(a) /\ Within(tree, a)
  BY <1>1 DEF SafeInv, CleanInv, BudgetInv, BlankInv
<1>3. LedgerStays
  BY LedgerStutters DEF Base
<1>4. /\ Executes(a)' = Executes(a) /\ Closed(a)' = Closed(a) /\ EndsVerified(a)' = EndsVerified(a)
      /\ MayGoOn(a)' = MayGoOn(a) /\ WithinBudget(a)' = WithinBudget(a)
      /\ Attempts'[a].status = "running"
  <2>1. Phases(a)' = Phases(a) /\ Attempts' = Attempts
    BY <1>3 DEF LedgerStays
  <2>2. Executes(a)' = Executes(a) /\ Closed(a)' = Closed(a) /\ EndsVerified(a)' = EndsVerified(a)
    BY <2>1 DEF Executes, Closed, EndsVerified, LastIs
  <2>3. MayGoOn(a)' = MayGoOn(a) /\ WithinBudget(a)' = WithinBudget(a)
    BY <2>1 DEF MayGoOn, Resumable, LastRuns, WithinBudget, AtMost, Escaped, Covered
  <2> QED
    BY <1>1, <2>1, <2>2, <2>3
<1>5. CleanAt(a)'
  <2>1. Executes(a) \subseteq DOMAIN notes[a].bases
    BY <1>1, BasesTyped DEF Executes
  <2> QED
    BY <1>1, <1>2, <1>4, <2>1, CleanGrows
<1>6. BudgetAt(a)'
  <2>1. run'.at \notin Working
    BY DEF Working, Seeding, Looping, Verifying
  <2> QED
    BY <1>2, <1>4, <2>1 DEF BudgetAt, AtMost, Escaped
<1>7. BlankAt(a)'
  <2>1. Excused(a) => Excused(a)'
    BY NumbersTyped DEF Excused, FaultsGrow
  <2>2. \A c \in DOMAIN run'.passed : run'.passed[c].ev \/ notes'[a].restored
    BY <1>1, <1>2 DEF BlankAt, Locked, NoVerdicts
  <2>3. run'.at = "finalize" => Excused(a)'
    BY NumbersTyped DEF SafeInv, BlankInv, Excused, FaultsGrow
  <2>4. run'.at \notin Working \cup {"abortPhase", "abortCycle"}
    BY DEF Working, Seeding, Looping, Verifying
  <2>5. run'.at = "close" /\ run'.result = "failed" => EndsRight(a)'
    BY DEF EndsRight
  <2>6. \A c \in DOMAIN completions' : completions'[c].a = a => Excused(a)' \/ EndsVerified(a)'
    BY <1>2, <1>4, <2>1 DEF BlankAt
  <2> QED
    BY <1>4, <2>2, <2>3, <2>4, <2>5, <2>6 DEF BlankAt, Locked
<1>8. BackedInv'
  <2>1. \A c \in DOMAIN run'.passed : run'.passed[c].ev => IsPrefix(run'.passed[c].at, tree')
    BY DEF SafeInv, BackedInv, Locked, NoVerdicts
  <2>2. run'.at = "finalize" => notes'[run'.a].off = run'.off
    <3> SUFFICES ASSUME run'.at = "finalize" PROVE notes'[a].off = run'.off
      OBVIOUS
    <3>1. run'.off \in BOOLEAN /\ run.off \in BOOLEAN
      BY DEF Base, TypeInv, RunRow
    <3>2. notes[a].off = run.off /\ run.off /\ run'.off
      BY DEF SafeInv, BackedInv, Looping
    <3> QED
      BY <3>1, <3>2
  <2>3. AllBacked => AllBacked'
    BY DEF AllBacked, Backed
  <2>4. run'.at \notin Looping \cup {"settle"}
    BY <1>1 DEF Looping, Verifying
  <2> QED
    BY <2>1, <2>2, <2>3, <2>4 DEF BackedInv, Locked, Looping
<1> QED
  BY <1>1, <1>2, <1>3, <1>5, <1>6, <1>7, <1>8, InsideSafe

\* A completion is written.
LEMMA CompletingDoes ==
    ASSUME Base, NEW c \in Criteria, NEW by \in {"legacy", "verifier"}, NEW at \in Revision,
           completions' = Completed(c, by, at)
    PROVE  /\ c \in DOMAIN completions' /\ completions'[c].a = run.a /\ completions'[c].at = at
           /\ DOMAIN completions' = {c} \cup DOMAIN completions
           /\ \A d \in DOMAIN completions : d # c => completions'[d] = completions[d]
<1>1. DOMAIN completions' = {c} \cup DOMAIN completions
  BY DEF Completed
<1>2. completions'[c] = [a |-> run.a, by |-> by, at |-> at]
  BY DEF Completed
<1>3. \A d \in DOMAIN completions : d # c => completions'[d] = completions[d]
  BY DEF Completed
<1> QED
  BY <1>1, <1>2, <1>3

LEMMA CompleteLegacySafe ==
    ASSUME Base, Base', SafeInv, UNCHANGED world, CompleteLegacy PROVE SafeInv'
<1>1. PICK a : a = run.a
  OBVIOUS
<1>2. /\ run.at = "verify" /\ run.off /\ run.at \in Working /\ run \in RunRow
      /\ Excused(a) /\ spent.faults > 0
  BY DEF CompleteLegacy, Base, TypeInv, Working, Looping, SafeInv, BlankInv, Excused
<1>3. ASSUME NEW c \in Criteria, completions' = Completed(c, "legacy", tree),
             UNCHANGED <<run, spent>>
      PROVE  SafeInv'
  <2>1. tree \in Revision
    BY DEF Base, TypeInv
  <2>2. /\ c \in DOMAIN completions' /\ completions'[c].a = run.a /\ completions'[c].at = tree
        /\ DOMAIN completions' = {c} \cup DOMAIN completions
        /\ \A d \in DOMAIN completions : d # c => completions'[d] = completions[d]
    BY <1>3, <2>1, CompletingDoes
  <2> QED
    BY <1>1, <1>2, <1>3, <2>2, CompletingSafe DEF CompleteLegacy
<1>4. CASE run' = [run EXCEPT !.at = "finalize", !.left = Locked] /\ UNCHANGED <<completions, spent>>
  <2>1. run'.at = "finalize" /\ run'.a = a /\ run'.off = run.off /\ run'.passed = run.passed
    BY <1>1, <1>2, <1>4 DEF RunRow
  <2> QED
    BY <1>1, <1>2, <1>4, <2>1, Growing, EndingSafe DEF CompleteLegacy
<1>5. CASE Fault /\ run' = Closing("failed") /\ UNCHANGED completions
  <2>1. Drops("close", run.a, "failed")
    BY <1>2, <1>5, Stopping
  <2> QED
    BY <1>2, <1>5, <2>1, Growing, DropLeaves, LeavesSafe DEF CompleteLegacy
<1> QED
  BY <1>3, <1>4, <1>5 DEF CompleteLegacy

LEMMA ApplySafe == ASSUME Base, Base', SafeInv, UNCHANGED world, ApplyCompletion PROVE SafeInv'
<1>1. PICK a : a = run.a
  OBVIOUS
<1>2. /\ run.at = "finalize" /\ run.at \in Holding /\ run \in RunRow
      /\ a \in DOMAIN notes /\ run.left \subseteq Locked
  BY <1>1, Holds DEF ApplyCompletion, Base, TypeInv, RunShape, Holding, Locked
<1>3. BlankAt(a)
  BY <1>2 DEF SafeInv, BlankInv
<1>4. PICK c \in run.left :
        \/ /\ Accepted(run.passed[c])
           /\ completions' = Completed(c, "verifier", run.passed[c].at)
           /\ run' = [run EXCEPT !.left = @ \ {c}]
           /\ UNCHANGED spent
        \/ /\ Fails(~Accepted(run.passed[c]))
           /\ run' = Closing("failed")
           /\ UNCHANGED completions
  BY DEF ApplyCompletion
<1>5. c \in Locked /\ c \in Criteria /\ run.passed[c] \in Verdict
  BY <1>2, VerdictsTyped
<1>6. CASE /\ Accepted(run.passed[c])
           /\ completions' = Completed(c, "verifier", run.passed[c].at)
           /\ run' = [run EXCEPT !.left = @ \ {c}]
           /\ UNCHANGED spent
  <2> DEFINE at == run.passed[c].at
  <2>1. at \in Revision /\ IsPrefix(at, tree)
    BY <1>5, <1>6 DEF Verdict, Accepted, SafeInv, BackedInv
  <2>2. /\ c \in DOMAIN completions' /\ completions'[c].a = run.a /\ completions'[c].at = at
        /\ DOMAIN completions' = {c} \cup DOMAIN completions
        /\ \A d \in DOMAIN completions : d # c => completions'[d] = completions[d]
    BY <1>5, <1>6, <2>1, CompletingDoes
  <2>3. Excused(a) \/ EndsVerified(a)
    BY <1>1, <1>2, <1>3 DEF BlankAt
  <2> HIDE DEF at
  <2> QED
    BY <1>1, <1>2, <1>5, <1>6, <2>1, <2>2, <2>3, CompletingSafe DEF ApplyCompletion
<1>7. CASE /\ Fails(~Accepted(run.passed[c]))
           /\ run' = Closing("failed")
           /\ UNCHANGED completions
  <2>1. Drops("close", a, "failed") /\ FaultsGrow
    BY <1>1, <1>2, <1>7, Stopping, FailingGrows
  <2>2. Excused(a)'
    <3>1. CASE ~Accepted(run.passed[c])
      BY <1>1, <1>2, <1>3, <1>5, <3>1 DEF ApplyCompletion, Accepted, BlankAt, Excused
    <3>2. CASE Fault
      BY <3>2, FaultIsSpent DEF Base, Excused
    <3> QED
      BY <1>7, <3>1, <3>2 DEF Fails
  <2> QED
    BY <1>1, <1>2, <1>7, <2>1, <2>2, EndingSafe DEF ApplyCompletion, Drops
<1> QED
  BY <1>4, <1>6, <1>7

LEMMA FinalizeSafe == ASSUME Base, Base', SafeInv, UNCHANGED world, FinalizeSuccess PROVE SafeInv'
<1>1. PICK a : a = run.a
  OBVIOUS
<1>2. run.at = "finalize" /\ Drops("close", a, "succeeded") /\ FaultsGrow
  BY <1>1, Stopping, Growing DEF FinalizeSuccess, Base, TypeInv
<1>3. notes[a].off \/ AllBacked
  <2>1. notes[a].off = run.off
    BY <1>1, <1>2 DEF SafeInv, BackedInv
  <2>2. ~run.off => \A c \in Criteria : Backed(c)
    BY <1>2 DEF FinalizeSuccess, SafeInv, BackedInv
  <2> QED
    BY <2>1, <2>2 DEF AllBacked
<1> QED
  BY <1>1, <1>2, <1>3, EndingSafe DEF FinalizeSuccess, Drops

-----------------------------------------------------------------------------
(* Closing.                                                                  *)

LEMMA TerminatedSafe ==
    ASSUME Base, Base', SafeInv, UNCHANGED <<notes, row, completions, tree, spent, world>>,
           run.at \in {"close", "abortCycle"}, L!Terminate(Task, run.a, run.result),
           NEW at, Goes(at), at = "failTask" \/ (at = "settle" /\ run.at = "close")
    PROVE  SafeInv'
<1>1. PICK a : a = run.a
  OBVIOUS
<1>2. /\ a \in DOMAIN Attempts /\ Attempts[a].status = "running" /\ a = Len(Attempts)
      /\ CycleCloses(a, run.result) /\ a \in DOMAIN notes
      /\ a = Len(notes) /\ run.result \in {"succeeded", "failed", "aborted"}
  BY <1>1, TerminateDoes, Holds DEF Holding, Base, RunShape, NotesShape
<1>3. CleanAt(a) /\ BudgetAt(a) /\ BlankAt(a) /\ Within(tree, a)
  BY <1>2 DEF SafeInv, CleanInv, BudgetInv, BlankInv
<1>4. /\ Phases(a)' = Phases(a) /\ Attempts'[a].status = run.result /\ OtherRowsStay(a)
      /\ Executes(a)' = Executes(a) /\ Closed(a)' /\ EndsVerified(a)' = EndsVerified(a)
  <2>1. Phases(a)' = Phases(a) /\ Attempts'[a].status = run.result /\ OtherRowsStay(a)
    BY <1>2 DEF CycleCloses
  <2>2. Executes(a)' = Executes(a) /\ EndsVerified(a)' = EndsVerified(a)
    BY <2>1 DEF Executes, EndsVerified, LastIs
  <2>3. Closed(a)'
    BY <1>2, <2>1 DEF Closed
  <2> QED
    BY <2>1, <2>2, <2>3
<1>5. CleanAt(a)'
  <2>1. Executes(a) \subseteq DOMAIN notes[a].bases
    BY <1>2, BasesTyped DEF Executes
  <2>2. run'.at \notin {"agent", "completeExecute"}
    BY DEF Goes
  <2> QED
    BY <1>2, <1>3, <1>4, <2>1, <2>2, CleanGrows
<1>6. run'.at \notin Holding /\ run'.at \notin Working /\ run'.at # "startCycle"
      /\ {"close", "finalize", "abortPhase", "abortCycle"} \subseteq Holding
  BY DEF Goes, Holding, Working, Seeding, Looping, Verifying
<1>7. BudgetAt(a)'
  <2>1. run'.at \notin {"judged", "unsaved"}
    BY DEF Goes
  <2> QED
    BY <1>3, <1>4, <1>6, <2>1 DEF BudgetAt, AtMost, Escaped
<1>8. BlankAt(a)'
  <2>1. Attempts'[a].status = "failed" => EndsRight(a)
    BY <1>1, <1>3, <1>4 DEF BlankAt
  <2>2. Excused(a)' = Excused(a) /\ EndsRight(a)' = EndsRight(a)
    BY <1>4 DEF Excused, EndsRight
  <2> QED
    BY <1>3, <1>4, <1>6, <2>1, <2>2 DEF BlankAt
<1>9. BackedInv'
  <2>1. \A c \in DOMAIN run'.passed : run'.passed[c].ev => IsPrefix(run'.passed[c].at, tree')
    BY DEF Goes, SafeInv, BackedInv, Locked
  <2>2. run'.at \notin Looping \cup Verifying \cup {"finalize", "close"}
    BY <1>2 DEF Goes, Looping, Verifying
  <2>3. run'.at = "settle" /\ run'.result = "succeeded" /\ ~notes'[run'.a].off => AllBacked'
    <3>1. AllBacked => AllBacked'
      BY DEF AllBacked, Backed
    <3> QED
      BY <3>1 DEF Goes, SafeInv, BackedInv
  <2> QED
    BY <2>1, <2>2, <2>3 DEF BackedInv, Locked, Verifying
<1>10. FaultsGrow /\ (run'.off => run.off)
  BY Growing DEF Goes
<1> QED
  BY <1>2, <1>3, <1>4, <1>5, <1>6, <1>7, <1>8, <1>9, <1>10, InsideSafe

LEMMA CloseSafe == ASSUME Base, Base', SafeInv, UNCHANGED world, Close PROVE SafeInv'
<1>1. run.at = "close" /\ run \in RunRow /\ "settle" \in Places
  BY DEF Close, Base, TypeInv, Places
<1>2. CASE L!Terminate(Task, run.a, run.result) /\ Go("settle") /\ UNCHANGED spent
  <2>1. Goes("settle")
    BY <1>1, <1>2, Going
  <2> QED
    BY <1>1, <1>2, <2>1, TerminatedSafe DEF Close
<1>3. CASE Fails(L!HasRunningPhase(Task, run.a)) /\ run' = Idle /\ UNCHANGED cycles
  <2>1. Drops("idle", 0, "none") /\ FaultsGrow
    BY <1>1, <1>3, Stopping, FailingGrows
  <2> QED
    BY <1>3, <2>1, DropLeaves, LeavesSafe DEF Close
<1> QED
  BY <1>2, <1>3 DEF Close

LEMMA SettleSafe == ASSUME Base, Base', SafeInv, UNCHANGED world, Settle PROVE SafeInv'
<1>1. run.at = "settle" /\ Drops("idle", 0, "none") /\ FaultsGrow
  BY Stopping, Growing DEF Settle, Base, TypeInv
<1> QED
  BY <1>1, DropLeaves, LeavesSafe DEF Settle

LEMMA AbortCycleSafe == ASSUME Base, Base', SafeInv, UNCHANGED world, AbortCycle PROVE SafeInv'
<1>1. run.at = "abortCycle" /\ Goes("failTask")
  BY Going DEF AbortCycle, Base, TypeInv, Places
<1>2. CASE L!Terminate(Task, run.a, run.result) /\ UNCHANGED spent
  BY <1>1, <1>2, TerminatedSafe DEF AbortCycle
<1>3. CASE Fails(L!HasRunningPhase(Task, run.a)) /\ UNCHANGED cycles
  BY <1>1, <1>3, FailingGrows, GivesUp, LeavesSafe DEF AbortCycle
<1> QED
  BY <1>2, <1>3 DEF AbortCycle

-----------------------------------------------------------------------------
(* A phase that is cut off.                                                  *)

LEMMA CutOffSafe ==
    ASSUME Base, Base', SafeInv, NEW a \in DOMAIN Attempts, NEW status \in {"failed", "interrupted"},
           PhaseCloses(a, status), UNCHANGED <<notes, completions, tree, world>>, FaultsGrow,
           \/ run'.at = "idle" /\ run'.passed = NoVerdicts /\ ~run'.off
           \/ run.at = "abortPhase" /\ Goes("abortCycle") /\ a = run.a
    PROVE  SafeInv'
<1>1. /\ a \in DOMAIN notes /\ a = Len(Attempts) /\ Attempts[a].status = "running"
      /\ LastRuns(a) /\ OtherRowsStay(a) /\ Attempts'[a].status = "running"
      /\ Len(Phases(a)) \in Nat
  BY BasesTyped, LedgerRows DEF PhaseCloses, Base
<1>2. CleanAt(a) /\ BudgetAt(a) /\ BlankAt(a) /\ Within(tree, a)
  BY <1>1 DEF SafeInv, CleanInv, BudgetInv, BlankInv
<1>3. /\ Executes(a)' = Executes(a) /\ Closed(a)' = Closed(a) /\ ~Closed(a)
      /\ ~EndsVerified(a)' /\ ~EndsVerified(a)
  BY <1>1, ClosedExecutes DEF EndsVerified, LastIs, LastRuns
<1>4. /\ run'.at \in {"idle", "abortCycle"} /\ run'.at \notin Working
      /\ (run'.off => run.off) /\ (run'.at = "abortCycle" => run'.a = a)
      /\ run'.at = "idle" => run'.at \notin Holding
  BY DEF Goes, Holding, Working, Seeding, Looping, Verifying
<1>5. CleanAt(a)'
  <2>1. Executes(a) \subseteq DOMAIN notes[a].bases
    BY <1>1, BasesTyped DEF Executes
  <2> QED
    BY <1>1, <1>2, <1>3, <1>4, <2>1, CleanGrows
<1>6. BudgetAt(a)'
  <2>1. WithinBudget(a)
    BY <1>1, <1>2, <1>3 DEF BudgetAt, MayGoOn, LastRuns
  <2>2. WithinBudget(a)' = WithinBudget(a)
    BY DEF WithinBudget, AtMost, Escaped, Covered
  <2> QED
    BY <1>2, <1>4, <2>1, <2>2 DEF BudgetAt, AtMost, Escaped
<1>7. BlankAt(a)'
  <2>1. Excused(a) => Excused(a)'
    BY NumbersTyped DEF Excused, FaultsGrow
  <2>2. \A c \in DOMAIN completions' : completions'[c].a = a => Excused(a)'
    BY <1>2, <1>3, <2>1 DEF BlankAt
  <2>3. EndsRight(a)'
    BY <1>3 DEF EndsRight
  <2>4. run'.at = "abortCycle" => \A c \in DOMAIN run'.passed : run'.passed[c].ev \/ notes'[a].restored
    BY <1>2 DEF BlankAt, Goes, Locked, Holding
  <2> QED
    BY <1>4, <2>2, <2>3, <2>4 DEF BlankAt, Locked
<1>8. BackedInv'
  <2>1. \A c \in DOMAIN run'.passed : run'.passed[c].ev => IsPrefix(run'.passed[c].at, tree')
    BY DEF Goes, SafeInv, BackedInv, Locked, NoVerdicts
  <2>2. run'.at \notin Looping \cup Verifying \cup {"finalize", "close", "settle"}
    BY <1>4 DEF Looping, Verifying
  <2> QED
    BY <2>1, <2>2 DEF BackedInv, Locked, Verifying
<1> QED
  BY <1>1, <1>2, <1>4, <1>5, <1>6, <1>7, <1>8, InsideSafe

LEMMA AbortPhaseSafe == ASSUME Base, Base', SafeInv, UNCHANGED world, AbortPhase PROVE SafeInv'
<1>1. PICK a : a = run.a
  OBVIOUS
<1>2. a \in DOMAIN Attempts /\ run.at = "abortPhase" /\ Goes("abortCycle")
  BY <1>1, AbortPhaseDoes DEF AbortPhase
<1>3. CASE PhaseCloses(a, "failed") /\ UNCHANGED spent
  BY <1>1, <1>2, <1>3, Growing, CutOffSafe DEF AbortPhase
<1>4. CASE Fault /\ UNCHANGED cycles
  <2>1. Leaves
    BY <1>2, <1>4, Growing, LedgerStutters DEF AbortPhase, Leaves, Goes, Base, Locked
  <2> QED
    BY <2>1, LeavesSafe
<1> QED
  BY <1>1, <1>3, <1>4, AbortPhaseDoes

LEMMA RestartSafe == ASSUME Base, Base', SafeInv, UNCHANGED world, Restart PROVE SafeInv'
<1>1. PICK a : a = Len(Attempts)
  OBVIOUS
<1>2. Drops("idle", 0, "none") /\ FaultsGrow
  BY <1>1, RestartDoes, Growing DEF Restart
<1>3. CASE UNCHANGED cycles
  BY <1>2, <1>3, DropLeaves, LeavesSafe DEF Restart
<1>4. CASE a \in DOMAIN Attempts /\ PhaseCloses(a, "interrupted")
  <2>1. run'.at = "idle" /\ run'.passed = NoVerdicts /\ ~run'.off
    BY <1>2 DEF Drops
  <2> QED
    BY <1>2, <1>4, <2>1, CutOffSafe DEF Restart
<1> QED
  BY <1>1, <1>3, <1>4, RestartDoes

-----------------------------------------------------------------------------
(* The properties hold in every reachable state.                             *)

LEMMA InitSafe == ASSUME Init PROVE SafeInv
<1>1. /\ notes = <<>> /\ completions = NoVerdicts /\ tree = <<0>> /\ run = Idle
      /\ Attempts = <<>>
  BY DEF Init, Root, Attempts
<1>2. /\ run.at = "idle" /\ run.passed = NoVerdicts /\ ~run.off
  BY <1>1 DEF Idle
<1>3. CleanInv
  BY <1>1, <1>2 DEF CleanInv, StartOverIsClean, Within
<1>4. BudgetInv
  BY <1>1 DEF BudgetInv
<1>5. BackedInv
  BY <1>1, <1>2 DEF BackedInv, Locked, NoVerdicts, Looping, Verifying
<1>6. BlankInv
  BY <1>1, <1>2 DEF BlankInv, NoVerdicts
<1> QED
  BY <1>3, <1>4, <1>5, <1>6 DEF SafeInv

\* The run does not move; the row, the pending retry and the bounds may.
LEMMA AsideSafe ==
    ASSUME Base, Base', SafeInv, UNCHANGED <<cycles, notes, completions, tree, run, world>>,
           FaultsGrow
    PROVE  SafeInv'
<1>1. LedgerStays
  BY LedgerStutters DEF Base
<1>2. UNCHANGED <<notes, completions, tree, run, world>>
  OBVIOUS
<1>3. ASSUME NEW b
      PROVE  /\ Phases(b)' = Phases(b) /\ Executes(b)' = Executes(b) /\ Closed(b)' = Closed(b)
             /\ FirstBase(b)' = FirstBase(b)
  <2>1. Phases(b)' = Phases(b) /\ Attempts' = Attempts
    BY <1>1 DEF LedgerStays
  <2>2. Executes(b)' = Executes(b)
    BY <2>1 DEF Executes
  <2> QED
    BY <1>2, <2>1, <2>2 DEF Closed, FirstBase
<1>4. CleanInv'
  <2>1. ASSUME NEW b \in DOMAIN notes PROVE CleanAt(b)'
    <3>1. CleanAt(b)
      BY DEF SafeInv, CleanInv
    <3>2. \A p : IsFirst(b, p)' = IsFirst(b, p)
      BY <1>3 DEF IsFirst
    <3> QED
      BY <1>2, <1>3, <3>1, <3>2 DEF CleanAt, Within, Lacks
  <2>2. StartOverIsClean'
    <3>1. PICK parent : parent = run.retry.parent
      OBVIOUS
    <3>2. FirstBase(parent)' = FirstBase(parent)
      BY <1>3
    <3>3. FirstBase(run.retry.parent)' = FirstBase(parent)'
      BY <1>2, <3>1 DEF FirstBase, Executes, Phases
    <3> QED
      BY <1>2, <3>1, <3>2, <3>3 DEF SafeInv, CleanInv, StartOverIsClean
  <2> QED
    BY <1>1, <1>2, <2>1, <2>2 DEF LedgerStays, SafeInv, CleanInv, Within
<1>5. BudgetInv'
  <2> SUFFICES ASSUME NEW b \in DOMAIN notes PROVE BudgetAt(b)'
    BY <1>2 DEF BudgetInv
  <2>1. BudgetAt(b)
    BY DEF SafeInv, BudgetInv
  <2> QED
    BY <1>2, <1>3, <2>1 DEF BudgetAt, WithinBudget, AtMost, Escaped, Covered, MayGoOn, Resumable, LastRuns
<1>6. BackedInv'
  BY <1>2 DEF SafeInv, BackedInv, AllBacked, Backed, Locked
<1>7. BlankInv'
  <2>1. ASSUME NEW b \in DOMAIN notes PROVE BlankAt(b)'
    <3>1. BlankAt(b)
      BY DEF SafeInv, BlankInv
    <3>2. EndsVerified(b)' = EndsVerified(b) /\ (Excused(b) => Excused(b)') /\ Attempts' = Attempts
      BY <1>1, <1>2, <1>3, NumbersTyped DEF EndsVerified, LastIs, Excused, LedgerStays, FaultsGrow
    <3> QED
      BY <1>2, <3>1, <3>2 DEF BlankAt, EndsRight, Locked
  <2>2. run'.off => spent'.faults > 0
    BY <1>2, NumbersTyped DEF SafeInv, BlankInv, FaultsGrow
  <2> QED
    BY <1>2, <2>1, <2>2 DEF SafeInv, BlankInv
<1> QED
  BY <1>4, <1>5, <1>6, <1>7 DEF SafeInv

LEMMA StutterSafe == ASSUME Base, Base', SafeInv, UNCHANGED vars PROVE SafeInv'
  BY AsideSafe, Growing DEF vars

\* The operator asks for a retry, or writes a status.
LEMMA OperatorSafe ==
    ASSUME Base, Base', SafeInv, UNCHANGED world,
           \/ \E to \in {"ready", "running", "failed", "done"} : PatchStatus(to)
           \/ \E mode \in {"fresh", "resume"} : \E parent \in DOMAIN Attempts :
                 RequestTaskRetry(mode, parent)
    PROVE  SafeInv'
  BY AsideSafe, Growing DEF PatchStatus, RequestTaskRetry

LEMMA NextSafe ==
    ASSUME Base, Base', SafeInv, [Next /\ UNCHANGED world]_vars
    PROVE  SafeInv'
<1>1. CASE UNCHANGED vars
  BY <1>1, StutterSafe
<1>2. ASSUME UNCHANGED world,
             (\E to \in {"ready", "running", "failed", "done"} : PatchStatus(to)) \/ \E mode \in {"fresh", "resume"} : \E parent \in DOMAIN Attempts :
                           RequestTaskRetry(mode, parent)
      PROVE  SafeInv'
  BY <1>2, OperatorSafe
<1>3. ASSUME UNCHANGED world, Pickup \/ LoadCheckpointFromParent \/ MirrorParentCriteria
      PROVE  SafeInv'
  BY <1>3, PickupLeaves, LoadLeaves, MirrorLeaves, LeavesSafe
<1>4. ASSUME UNCHANGED world,
             \/ Resume \/ ResetForFreshRetry \/ StartCycle
             \/ SeedStart \/ SeedComplete \/ LoadSnapshot
      PROVE  SafeInv'
  BY <1>4, ResumeSafe, ResetSafe, StartCycleSafe, SeedStartSafe, SeedCompleteSafe,
     LoadSnapshotSafe
<1>5. ASSUME UNCHANGED world, Execute PROVE SafeInv'
  BY <1>5, StartExecuteSafe, GitProbeLeaves, LeavesSafe, RunAgentSafe, CompleteExecuteSafe
  DEF Execute
<1>6. ASSUME UNCHANGED world, Verify PROVE SafeInv'
  BY <1>6, StartVerifySafe, ChecksSafe, CompleteVerifySafe DEF Verify
<1>7. ASSUME UNCHANGED world, Finish PROVE SafeInv'
  BY <1>7, CompleteLegacySafe, ApplySafe, FinalizeSafe, CloseSafe, SettleSafe DEF Finish
<1>8. ASSUME UNCHANGED world, Abort \/ Restart PROVE SafeInv'
  BY <1>8, AbortPhaseSafe, AbortCycleSafe, FailTaskLeaves, LeavesSafe, RestartSafe DEF Abort
<1> QED
  BY <1>1, <1>2, <1>3, <1>4, <1>5, <1>6, <1>7, <1>8 DEF Next

LEMMA SafeAlways == Spec => []SafeInv
<1>1. Init => SafeInv
  BY InitSafe
<1>2. Base /\ Base' /\ SafeInv /\ [Next /\ UNCHANGED world]_vars => SafeInv'
  BY NextSafe
<1> QED
  BY <1>1, <1>2, HarnessTypeCorrect, PTL DEF Spec

(* Starting over: resolveFreshRetryAnchor finds a revision without any       *)
(* commit of the parent, whatever retries, resumes and seeds came before,    *)
(* as long as the parent's first execute phase recorded its base.  The base  *)
(* is right because priorCycleBaseSHA carries the first one along, and the   *)
(* checkout holds no commit of an attempt that has not executed yet.         *)
THEOREM StartOverAnchorIsClean == Spec => []StartOverIsClean
<1>1. SafeInv => StartOverIsClean
  BY DEF SafeInv, CleanInv
<1> QED
  BY <1>1, SafeAlways, PTL

(* The budget of applyVerifyEffects holds across restarts: a run that may    *)
(* come back to an attempt finds a verdict row with the number of its last   *)
(* judged pass, so that verifyAttempt goes on counting from there.  Where    *)
(* the rows of a pass were not saved it may not, and the property says so.   *)
THEOREM VerifyPassesStayInBudget == Spec => []VerifyBudget
<1>1. SafeInv => VerifyBudget
  BY DEF SafeInv, BudgetInv, BudgetAt, AtMost, Escaped, VerifyBudget
<1> QED
  BY <1>1, SafeAlways, PTL

(* FinalizeSuccess is reached only with a completion of this attempt for     *)
(* every criterion, each on a verdict about a prefix of the branch, and they *)
(* are still there when the run writes done, whatever the operator has made  *)
(* of the status in between.                                                 *)
THEOREM SucceededRunsAreBacked == Spec => []DoneIsBacked
<1>1. Base /\ SafeInv => DoneIsBacked
  <2> SUFFICES ASSUME Base, SafeInv, run.at = "settle", run.result = "succeeded",
                      ~notes[run.a].off, NEW c \in Criteria
               PROVE  /\ c \in DOMAIN completions /\ completions[c].a = run.a
                      /\ IsPrefix(completions[c].at, tree)
    BY DEF DoneIsBacked
  <2>1. Backed(c)
    BY DEF SafeInv, BackedInv, AllBacked
  <2>2. run.a = Len(notes)
    BY Holds DEF Base, NotesShape
  <2> QED
    BY <2>1, <2>2 DEF Backed
<1> QED
  BY <1>1, SafeAlways, HarnessTypeCorrect, PTL

(* What the attempt left behind when terminateCycle closed it as failed:     *)
(* neither completions nor a verify phase that succeeded, unless it ran on   *)
(* restored verdicts or a store call failed.                                 *)
THEOREM FailedAttemptsLeaveNothing == Spec => []FailedAttemptIsBlank
<1>1. Base /\ SafeInv => FailedAttemptIsBlank
  <2> SUFFICES ASSUME Base, SafeInv, NEW a \in DOMAIN notes, Attempts[a].status = "failed",
                      a \notin Restored, ~(spent.faults > 0)
               PROVE  /\ \A c \in DOMAIN completions : completions[c].a # a
                      /\ \A p \in DOMAIN Phases(a) :
                            ~(p = Len(Phases(a)) /\ Phases(a)[p].kind = "verify"
                                                 /\ Phases(a)[p].status = "succeeded")
    BY DEF FailedAttemptIsBlank
  <2>1. BlankAt(a) /\ ~Excused(a)
    BY DEF SafeInv, BlankInv, Excused, Restored
  <2>2. ~EndsVerified(a)
    BY <2>1 DEF BlankAt, EndsRight
  <2>3. \A c \in DOMAIN completions : completions[c].a # a
    BY <2>1, <2>2 DEF BlankAt
  <2>4. ASSUME NEW p \in DOMAIN Phases(a), p = Len(Phases(a)), Phases(a)[p].kind = "verify",
               Phases(a)[p].status = "succeeded"
        PROVE  FALSE
    <3>1. DOMAIN notes = DOMAIN Attempts
      BY LedgerRows DEF Base, TypeInv, NotesShape
    <3>2. Phases(a) \in Seq(LP!PhaseRow)
      BY <3>1, LedgerRows DEF Base
    <3>3. Phases(a) # <<>> /\ Phases(a)[p] \in LP!PhaseRow
      BY <2>4, <3>2
    <3>4. Phases(a)[p] = [kind |-> "verify", status |-> "succeeded"]
      BY <2>4, <3>3 DEF LP!PhaseRow
    <3> QED
      BY <2>2, <2>4, <3>3, <3>4 DEF EndsVerified, LastIs
  <2> QED
    BY <2>3, <2>4
<1> QED
  BY <1>1, SafeAlways, HarnessTypeCorrect, PTL
=============================================================================

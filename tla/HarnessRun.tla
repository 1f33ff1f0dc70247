----------------------------- MODULE HarnessRun -----------------------------
(* pkgs/agents/harness over the whole life of one task: attempts, verify     *)
(* retries inside an attempt, operator retries from scratch or from a parent *)
(* attempt, restarts in the middle, and store calls that fail.  WorkerPool   *)
(* says which slot runs the task; here there is one run at a time, and what  *)
(* counts is what an attempt leaves behind for the next one: the commits in  *)
(* the checkout, the base recorded in the phase details, the verdict rows,   *)
(* and the completions.  The rows of attempts and phases are CycleLedger's.  *)
EXTENDS Naturals, FiniteSets, SequencesExt

CONSTANTS
    Task,
    Criteria,       \* the checklist of the task
    MaxAttempts,    \* bound: attempts of the task
    MaxPhases,      \* bound: phases of an attempt
    Worlds          \* the settings.VerifyMaxRetries (retries) of a behaviour, and
                    \* its bounds: operator retries (ops), restarts (crashes) and
                    \* store calls that fail (faults)

ASSUME LimitsAssumption == MaxAttempts \in Nat /\ MaxPhases \in Nat
ASSUME WorldsAssumption ==
    Worlds \subseteq [retries : Nat, ops : Nat, crashes : Nat, faults : Nat]

VARIABLES
    cycles,         \* the ledger
    notes,          \* notes[a]: what the store holds of attempt a besides
    row,            \* the status of the task
    pending,        \* its pending_retry
    completions,    \* task_checklist_completions
    tree,           \* the branch in the checkout, root first
    run,            \* locals of the harness
    world,          \* a member of Worlds
    spent           \* what of its bounds has happened

vars == <<cycles, notes, row, pending, completions, tree, run, world, spent>>

L == INSTANCE CycleLedger WITH Tasks <- {Task}

-----------------------------------------------------------------------------
(* A commit is named by the attempt that made it, the root by 0.  A revision *)
(* is the history up to it, so that an ancestor is a prefix; the empty       *)
(* sequence stands for "no revision recorded".                               *)
Root == 0
None == <<>>

Attempts == cycles[Task]
Phases(a) == Attempts[a].phases
Executes(a) == {p \in DOMAIN Phases(a) : Phases(a)[p].kind = "execute"}
Closed(a) == Attempts[a].status # "running"

\* bases[p] is cycle_base_sha in the details of phase p; rows are the verify
\* reports, at is the revision that was judged (not stored, only remembered
\* here), as are the fields after it: judged counts the passes that gave verdicts
\* and were finished, unsaved says that the rows of one could not be written.
NewNotes(restored) ==
    [bases |-> <<>>, commits |-> {}, rows |-> {},
     judged |-> 0, unsaved |-> FALSE, resumed |-> FALSE, restored |-> restored, off |-> FALSE]

NoRetry == [mode |-> "none", parent |-> 0]
NoVerdicts == [c \in {} |-> {}]

\* processState and the arguments of runCycleLoop.
Idle ==
    [at |-> "idle", a |-> 0, retry |-> NoRetry, seed |-> FALSE, skip |-> FALSE,
     off |-> FALSE, head |-> None, ok |-> TRUE, reached |-> FALSE,
     attempt |-> 0, passed |-> NoVerdicts, result |-> "none", left |-> {}]

Go(at) == run' = [run EXCEPT !.at = at]

\* The run has its result; nothing else of the locals is read again.
Closing(result) == [Idle EXCEPT !.at = "close", !.a = run.a, !.result = result]
Aborting(at, result) == [Idle EXCEPT !.at = at, !.a = run.a, !.result = result]

Spend(what) ==
    /\ spent' = [spent EXCEPT ![what] = @ + 1]
    /\ spent[what] < world[what]

\* A store call that fails for no reason of the protocol.
Fault == Spend("faults")

\* A store call that fails: its guard refuses, or it is a fault.
Fails(refused) == (refused /\ UNCHANGED spent) \/ Fault

Init ==
    /\ cycles = [t \in {Task} |-> <<>>]
    /\ notes = <<>>
    /\ row = "ready"
    /\ pending = NoRetry
    /\ completions = NoVerdicts
    /\ tree = <<Root>>
    /\ run = Idle
    /\ world \in Worlds
    /\ spent = [ops |-> 0, crashes |-> 0, faults |-> 0]

-----------------------------------------------------------------------------
(* The operator.                                                             *)

\* RequestTaskRetry: a failed task, and any terminal attempt as the parent.
RequestTaskRetry(mode, parent) ==
    /\ row = "failed"
    /\ Closed(parent)
    /\ row' = "ready"
    /\ pending' = [mode |-> mode, parent |-> parent]
    /\ Spend("ops")
    /\ UNCHANGED <<cycles, notes, completions, tree, run>>

\* applyStatusPatch: any other status at any time, during a run too; only done
\* asks for something, a completion of every criterion (ValidateCanMarkDoneInTx).
PatchStatus(to) ==
    /\ row # to
    /\ to = "done" => Criteria \subseteq DOMAIN completions
    /\ Spend("ops")
    /\ row' = to
    /\ UNCHANGED <<cycles, notes, pending, completions, tree, run>>

\* AgentPickup, then RunWithRetry on the intent the row held.
Pickup ==
    /\ row = "ready"
    /\ run.at = "idle"
    /\ row' = "running"
    /\ pending' = NoRetry
    /\ run' = [Idle EXCEPT !.retry = pending,
                           !.at = CASE pending.mode = "fresh" -> "reset"
                                    [] pending.mode = "resume" -> "load"
                                    [] OTHER -> "startCycle"]
    /\ UNCHANGED <<cycles, notes, completions, tree, spent>>

-----------------------------------------------------------------------------
(* runFreshRetry.                                                            *)

\* Indexed commits are numbered from 1 in every execute phase, so the earliest
\* by seq is the first one of any of them; its parent is the fallback.
FallbackAnchors(a) == {Front(commit) : commit \in notes[a].commits}

\* The base in the details of the first execute phase, if it recorded one.
FirstBase(a) ==
    {notes[a].bases[p] : p \in {p \in Executes(a) : \A q \in Executes(a) : p <= q}} \ {None}

\* The two sources in the other order.
AnchorsByIndexFirst(a) ==
    IF FallbackAnchors(a) # {} THEN FallbackAnchors(a) ELSE FirstBase(a)

\* resolveFreshRetryAnchor: the base, or the fallback, or nothing.
Anchors(a) ==
    IF FirstBase(a) # {} THEN FirstBase(a) ELSE FallbackAnchors(a)

ResetForFreshRetry ==
    /\ run.at = "reset"
    /\ \/ \E anchor \in Anchors(run.retry.parent) :
             tree' = anchor /\ Go("startCycle") /\ UNCHANGED spent
       \/ /\ Fails(Anchors(run.retry.parent) = {})
          /\ Go("failTask")
          /\ UNCHANGED tree
    /\ UNCHANGED <<cycles, notes, row, pending, completions>>

-----------------------------------------------------------------------------
(* Checkpoints.  A verdict that was locked in memory has its evidence (ev);  *)
(* loadVerifyCheckpointData restores it from the rows without.               *)

RestoredVerdicts(a) ==
    [c \in {r.c : r \in {r \in notes[a].rows : r.ok}} |->
        [ev |-> FALSE, at |-> (CHOOSE r \in notes[a].rows : r.c = c /\ r.ok).at]]

\* Every restart gives the full budget again.
NoAttemptSeq(a) == 0

MaxAttemptSeq(a) == Max({0} \cup {r.seq : r \in notes[a].rows})

\* routeResumeEntry: verify the parent's work again, without a new execute?
VerifyOnlyEntry(a) ==
    /\ Executes(a) # {}
    /\ Phases(a)[Max(Executes(a))].status = "succeeded"
    /\ Attempts[a].status = "failed"
    /\ Last(Phases(a)).kind = "verify"
    /\ \E b \in DOMAIN notes : notes[b].commits # {}

LoadCheckpointFromParent ==
    /\ run.at = "load"
    /\ \/ /\ run' = [run EXCEPT !.at = "startCycle",
                                !.passed = RestoredVerdicts(run.retry.parent),
                                !.seed = VerifyOnlyEntry(run.retry.parent),
                                !.skip = VerifyOnlyEntry(run.retry.parent)]
          /\ UNCHANGED spent
       \/ Fault /\ Go("failTask")
    /\ UNCHANGED <<cycles, notes, row, pending, completions, tree>>

\* ReconstructCheckpoint accepts an interrupted last phase or a succeeded
\* execute.
Resumable(a) ==
    /\ Phases(a) # <<>>
    /\ LET last == Last(Phases(a))
       IN  last.status = "interrupted" \/ (last.kind = "execute" /\ last.status = "succeeded")

\* Admission of a running task with an open attempt, after a restart or because
\* a reconcile pass offered it.
Resume ==
    /\ run.at = "idle"
    /\ row = "running"
    /\ L!HasRunningCycle(Task)
    /\ LET a == Len(Attempts)
       IN  IF Resumable(a)
           THEN /\ run' = [Idle EXCEPT !.at = "snapshot", !.a = a,
                                       !.passed = RestoredVerdicts(a),
                                       !.attempt = MaxAttemptSeq(a),
                                       !.skip = ~(/\ Last(Phases(a)).kind = "execute"
                                                  /\ Last(Phases(a)).status = "interrupted")]
                /\ notes' = [notes EXCEPT ![a].resumed = TRUE,
                                          ![a].restored = @ \/ DOMAIN RestoredVerdicts(a) # {}]
           ELSE Go("failTask") /\ UNCHANGED notes
    /\ UNCHANGED <<cycles, row, pending, completions, tree, spent>>

-----------------------------------------------------------------------------
(* Opening an attempt.                                                       *)

StartCycle ==
    /\ run.at = "startCycle"
    /\ \/ /\ L!StartCycle(Task)
          /\ notes' = Append(notes, NewNotes(DOMAIN run.passed # {}))
          /\ run' = [run EXCEPT !.at = IF run.seed THEN "seedStart" ELSE "snapshot",
                                !.a = Len(cycles'[Task])]
          /\ UNCHANGED spent
       \/ /\ Fails(L!HasRunningCycle(Task))
          /\ Go("failTask")
          /\ UNCHANGED <<cycles, notes>>
    /\ UNCHANGED <<row, pending, completions, tree>>

Refused(kind) ==
    L!HasRunningPhase(Task, run.a) \/ ~L!MayAppend(Phases(run.a), kind)

StartPhase(kind) ==
    /\ L!StartPhase(Task, run.a, kind)
    /\ notes' = [notes EXCEPT ![run.a].bases = Append(@, None)]

\* SeedCrossCycleExecuteFromParent; a failure fails the task and leaves the new
\* attempt open (FailTaskAfterRetryPrep).
SeedStart ==
    /\ run.at = "seedStart"
    /\ \/ StartPhase("execute") /\ Go("seedComplete") /\ UNCHANGED spent
       \/ Fault /\ Go("failTask") /\ UNCHANGED <<cycles, notes>>
    /\ UNCHANGED <<row, pending, completions, tree>>

SeedComplete ==
    /\ run.at = "seedComplete"
    /\ \/ /\ L!CompletePhase(Task, run.a, 1, "succeeded")
          /\ LET parent == run.retry.parent
             IN  notes' = [notes EXCEPT ![run.a].bases[1] = notes[parent].bases[Max(Executes(parent))]]
          /\ Go("mirror")
          /\ UNCHANGED spent
       \/ Fault /\ Go("failTask") /\ UNCHANGED <<cycles, notes>>
    /\ UNCHANGED <<row, pending, completions, tree>>

MirrorParentCriteria ==
    /\ run.at = "mirror"
    /\ \/ Go("snapshot") /\ UNCHANGED spent
       \/ Fault /\ Go("failTask")
    /\ UNCHANGED <<cycles, notes, row, pending, completions, tree>>

\* loadVerificationSnapshot: callers drop the error and go on with an empty
\* snapshot, that is with verification off.
LoadSnapshot ==
    /\ run.at = "snapshot"
    /\ \E off \in BOOLEAN :
          /\ IF off THEN Fault ELSE UNCHANGED spent
          /\ run' = [run EXCEPT !.at = IF run.skip THEN "verify" ELSE "execute",
                                !.retry = NoRetry, !.seed = FALSE, !.skip = FALSE, !.off = off]
          /\ notes' = [notes EXCEPT ![run.a].off = off]
    /\ UNCHANGED <<cycles, row, pending, completions, tree>>

-----------------------------------------------------------------------------
(* runCycleLoopExecute.                                                      *)

StartExecute ==
    /\ run.at = "execute"
    /\ \/ /\ StartPhase("execute")
          /\ run' = [run EXCEPT !.at = "agent", !.head = tree]
          /\ UNCHANGED spent
       \/ /\ Fails(Refused("execute"))
          /\ run' = Aborting("abortCycle", "failed")
          /\ UNCHANGED <<cycles, notes>>
    /\ UNCHANGED <<row, pending, completions, tree>>

\* captureExecuteGitSnapshot fails.
GitProbeFails ==
    /\ run.at = "agent"
    /\ Fault
    /\ run' = Aborting("abortPhase", "failed")
    /\ UNCHANGED <<cycles, notes, row, pending, completions, tree>>

\* The runner returns: it may have committed, and the report may name the
\* commit, which is then indexed.  The run went well, or it failed (error,
\* operator cancel, a commit that does not exist), or the context is dead, or
\* the runner panicked.
RunAgent ==
    /\ run.at = "agent"
    /\ \E commit \in BOOLEAN, claimed \in BOOLEAN, result \in {"ok", "failed", "shutdown", "panic"} :
          /\ claimed => commit /\ result = "ok"
          /\ tree' = IF commit THEN Append(tree, run.a) ELSE tree
          /\ notes' = [notes EXCEPT ![run.a].commits = IF claimed THEN @ \cup {tree'} ELSE @]
          /\ run' = CASE result = "ok" -> [run EXCEPT !.at = "completeExecute", !.ok = TRUE]
                      [] result = "failed" -> [run EXCEPT !.at = "completeExecute", !.ok = FALSE]
                      [] result = "shutdown" -> Aborting("abortPhase", "aborted")
                      [] result = "panic" -> Aborting("abortPhase", "failed")
    /\ UNCHANGED <<cycles, row, pending, completions, spent>>

\* priorCycleBaseSHA: the details of the first earlier execute phase, or HEAD
\* at the start of this one.
CycleBase ==
    IF FirstBase(run.a) # {} THEN CHOOSE base \in FirstBase(run.a) : TRUE ELSE run.head

\* completeExecutePhase with the git details, and anchorPostExecuteState.
CompleteExecute ==
    /\ run.at = "completeExecute"
    /\ LET p == Len(Phases(run.a))
       IN  \/ /\ L!CompletePhase(Task, run.a, p, IF run.ok THEN "succeeded" ELSE "failed")
              /\ notes' = [notes EXCEPT ![run.a].bases[p] = CycleBase]
              /\ run' = IF run.ok THEN [run EXCEPT !.at = "verify", !.reached = TRUE, !.head = None]
                                  ELSE Closing("failed")
              /\ UNCHANGED spent
           \/ /\ Fault
              /\ run' = Aborting("abortCycle", "failed")
              /\ UNCHANGED <<cycles, notes>>
    /\ UNCHANGED <<row, pending, completions, tree>>

-----------------------------------------------------------------------------
(* runCycleLoopVerify and RunPipeline.                                       *)

Locked == DOMAIN run.passed
Unlocked == Criteria \ Locked

\* applyVerifyEffects: is there another pass in the budget?
MayRetry == run.attempt < world.retries

\* What follows a pass that failed: back to execute, or to verify alone, which
\* takes an execute in this process and a failure without verdicts (ADR-0028);
\* the report may be invalid.
AfterFailedVerify(judged) ==
    IF ~MayRetry
    THEN {Closing("failed")}
    ELSE {[run EXCEPT !.at = at, !.attempt = @ + 1] :
            at \in {"execute"} \cup (IF run.reached /\ ~judged THEN {"verify"} ELSE {})}

StartVerify ==
    /\ run.at = "verify"
    /\ ~run.off
    /\ \/ StartPhase("verify") /\ Go("checks") /\ UNCHANGED spent
       \/ /\ Fails(Refused("verify"))
          /\ run' \in AfterFailedVerify(FALSE)
          /\ UNCHANGED <<cycles, notes>>
    /\ UNCHANGED <<row, pending, completions, tree>>

LockWith(verdict, S) ==
    [c \in Locked \cup S |-> IF c \in Locked THEN run.passed[c] ELSE verdict]

\* Verdicts kept without what the agent said for them.
LockWithoutEvidence(S) == LockWith([ev |-> FALSE, at |-> tree], S)

\* recordPassedCriterionVerdicts.
Lock(S) == LockWith([ev |-> TRUE, at |-> tree], S)

\* runVerifyChecks: verdicts on every criterion that is not locked, persisted
\* before the integrity check (a failure to is only logged), or a failure of the
\* pass itself, or a panic.
Checks ==
    /\ run.at = "checks"
    /\ \/ \E good \in SUBSET Unlocked, saved \in BOOLEAN :
             LET seq == run.attempt + 1
                 new == {[c |-> c, seq |-> seq, ok |-> c \in good,
                         at |-> IF c \in good THEN tree ELSE None] : c \in Unlocked}
             IN  /\ IF saved THEN UNCHANGED spent ELSE Fault
                 /\ notes' = IF saved
                             THEN [notes EXCEPT ![run.a].rows =
                                     {r \in @ : r.seq # seq \/ r.c \notin Unlocked} \cup new]
                             ELSE [notes EXCEPT ![run.a].unsaved = TRUE]
                 /\ run' = [run EXCEPT !.passed = Lock(good), !.ok = good = Unlocked,
                                       !.at = IF saved THEN "judged" ELSE "unsaved"]
       \/ /\ run' \in {[run EXCEPT !.ok = FALSE, !.at = "infra"], Aborting("abortPhase", "failed")}
          /\ UNCHANGED <<notes, spent>>
    /\ UNCHANGED <<cycles, row, pending, completions, tree>>

\* The integrity check, the phase row (its error is only logged), and the
\* decision.
CompleteVerify ==
    /\ run.at \in {"judged", "unsaved", "infra"}
    /\ \E tampered \in BOOLEAN, stored \in BOOLEAN :
          LET good == run.ok /\ ~tampered
          IN  /\ IF stored
                 THEN /\ L!CompletePhase(Task, run.a, Len(Phases(run.a)),
                                         IF good THEN "succeeded" ELSE "failed")
                      /\ UNCHANGED spent
                 ELSE Fault /\ UNCHANGED cycles
              /\ notes' = [notes EXCEPT ![run.a].judged = IF stored /\ run.at # "infra" THEN @ + 1 ELSE @]
              /\ IF good THEN run' = [run EXCEPT !.at = "finalize", !.left = Locked]
                 ELSE IF tampered THEN run' = Closing("failed")
                 ELSE run' \in AfterFailedVerify(run.at # "infra")
    /\ UNCHANGED <<row, pending, completions, tree>>

-----------------------------------------------------------------------------
(* Completions.                                                              *)

\* SetDoneWithEvidenceInTx: the row of the criterion, inserted or replaced.
Completed(c, by, at) ==
    [d \in {c} \cup DOMAIN completions |->
        IF d = c THEN [a |-> run.a, by |-> by, at |-> at] ELSE completions[d]]

\* CompleteChecklistLegacy, item by item.
CompleteLegacy ==
    /\ run.at = "verify"
    /\ run.off
    /\ \/ \E c \in Criteria \ DOMAIN completions :
             /\ completions' = Completed(c, "legacy", tree)
             /\ UNCHANGED <<run, spent>>
       \/ /\ Criteria \subseteq DOMAIN completions
          /\ run' = [run EXCEPT !.at = "finalize", !.left = Locked]
          /\ UNCHANGED <<completions, spent>>
       \/ /\ Criteria \ DOMAIN completions # {}
          /\ Fault
          /\ run' = Closing("failed")
          /\ UNCHANGED completions
    /\ UNCHANGED <<cycles, notes, row, pending, tree>>

\* Evidence not asked for.
AcceptedAnyway(verdict) == TRUE

\* validateEvidencePayload, for a verdict that is not legacy.
Accepted(verdict) == verdict.ev

\* ApplyVerifiedCompletions: the union of the verdicts in map order, each in a
\* transaction of its own; the first error ends it.
ApplyCompletion ==
    /\ run.at = "finalize"
    /\ \E c \in run.left :
          \/ /\ Accepted(run.passed[c])
             /\ completions' = Completed(c, "verifier", run.passed[c].at)
             /\ run' = [run EXCEPT !.left = @ \ {c}]
             /\ UNCHANGED spent
          \/ /\ Fails(~Accepted(run.passed[c]))
             /\ run' = Closing("failed")
             /\ UNCHANGED completions
    /\ UNCHANGED <<cycles, notes, row, pending, tree>>

FinalizeSuccess ==
    /\ run.at = "finalize"
    /\ run.left = {}
    /\ run' = Closing("succeeded")
    /\ UNCHANGED <<cycles, notes, row, pending, completions, tree, spent>>

-----------------------------------------------------------------------------
(* Closing.                                                                  *)

\* terminateCycle: an error ends the run with the task running.
Close ==
    /\ run.at = "close"
    /\ \/ L!Terminate(Task, run.a, run.result) /\ Go("settle") /\ UNCHANGED spent
       \/ /\ Fails(L!HasRunningPhase(Task, run.a))
          /\ run' = Idle
          /\ UNCHANGED cycles
    /\ UNCHANGED <<notes, row, pending, completions, tree>>

\* transitionTask, whatever the row says by now. Done is not refused: the
\* checklist stands still here, and every item has its completion.
Settle ==
    /\ run.at = "settle"
    /\ \/ row' = (IF run.result = "succeeded" THEN "done" ELSE "failed") /\ UNCHANGED spent
       \/ Fault /\ UNCHANGED row
    /\ run' = Idle
    /\ UNCHANGED <<cycles, notes, pending, completions, tree>>

\* bestEffortTerminate, handleShutdownAfterRun, recoverFromPanic: the phase,
\* if the run still points to it, without details, then the attempt and the
\* task; errors are logged and the next call is made.
AbortPhase ==
    /\ run.at = "abortPhase"
    /\ \/ L!CompletePhase(Task, run.a, Len(Phases(run.a)), "failed") /\ UNCHANGED spent
       \/ Fault /\ UNCHANGED cycles
    /\ Go("abortCycle")
    /\ UNCHANGED <<notes, row, pending, completions, tree>>

AbortCycle ==
    /\ run.at = "abortCycle"
    /\ \/ L!Terminate(Task, run.a, run.result) /\ UNCHANGED spent
       \/ Fails(L!HasRunningPhase(Task, run.a)) /\ UNCHANGED cycles
    /\ Go("failTask")
    /\ UNCHANGED <<notes, row, pending, completions, tree>>

\* bestEffortFailTask and FailTaskAfterRetryPrep.
FailTask ==
    /\ run.at = "failTask"
    /\ \/ row' = "failed" /\ UNCHANGED spent
       \/ Fault /\ UNCHANGED row
    /\ run' = Idle
    /\ UNCHANGED <<cycles, notes, pending, completions, tree>>

\* The process dies and FinalizeInterruptedPhases sweeps.
Restart ==
    /\ run.at # "idle" \/ \E a \in DOMAIN Attempts : L!HasRunningPhase(Task, a)
    /\ Spend("crashes")
    /\ run' = Idle
    /\ IF \E a \in DOMAIN Attempts : L!HasRunningPhase(Task, a)
       THEN L!CompletePhase(Task, Len(Attempts), Len(Phases(Len(Attempts))), "interrupted")
       ELSE UNCHANGED cycles
    /\ UNCHANGED <<notes, row, pending, completions, tree>>

-----------------------------------------------------------------------------
Execute == StartExecute \/ GitProbeFails \/ RunAgent \/ CompleteExecute
Verify == StartVerify \/ Checks \/ CompleteVerify
Finish == CompleteLegacy \/ ApplyCompletion \/ FinalizeSuccess \/ Close \/ Settle
Abort == AbortPhase \/ AbortCycle \/ FailTask

Next ==
    \/ \E mode \in {"fresh", "resume"} : \E parent \in DOMAIN Attempts :
          RequestTaskRetry(mode, parent)
    \/ \E to \in {"ready", "running", "failed", "done"} : PatchStatus(to)
    \/ Pickup \/ Resume
    \/ ResetForFreshRetry \/ LoadCheckpointFromParent
    \/ StartCycle \/ SeedStart \/ SeedComplete \/ MirrorParentCriteria
    \/ LoadSnapshot
    \/ Execute \/ Verify \/ Finish \/ Abort
    \/ Restart

Spec == Init /\ [][Next /\ UNCHANGED world]_vars

-----------------------------------------------------------------------------
(* Properties.                                                               *)

Restored == {a \in DOMAIN notes : notes[a].restored}

(* ADR-0015, start over: "discard the failed attempt's git/worktree delta    *)
(* and run again from a clean tree."  Whatever the parent committed, in any  *)
(* of its execute phases, is gone when the new attempt opens, unless its     *)
(* first execute phase was cut off before it could record its base.          *)
StartOverIsClean ==
    LET parent == run.retry.parent
    IN  run.at = "startCycle" /\ run.retry.mode = "fresh" =>
            \/ \A i \in DOMAIN tree : tree[i] # parent
            \/ FirstBase(parent) = {}

(* The budget of verify passes holds for an attempt across restarts: passes  *)
(* that gave verdicts and were finished are at most one more than the        *)
(* retries, wherever the process died in between. The exception is a restart *)
(* after a pass whose rows could not be saved: checks.go:85 logs the error   *)
(* and goes on, and a resumed run counts on from the rows (checkpoint.go:62).*)
VerifyBudget ==
    \A a \in DOMAIN notes :
        notes[a].judged <= world.retries + 1 \/ (notes[a].unsaved /\ notes[a].resumed)

(* A run that has closed its attempt as succeeded and comes to write done    *)
(* has a completion for every criterion, given in this attempt on a verdict  *)
(* about a revision that is still part of the branch.  The exception is an   *)
(* attempt whose snapshot could not be read and which therefore ran without  *)
(* verification.  A done that an operator writes rests on the completions of *)
(* any attempt (PatchStatus).                                                *)
DoneIsBacked ==
    run.at = "settle" /\ run.result = "succeeded" /\ ~notes[run.a].off =>
        \A c \in Criteria :
            /\ c \in DOMAIN completions
            /\ completions[c].a = run.a
            /\ IsPrefix(completions[c].at, tree)

(* docs/domain/done-criteria.md: when all pass the task is done, and no      *)
(* completion comes from a failed attempt.  An attempt closed as failed has  *)
(* no completion and did not end in a verify pass that succeeded, except     *)
(* that it had locked a criterion from verdict rows, which come back without *)
(* the evidence finalize asks for, or a store call failed.                   *)
FailedAttemptIsBlank ==
    \A a \in DOMAIN notes :
        Attempts[a].status = "failed" =>
            \/ a \in Restored
            \/ spent.faults > 0
            \/ /\ \A c \in DOMAIN completions : completions[c].a # a
               /\ \A p \in DOMAIN Phases(a) :
                     ~(p = Len(Phases(a)) /\ Phases(a)[p].kind = "verify"
                                          /\ Phases(a)[p].status = "succeeded")
=============================================================================

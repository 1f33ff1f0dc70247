---------------------------- MODULE WorkerPool -----------------------------
(* The worker pool of pkgs/agents/worker and the run it drives: slots take   *)
(* task ids from the queue, reload the row, admit it under the gate of its   *)
(* worktree, and hand it to the harness, which opens a cycle, alternates     *)
(* execute and verify phases, closes the cycle and settles the task.  Around *)
(* them: the reconcile loop, the pickup wakes, the operator's HTTP calls,    *)
(* and a crash of the process.                                               *)
(*                                                                           *)
(* The queue is an instance of MemoryQueue and the execution rows one of     *)
(* CycleLedger.  A store call is one step, so everything a slot does between *)
(* two store calls can be overtaken.  Store calls fail only by their own     *)
(* guards; lost connections and the supervisor's hot swap are not here.      *)
EXTENDS Naturals, Sequences, FiniteSets

CONSTANTS
    Tasks, Slots, Worktrees,
    NoTask, NoSlot,
    Home,           \* Home[t]: the worktree task t is created with
    Cap,            \* queue capacity
    MaxRetries,     \* verify retries inside one cycle (app settings)
    MaxAttempts, MaxPhases,     \* bounds of the ledger, never reached here
    MaxOps,         \* bound: operator PATCH and retry calls
    MaxRebinds,     \* bound: operator PATCH calls that set worktree_id
    MaxCrashes,     \* bound: crashes of the process
    MaxEvents,      \* bound: operator calls, rebinds and crashes together
    LongDelays      \* timing: the 5 s and 60 s deferrals outlast admission

ASSUME NamesAssumption == NoTask \notin Tasks /\ NoSlot \notin Slots
ASSUME HomeAssumption == Home \in [Tasks -> Worktrees]
ASSUME LimitsAssumption ==
    /\ Cap \in Nat \ {0}
    /\ {MaxRetries, MaxAttempts, MaxPhases, MaxOps, MaxRebinds, MaxCrashes,
        MaxEvents} \subseteq Nat
    /\ LongDelays \in BOOLEAN

VARIABLES
    ch, pending, pc, held,  \* the queue, as in MemoryQueue
    cycles,                 \* the execution ledger, as in CycleLedger
    row,                    \* row[t]: the tasks row
    wake,                   \* tasks with a timer in the PickupWakeScheduler
    gate,                   \* gate[w]: the slot that holds worktree w's mutex
    slot,                   \* slot[s]: locals of the processOne call s is in
    by,                     \* by[t]: history, who wrote the status of t last
    ops, rebinds, crashes   \* counters for the bounds

Q == INSTANCE MemoryQueue
        WITH Ids <- Tasks, Consumers <- Slots, NoId <- NoTask, MaxSwaps <- 0,
             cancelled <- [s \in Slots |-> FALSE], swaps <- 0,
             loading <- {s \in Slots : slot[s].at = "reload"},
             owed <- {}, dropped <- {}
L == INSTANCE CycleLedger

buffer == <<ch, pending>>
queue == <<ch, pending, pc, held>>
tasks == <<row, wake, by>>
bounds == <<ops, rebinds, crashes>>
vars == <<queue, cycles, tasks, gate, slot, bounds>>

Statuses == {"ready", "running", "on_hold", "done", "failed"}

\* row[t].status: absent, ready, running, done, failed, on_hold; wt:
\* worktree_id; later: pickup_not_before lies in the future.
\* by[t]: agent, operator, or refused when the agent wrote done last and was
\* refused, which leaves the row as it was.

\* Where a slot is in processOne, in the order of the code.
Admission == {"reload", "openCycle", "lock", "tryLock", "defer", "pickup"}
Run == {"prepFresh", "prepResume", "startCycle", "resume", "startExecute", "execute",
        "startVerify", "verify", "terminate", "settle", "abort", "failTask"}

\* slot[s]: at: place (none, one of the above, or unlock); wt: worktree of the
\* reloaded row, then of the picked row; cyc: attempt being driven; ph: phase
\* opened; tries: verify retries used; out: verdict for the cycle.
Idle == [at |-> "none", wt |-> CHOOSE w \in Worktrees : TRUE, cyc |-> 0, ph |-> 0,
         tries |-> 0, out |-> "none"]

Init ==
    /\ slot = [s \in Slots |-> Idle]
    /\ Q!Init
    /\ L!Init
    /\ row = [t \in Tasks |-> [status |-> "absent", wt |-> Home[t], later |-> FALSE]]
    /\ wake = {}
    /\ by = [t \in Tasks |-> "operator"]
    /\ gate = [w \in Worktrees |-> NoSlot]
    /\ ops = 0 /\ rebinds = 0 /\ crashes = 0

-----------------------------------------------------------------------------
(* The store facade: a row update, then what the scheduling decision does    *)
(* with the pickup timer and the queue.                                      *)

\* NotifyReadyTask; every caller ignores ErrAlreadyQueued and ErrQueueFull.
Notify(t) == Q!Accept(t) \/ (Q!QueueFull(t) /\ UNCHANGED buffer)

\* DecideNotifyAfterReadyTransition and applyNotifyDecision.
ApplyNotifyDecision(t, prev, new, pickupTouched) ==
    IF new.status # "ready"
    THEN wake' = wake \ {t} /\ UNCHANGED buffer
    ELSE IF new.later
    THEN wake' = wake \cup {t} /\ UNCHANGED buffer
    ELSE /\ wake' = wake \ {t}
         /\ IF prev # "ready" \/ pickupTouched THEN Notify(t) ELSE UNCHANGED buffer

Update(t, new, pickupTouched) ==
    /\ row' = [row EXCEPT ![t] = new]
    /\ ApplyNotifyDecision(t, row[t].status, new, pickupTouched)

SetStatus(t, status, who) ==
    /\ Update(t, [row[t] EXCEPT !.status = status], FALSE)
    /\ by' = [by EXCEPT ![t] = who]

-----------------------------------------------------------------------------
(* Operators, clock, reconcile loop.                                         *)

EventAllowed == ops + rebinds + crashes < MaxEvents

Create(t) ==
    /\ row[t].status = "absent"
    /\ SetStatus(t, "ready", "operator")
    /\ UNCHANGED <<pc, held, cycles, gate, slot, bounds>>

\* PATCH status: any status, whatever the task is doing.  (done may be refused
\* over an open criterion, and then nothing happens.)
PatchStatus(t, status) ==
    /\ ops < MaxOps /\ EventAllowed
    /\ row[t].status \notin {"absent", status}
    /\ SetStatus(t, status, "operator")
    /\ ops' = ops + 1
    /\ UNCHANGED <<pc, held, cycles, gate, slot, rebinds, crashes>>

\* RequestTaskRetry, fresh mode.
Retry(t) ==
    /\ ops < MaxOps /\ EventAllowed
    /\ row[t].status = "failed"
    /\ \E a \in DOMAIN cycles[t] : cycles[t][a].status # "running"
    /\ SetStatus(t, "ready", "operator")
    /\ ops' = ops + 1
    /\ UNCHANGED <<pc, held, cycles, gate, slot, rebinds, crashes>>

\* PATCH worktree_id, allowed whatever the task is doing.
Rebind(t, w) ==
    /\ rebinds < MaxRebinds /\ EventAllowed
    /\ row[t].status # "absent"
    /\ row[t].wt # w
    /\ Update(t, [row[t] EXCEPT !.wt = w], FALSE)
    /\ rebinds' = rebinds + 1
    /\ UNCHANGED <<by, pc, held, cycles, gate, slot, ops, crashes>>

\* Nobody is between a pop and the end of admission, or could pop.
AdmissionAtRest ==
    \A s \in Slots : /\ pc[s] # "recv" /\ slot[s].at \notin Admission \ {"lock"}
                     /\ pc[s] = "idle" => ch = <<>>

\* pickup_not_before is reached.  Under LongDelays a deferral of seconds is
\* not over before the admission steps in progress are.
PickupDue(t) ==
    /\ row[t].later
    /\ LongDelays => AdmissionAtRest
    /\ row' = [row EXCEPT ![t].later = FALSE]
    /\ UNCHANGED <<queue, cycles, wake, by, gate, slot, bounds>>

\* PickupWakeScheduler.fire and tryNotify.
WakeFires(t) ==
    /\ t \in wake
    /\ ~row[t].later
    /\ wake' = wake \ {t}
    /\ IF row[t].status = "ready" THEN Notify(t) ELSE UNCHANGED buffer
    /\ UNCHANGED <<pc, held, cycles, row, by, gate, slot, bounds>>

\* A pass that leaves ready tasks to the notifications.
ReconcileRunningOnly(t) ==
    /\ row[t].status = "running" /\ L!HasRunningCycle(t)
    /\ Q!Accept(t)
    /\ UNCHANGED <<pc, held, cycles, tasks, gate, slot, bounds>>

\* One task of a reconcile pass: a due ready task, or a running task with an
\* open cycle, is offered to the queue.
Reconcile(t) ==
    /\ \/ row[t].status = "ready" /\ ~row[t].later
       \/ row[t].status = "running" /\ L!HasRunningCycle(t)
    /\ Q!Accept(t)
    /\ UNCHANGED <<pc, held, cycles, tasks, gate, slot, bounds>>

-----------------------------------------------------------------------------
(* Admission: processOne up to the harness.                                  *)

At(s, place) == pc[s] = "busy" /\ slot[s].at = place
Goto(s, place) == slot' = [slot EXCEPT ![s].at = place]

RecvPop(s) ==
    /\ UNCHANGED <<cycles, tasks, gate, slot, bounds>>
    /\ Q!RecvPop(s)

RecvDelete(s) ==
    /\ slot' = [slot EXCEPT ![s] = [Idle EXCEPT !.at = "reload"]]
    /\ Q!RecvDelete(s)
    /\ UNCHANGED <<cycles, tasks, gate, bounds>>

\* reloadTask, the switch on the status, the pickup time of the fresh row.
Reload(s) ==
    LET fresh == row[held[s]]
    IN  /\ At(s, "reload")
        /\ slot' = [slot EXCEPT
              ![s].wt = fresh.wt,
              ![s].at = IF fresh.status = "running" THEN "openCycle"
                        ELSE IF fresh.status # "ready" THEN "unlock"
                        ELSE IF fresh.later THEN "defer" ELSE "tryLock"]
        /\ UNCHANGED <<queue, cycles, tasks, gate, bounds>>

\* openRunningCycle.
OpenRunningCycle(s) ==
    /\ At(s, "openCycle")
    /\ \/ \E a \in DOMAIN cycles[held[s]] :
            /\ cycles[held[s]][a].status = "running"
            /\ slot' = [slot EXCEPT ![s].cyc = a, ![s].at = "lock"]
       \/ ~L!HasRunningCycle(held[s]) /\ Goto(s, "unlock")
    /\ UNCHANGED <<queue, cycles, tasks, gate, bounds>>

\* Resume admission without the gate.
LockIgnored(s) ==
    /\ At(s, "lock")
    /\ Goto(s, "prepResume")
    /\ UNCHANGED <<queue, cycles, tasks, gate, bounds>>

\* gate.Lock on the worktree of the reloaded row.
Lock(s) ==
    /\ At(s, "lock")
    /\ gate[slot[s].wt] = NoSlot
    /\ gate' = [gate EXCEPT ![slot[s].wt] = s]
    /\ Goto(s, "prepResume")
    /\ UNCHANGED <<queue, cycles, tasks, bounds>>

\* Ready admission without the gate.
TryLockIgnored(s) ==
    /\ At(s, "tryLock")
    /\ Goto(s, "pickup")
    /\ UNCHANGED <<queue, cycles, tasks, gate, bounds>>

TryLock(s) ==
    /\ At(s, "tryLock")
    /\ IF gate[slot[s].wt] = NoSlot
       THEN gate' = [gate EXCEPT ![slot[s].wt] = s] /\ Goto(s, "pickup")
       ELSE Goto(s, "defer") /\ UNCHANGED gate
    /\ UNCHANGED <<queue, cycles, tasks, bounds>>

\* deferTaskPickup: pickup_not_before = now + delay, whatever the status.
Defer(s) ==
    /\ At(s, "defer")
    /\ Update(held[s], [row[held[s]] EXCEPT !.later = TRUE], TRUE)
    /\ Goto(s, "unlock")
    /\ UNCHANGED <<pc, held, cycles, by, gate, bounds>>

\* AgentPickup.  The run uses the worktree of the row it returns.
AgentPickup(s) ==
    /\ At(s, "pickup")
    /\ IF row[held[s]].status = "ready"
       THEN /\ row' = [row EXCEPT ![held[s]].status = "running"]
            /\ by' = [by EXCEPT ![held[s]] = "agent"]
            /\ slot' = [slot EXCEPT ![s].at = "prepFresh", ![s].wt = row[held[s]].wt]
       ELSE Goto(s, "unlock") /\ UNCHANGED <<row, by>>
    /\ UNCHANGED <<queue, cycles, wake, gate, bounds>>

\* A failed preparation that returns without failing the task.
GitPrepGivesUp(s) ==
    /\ \/ At(s, "prepFresh") /\ Goto(s, "startCycle")
       \/ At(s, "prepResume") /\ Goto(s, "resume")
       \/ (At(s, "prepFresh") \/ At(s, "prepResume")) /\ Goto(s, "unlock")
    /\ UNCHANGED <<queue, cycles, tasks, gate, bounds>>

\* runWithGitPrep, and the git reset of a fresh retry: either may fail.
GitPrep(s) ==
    /\ \/ At(s, "prepFresh") /\ Goto(s, "startCycle")
       \/ At(s, "prepResume") /\ Goto(s, "resume")
       \/ (At(s, "prepFresh") \/ At(s, "prepResume")) /\ Goto(s, "failTask")
    /\ UNCHANGED <<queue, cycles, tasks, gate, bounds>>

\* An early return that forgets its deferred unlock.
UnlockForgotten(s) ==
    /\ At(s, "unlock")
    /\ slot' = [slot EXCEPT ![s] = Idle]
    /\ Q!Ack(s)
    /\ UNCHANGED <<cycles, tasks, gate, bounds>>

\* The deferred calls of processOne: unlock (if the slot holds a gate), ack.
Finish(s) ==
    /\ At(s, "unlock")
    /\ gate' = [w \in Worktrees |-> IF gate[w] = s THEN NoSlot ELSE gate[w]]
    /\ slot' = [slot EXCEPT ![s] = Idle]
    /\ Q!Ack(s)
    /\ UNCHANGED <<cycles, tasks, bounds>>

-----------------------------------------------------------------------------
(* The harness.  Open phases are closed and cycles terminated through the    *)
(* ledger, whose guards may refuse when somebody else moved the rows.        *)

MyPhases(s) == cycles[held[s]][slot[s].cyc].phases
PhaseIsMine(s) == MyPhases(s)[slot[s].ph].status = "running"

ledgerOnly == <<queue, tasks, gate, bounds>>

StartCycle(s) ==
    /\ At(s, "startCycle")
    /\ IF L!HasRunningCycle(held[s])
       THEN Goto(s, "failTask") /\ UNCHANGED cycles
       ELSE /\ L!StartCycle(held[s])
            /\ slot' = [slot EXCEPT ![s].cyc = Len(cycles[held[s]]) + 1,
                                    ![s].at = "startExecute"]
    /\ UNCHANGED ledgerOnly

\* Verify attempts with a stored report; an interrupted verify may have
\* stored its own before it was cut.
Reported(phases) ==
    LET closed == {p \in DOMAIN phases : phases[p].kind = "verify"
                                         /\ phases[p].status # "interrupted"}
        cut == {p \in DOMAIN phases : phases[p].kind = "verify"
                                      /\ phases[p].status = "interrupted"}
    IN  {Cardinality(closed) + n : n \in 0..Cardinality(cut)}

\* Resume and ReconstructCheckpoint, on the phases as they are now.
Resume(s) ==
    LET phases == MyPhases(s)
        last == phases[Len(phases)]
        stuck == phases = <<>> \/ L!HasRunningPhase(held[s], slot[s].cyc)
        entry == IF stuck THEN "failTask"
                 ELSE IF last.status = "interrupted" /\ last.kind = "execute"
                 THEN "startExecute"
                 ELSE IF last.status = "interrupted"
                 THEN "startVerify"
                 ELSE IF last.kind = "execute" /\ last.status = "succeeded"
                 THEN "startVerify"
                 ELSE "failTask"
    IN  /\ At(s, "resume")
        /\ \E n \in Reported(phases) :
              slot' = [slot EXCEPT ![s].at = entry, ![s].tries = n]
        /\ UNCHANGED <<cycles, ledgerOnly>>

CanStart(s, kind) ==
    /\ cycles[held[s]][slot[s].cyc].status = "running"
    /\ ~L!HasRunningPhase(held[s], slot[s].cyc)
    /\ L!MayAppend(MyPhases(s), kind)

StartExecute(s) ==
    /\ At(s, "startExecute")
    /\ IF CanStart(s, "execute")
       THEN /\ L!StartPhase(held[s], slot[s].cyc, "execute")
            /\ slot' = [slot EXCEPT ![s].ph = Len(MyPhases(s)) + 1, ![s].at = "execute"]
       ELSE Goto(s, "abort") /\ UNCHANGED cycles
    /\ UNCHANGED ledgerOnly

\* The runner returns: success goes on to verify, a failure terminates the
\* cycle, and a panic or a failed preparation cleans up through "abort".  A
\* refused CompletePhase also ends in "abort".
ExecuteReturns(s) ==
    /\ At(s, "execute")
    /\ IF PhaseIsMine(s)
       THEN \/ /\ L!CompletePhase(held[s], slot[s].cyc, slot[s].ph, "succeeded")
               /\ Goto(s, "startVerify")
            \/ /\ L!CompletePhase(held[s], slot[s].cyc, slot[s].ph, "failed")
               /\ \/ slot' = [slot EXCEPT ![s].at = "terminate", ![s].out = "failed"]
                  \/ Goto(s, "abort")
       ELSE Goto(s, "abort") /\ UNCHANGED cycles
    /\ UNCHANGED ledgerOnly

\* DecideVerifyRetryWithValidity: retry with or without another execute
\* while attempts are left, else a failed cycle.
AfterFailedVerify(s) ==
    IF slot[s].tries < MaxRetries
    THEN \E next \in {"startExecute", "startVerify"} :
            slot' = [slot EXCEPT ![s].tries = @ + 1, ![s].at = next]
    ELSE slot' = [slot EXCEPT ![s].at = "terminate", ![s].out = "failed"]

\* RunPipeline, its StartPhase: an error counts as a failed verification.
StartVerify(s) ==
    /\ At(s, "startVerify")
    /\ IF CanStart(s, "verify")
       THEN /\ L!StartPhase(held[s], slot[s].cyc, "verify")
            /\ slot' = [slot EXCEPT ![s].ph = Len(MyPhases(s)) + 1, ![s].at = "verify"]
       ELSE AfterFailedVerify(s) /\ UNCHANGED cycles
    /\ UNCHANGED ledgerOnly

\* A refused CompletePhase(verify) is only logged.
CloseVerify(s, status) ==
    IF PhaseIsMine(s)
    THEN L!CompletePhase(held[s], slot[s].cyc, slot[s].ph, status)
    ELSE UNCHANGED cycles

VerifyReturns(s) ==
    /\ At(s, "verify")
    /\ \/ /\ CloseVerify(s, "succeeded")
          /\ \E out \in {"succeeded", "failed"} :     \* applyVerifiedCompletions
                slot' = [slot EXCEPT ![s].at = "terminate", ![s].out = out]
       \/ CloseVerify(s, "failed") /\ AfterFailedVerify(s)
       \/ CloseVerify(s, "failed") /\ Goto(s, "abort")            \* panic
       \/ /\ CloseVerify(s, "failed")                               \* tampered
          /\ slot' = [slot EXCEPT ![s].at = "terminate", ![s].out = "failed"]
    /\ UNCHANGED ledgerOnly

CanTerminate(s) ==
    /\ cycles[held[s]][slot[s].cyc].status = "running"
    /\ ~L!HasRunningPhase(held[s], slot[s].cyc)

\* terminateCycle skipped: the task is settled over an open cycle.
TerminateSkipped(s) ==
    /\ At(s, "terminate")
    /\ Goto(s, "settle")
    /\ UNCHANGED cycles
    /\ UNCHANGED ledgerOnly

\* terminateCycle: when the store refuses, the task keeps its status.
Terminate(s) ==
    /\ At(s, "terminate")
    /\ IF CanTerminate(s)
       THEN L!Terminate(held[s], slot[s].cyc, slot[s].out) /\ Goto(s, "settle")
       ELSE Goto(s, "unlock") /\ UNCHANGED cycles
    /\ UNCHANGED ledgerOnly

\* transitionTask.  ValidateCanMarkDoneInTx refuses done over a criterion that
\* is not complete; the refusal is logged, and the task keeps its status.
Settle(s) ==
    /\ At(s, "settle")
    /\ \/ SetStatus(held[s], IF slot[s].out = "succeeded" THEN "done" ELSE "failed", "agent")
       \/ /\ slot[s].out = "succeeded"
          /\ by' = [by EXCEPT ![held[s]] = "refused"]
          /\ UNCHANGED <<buffer, row, wake>>
    /\ Goto(s, "unlock")
    /\ UNCHANGED <<pc, held, cycles, gate, bounds>>

\* bestEffortTerminate and recoverFromPanic: close the cycle if it can be
\* closed, and fail the task in any case.
Abort(s) ==
    /\ At(s, "abort")
    /\ IF CanTerminate(s)
       THEN L!Terminate(held[s], slot[s].cyc, "failed")
       ELSE UNCHANGED cycles
    /\ Goto(s, "failTask")
    /\ UNCHANGED ledgerOnly

\* bestEffortFailTask, abortRunningFromGitPrep, FailTaskAfterRetryPrep.
FailTask(s) ==
    /\ At(s, "failTask")
    /\ SetStatus(held[s], "failed", "agent")
    /\ Goto(s, "unlock")
    /\ UNCHANGED <<pc, held, cycles, gate, bounds>>

-----------------------------------------------------------------------------
\* FinalizeInterruptedPhases over every phase still running.
Finalized(phases) ==
    [p \in DOMAIN phases |-> IF phases[p].status = "running"
                             THEN [phases[p] EXCEPT !.status = "interrupted"]
                             ELSE phases[p]]

\* A restart without the sweep.
CrashUnswept ==
    /\ crashes < MaxCrashes /\ EventAllowed
    /\ crashes' = crashes + 1
    /\ ch' = <<>> /\ pending' = {}
    /\ pc' = [s \in Slots |-> "idle"] /\ held' = [s \in Slots |-> NoTask]
    /\ slot' = [s \in Slots |-> Idle]
    /\ gate' = [w \in Worktrees |-> NoSlot]
    /\ wake' = {t \in Tasks : row[t].status = "ready" /\ row[t].later}
    /\ UNCHANGED <<cycles, row, by, ops, rebinds>>

\* The process dies and starts again: memory is empty, Hydrate rebuilds the
\* wakes, the sweep closes the phases, no cycle and no task is touched.
Crash ==
    /\ crashes < MaxCrashes /\ EventAllowed
    /\ crashes' = crashes + 1
    /\ ch' = <<>> /\ pending' = {}
    /\ pc' = [s \in Slots |-> "idle"] /\ held' = [s \in Slots |-> NoTask]
    /\ slot' = [s \in Slots |-> Idle]
    /\ gate' = [w \in Worktrees |-> NoSlot]
    /\ wake' = {t \in Tasks : row[t].status = "ready" /\ row[t].later}
    /\ cycles' = [t \in Tasks |-> [a \in DOMAIN cycles[t] |->
                    [cycles[t][a] EXCEPT !.phases = Finalized(@)]]]
    /\ UNCHANGED <<row, by, ops, rebinds>>

-----------------------------------------------------------------------------
SlotStep(s) ==
    \/ RecvPop(s) \/ RecvDelete(s) \/ Reload(s) \/ OpenRunningCycle(s)
    \/ TryLock(s) \/ Defer(s) \/ AgentPickup(s) \/ GitPrep(s) \/ Finish(s)
    \/ StartCycle(s) \/ Resume(s) \/ StartExecute(s) \/ ExecuteReturns(s)
    \/ StartVerify(s) \/ VerifyReturns(s) \/ Terminate(s) \/ Settle(s)
    \/ Abort(s) \/ FailTask(s)

Operator(t) ==
    \/ Create(t)
    \/ \E status \in Statuses : PatchStatus(t, status)
    \/ Retry(t)
    \/ \E w \in Worktrees : Rebind(t, w)

Background(t) == PickupDue(t) \/ WakeFires(t) \/ Reconcile(t)

Next ==
    \/ \E s \in Slots : SlotStep(s) \/ Lock(s)
    \/ \E t \in Tasks : Operator(t) \/ Background(t)
    \/ Crash

Spec == Init /\ [][Next]_vars

(* A goroutine that can run eventually runs, and the agent process returns   *)
(* (max_run_duration_seconds cuts it, where that is set); a waiter of        *)
(* sync.Mutex is not starved (its starvation mode); time passes, timers fire *)
(* and the reconcile loop ticks.  Operators owe nothing.                     *)
Fairness ==
    /\ \A s \in Slots : WF_vars(SlotStep(s)) /\ SF_vars(Lock(s))
    /\ \A t \in Tasks : WF_vars(PickupDue(t)) /\ WF_vars(WakeFires(t)) /\ WF_vars(Reconcile(t))

FairSpec == Spec /\ Fairness

-----------------------------------------------------------------------------
Drives(s, t) == pc[s] = "busy" /\ held[s] = t /\ slot[s].at \in Run
Uses(s, w) == pc[s] = "busy" /\ slot[s].at \in Run /\ slot[s].wt = w

(* docs/architecture.md: "Tasks on the same worktree serialize".  Two runs   *)
(* never share a checkout (runWithGitPrep under WorktreeGate), as long as    *)
(* no PATCH moves a task to another worktree in the middle of its admission. *)
WorktreeIsExclusive ==
    rebinds = 0 =>
        \A s, r \in Slots : \A w \in Worktrees : Uses(s, w) /\ Uses(r, w) => s = r

(* At most one harness works on a task, although the queue may hand the same *)
(* id to several slots (processOne, both admission paths).                   *)
OneRunPerTask ==
    rebinds = 0 =>
        \A s, r \in Slots : \A t \in Tasks : Drives(s, t) /\ Drives(r, t) => s = r

(* A gate is held only by a slot between its lock and its deferred unlock,   *)
(* whichever early return or crash ended the run (processOne).               *)
GateIsNotLeaked ==
    \A w \in Worktrees : gate[w] # NoSlot =>
        pc[gate[w]] = "busy" /\ slot[gate[w]].at \in Run \cup {"pickup", "unlock"}

(* A running phase row belongs to a slot that is in that phase now, so a     *)
(* phase found running at startup is always an interrupted one               *)
(* (FinalizeInterruptedPhases, recoverFromPanic, RunPipeline).               *)
LivePhaseHasADriver ==
    \A t \in Tasks : \A a \in DOMAIN cycles[t] : \A p \in DOMAIN cycles[t][a].phases :
        cycles[t][a].phases[p].status = "running" =>
            \E s \in Slots : /\ Drives(s, t)
                             /\ slot[s].at \in {"execute", "verify"}
                             /\ slot[s].cyc = a /\ slot[s].ph = p

Undisturbed == crashes = 0 /\ rebinds = 0

\* A status the worker wrote itself, and nobody has overwritten since.
Picked(t) == row[t].status = "running" /\ by[t] = "agent"
Settled(t) == row[t].status \in {"done", "failed"} /\ by[t] = "agent"

(* Until the process dies, a task the worker set running is being driven by  *)
(* a slot: every early return between pickup and settling fails the task.    *)
(* Two ways to end up running without a run are left, and by[t] names them:  *)
(* a refused done and a PATCH (processOne, runWithGitPrep,                   *)
(* bestEffortFailTask, applyFinalizeEffects).                                *)
RunningTaskIsDriven ==
    Undisturbed =>
        \A t \in Tasks : Picked(t) => \E s \in Slots : Drives(s, t)

(* The harness settles a task only after closing its cycle; over an open one *)
(* the store would refuse every later attempt.  A PATCH to done or failed in *)
(* the middle of a run settles over the open cycle, which then has a slot to *)
(* close it (applyFinalizeEffects, bestEffortTerminate, applyStatusPatch).   *)
SettledTaskIsClosed ==
    Undisturbed =>
        \A t \in Tasks : row[t].status \in {"done", "failed"} /\ L!HasRunningCycle(t) =>
            ~Settled(t) /\ \E s \in Slots : Drives(s, t)

(* A ready task does not wait for ever for others that are finitely many:    *)
(* what a full queue dropped, what a busy worktree deferred and what a slot  *)
(* blocked in Lock cannot serve is made good by timers and reconcile loop    *)
(* (tryEnqueue, deferTaskPickup, WorktreeGate.Lock, ReconcileReadyTasks).    *)
ReadyTaskIsTaken == \A t \in Tasks : row[t].status = "ready" ~> row[t].status # "ready"

(* A run that is not cut by a crash ends, and with it the running status,    *)
(* unless its done is refused or a PATCH overwrites what the run wrote       *)
(* (runCycleLoop, applyFinalizeEffects, and the recovery paths).             *)
RunEnds == \A t \in Tasks : Picked(t) ~> ~Picked(t)

(* resume.go: "The task must already be StatusRunning and cycle must be      *)
(* StatusRunning."  The slot that waited for the gate resumes on what it     *)
(* read before the wait.                                                     *)
ResumePrecondition ==
    \A s \in Slots : At(s, "resume") =>
        /\ row[held[s]].status = "running"
        /\ cycles[held[s]][slot[s].cyc].status = "running"
=============================================================================

----------------------------- MODULE Supervisor ------------------------------
(* The supervisor of internal/taskapi/agentworker: settings calls that load  *)
(* the saved settings, decide, start a new worker pool and stop the old one; *)
(* the shutdown drain; the operator's cancel; and, of the pools, what a      *)
(* cancelled context or a swap does to the runs their slots are in.          *)
(* Admission, retries and the queue are those of WorkerPool and MemoryQueue. *)
(* A task has a worktree of its own, so the gate of a pool, which belongs to *)
(* that pool only, lets one slot at a time have the task.                    *)
EXTENDS Naturals, Sequences

CONSTANTS
    Callers,        \* goroutines that call applySettings
    Boot,           \* the caller that is Supervisor.Start
    Nobody,
    Settings,       \* material settings (InstanceMatchesSettings)
    Paused,         \* app_settings with agent_paused
    Stored,         \* the settings found at the start of the process
    Tasks, NoTask,
    Slots, NoSlot,  \* agent_worker_concurrency
    MaxPools,       \* bound: pools started
    MaxCancels,     \* bound: operator cancels
    MaxRetries      \* bound: retries of failed tasks

ASSUME NamesAssumption ==
    /\ Boot \in Callers /\ Nobody \notin Callers
    /\ NoTask \notin Tasks /\ NoSlot \notin Slots
    /\ Paused \notin Settings /\ Stored \in Settings \cup {Paused}
ASSUME BoundAssumption == {MaxPools, MaxCancels, MaxRetries} \subseteq Nat

VARIABLES
    saved,          \* the app_settings row
    applyMu,        \* who holds Supervisor.applyMu
    call,           \* call[c]: locals of an applySettings call
    current,        \* Supervisor.current, an index into pool, 0 for nil
    drained, drain, \* Supervisor.drained; locals of Drain
    pool,           \* the pools started so far
    slot,           \* slot[w]: the harness of slot w[2] of pool w[1]
    task,           \* task[t]: status, latest cycle, and who runs its phase
    cancel,         \* locals of the operator's CancelCurrentRun
    cancels,        \* history: cancel calls
    cut,            \* history, cut[s]: runs in slot s failed by an operator
    retries,        \* counter for the bound
    left            \* history, left[t]: where runs of t's latest cycle gave up

calls == <<saved, applyMu, call>>
sup == <<current, drained, drain>>
oper == <<cancel, cancels, cut, retries, left>>
runs == <<slot, task>>
vars == <<calls, sup, pool, runs, oper>>

None == 0
Workers == (1..MaxPools) \X Slots

(* call[c].at: idle, lock, load, decide, clear, awaitClear, sweep, build,    *)
(* publish, awaitNext, stopPrev, awaitPrev, done or error; bad: it returns   *)
(* an error.  pool[i].state is of its context and goroutines: live,          *)
(* cancelled, exited.  slot[w].at: rest (Receive), picked, resume, prepare   *)
(* (execute phase open, no agent yet), execute, passed or broken (the agent  *)
(* is done, its phase not), startVerify, verify, terminate, settle, abort,   *)
(* or sdPhase, sdCycle, sdTask in handleShutdownAfterRun; flag:              *)
(* cancelByOperator.  task[t].phase: the worker whose phase row is running,  *)
(* as a set of at most one.                                                  *)

Fresh(place) == [at |-> place, cfg |-> Paused, prev |-> None, next |-> None, bad |-> FALSE]
Idle == [at |-> "rest", task |-> NoTask, out |-> "failed", flag |-> FALSE]
NoCancel == [inst |-> None, todo |-> {}, fire |-> NoSlot]

Init ==
    /\ saved = Stored
    /\ applyMu = Nobody
    /\ call = [c \in Callers |-> Fresh(IF c = Boot THEN "lock" ELSE "idle")]
    /\ current = None /\ drained = FALSE /\ drain = [at |-> "idle", inst |-> None]
    /\ pool = <<>>
    /\ slot = [w \in Workers |-> Idle]
    /\ task = [t \in Tasks |-> [status |-> "ready", cycle |-> "none", phase |-> {}]]
    /\ cancel = NoCancel /\ cancels = 0 /\ cut = [s \in Slots |-> 0]
    /\ retries = 0 /\ left = [t \in Tasks |-> {}]

-----------------------------------------------------------------------------
(* applySettings.                                                            *)

In(c, place) == call[c].at = place
Step(c, place) == call' = [call EXCEPT ![c].at = place]
Return(c) ==
    /\ call' = [call EXCEPT ![c] = Fresh(IF call[c].bad THEN "error" ELSE "done")]
    /\ applyMu' = Nobody

\* PATCH /settings: UpdateSettings, then Reload.  The server starts after Start.
Patch(c, s) ==
    /\ In(c, "idle") /\ In(Boot, "done")
    /\ saved' = s
    /\ Step(c, "lock")
    /\ UNCHANGED <<applyMu, sup, pool, runs, oper>>

\* applyMu left out.
LockIgnored(c) ==
    /\ In(c, "lock")
    /\ applyMu' = c
    /\ Step(c, "load")
    /\ UNCHANGED <<saved, sup, pool, runs, oper>>

Lock(c) ==
    /\ In(c, "lock")
    /\ applyMu = Nobody
    /\ applyMu' = c
    /\ Step(c, "load")
    /\ UNCHANGED <<saved, sup, pool, runs, oper>>

\* loadApplySettingsSnapshot.  All three uses of the request's context may fail
\* at any time, for the client may have gone away: GetSettings here, the git
\* check and the probe in Decide, and the sweep.
LoadSnapshot(c) ==
    /\ In(c, "load")
    /\ \/ call' = [call EXCEPT ![c] = Fresh("error")] /\ applyMu' = Nobody
       \/ /\ ~drained
          /\ call' = [call EXCEPT ![c].at = "decide", ![c].cfg = saved, ![c].prev = current]
          /\ UNCHANGED applyMu
    /\ UNCHANGED <<saved, sup, pool, runs, oper>>

\* InstanceMatchesSettings.  The probed version stands in for the one the
\* instance was built with, so a new runner version is no material change.
Matches(i, cfg) == i # None /\ pool[i].cfg = cfg

\* DecideIdle, probeExecuteRunner: git registration and the probe may say no.
Decide(c) ==
    /\ In(c, "decide")
    /\ \/ Step(c, "clear") /\ UNCHANGED applyMu
       \/ /\ call[c].cfg # Paused
          /\ IF Matches(call[c].prev, call[c].cfg)
             THEN Return(c)
             ELSE Step(c, "sweep") /\ UNCHANGED applyMu
    /\ UNCHANGED <<saved, sup, pool, runs, oper>>

Cancelled(i) ==
    IF i # None /\ pool[i].state = "live" THEN [pool EXCEPT ![i].state = "cancelled"] ELSE pool

\* clearCurrentInstance: stopWorkerInstance, then current := nil.  A stop waits
\* for the pool to exit or for a deadline, so it returns at any time.
ClearStop(c) ==
    /\ In(c, "clear")
    /\ pool' = Cancelled(call[c].prev)
    /\ Step(c, "awaitClear")
    /\ UNCHANGED <<saved, applyMu, sup, runs, oper>>

Clear(c) ==
    /\ In(c, "awaitClear")
    /\ current' = IF drained THEN current ELSE None
    /\ Return(c)
    /\ UNCHANGED <<saved, drained, drain, pool, runs, oper>>

\* runStartupSweep: every running phase row is closed, or the sweep fails.
Sweep(c) ==
    /\ In(c, "sweep")
    /\ \/ task' = [t \in Tasks |-> [task[t] EXCEPT !.phase = {}]]
       \/ UNCHANGED task
    /\ Step(c, "build")
    /\ UNCHANGED <<saved, applyMu, sup, pool, slot, oper>>

NewPool(cfg) == [cfg |-> cfg, state |-> "live"]

\* registry.Build; spawnWorkerInstance starts the pool's goroutines.
Build(c) ==
    /\ In(c, "build")
    /\ \/ /\ Len(pool) < MaxPools
          /\ pool' = Append(pool, NewPool(call[c].cfg))
          /\ call' = [call EXCEPT ![c].at = "publish", ![c].next = Len(pool) + 1]
       \/ /\ call' = [call EXCEPT ![c].at = "clear", ![c].bad = TRUE]
          /\ UNCHANGED pool
    /\ UNCHANGED <<saved, applyMu, sup, runs, oper>>

\* restartWorkerWithSettings without the second look at drained.
PublishUnchecked(c) ==
    /\ In(c, "publish")
    /\ current' = call[c].next
    /\ Step(c, "stopPrev")
    /\ UNCHANGED <<saved, applyMu, drained, drain, pool, runs, oper>>

Publish(c) ==
    /\ In(c, "publish")
    /\ IF drained
       THEN /\ pool' = Cancelled(call[c].next)
            /\ call' = [call EXCEPT ![c].at = "awaitNext", ![c].bad = TRUE]
            /\ UNCHANGED current
       ELSE /\ current' = call[c].next
            /\ Step(c, "stopPrev")
            /\ UNCHANGED pool
    /\ UNCHANGED <<saved, applyMu, drained, drain, runs, oper>>

\* <-next.doneCh: no deadline here.
AwaitNext(c) ==
    /\ In(c, "awaitNext")
    /\ pool[call[c].next].state = "exited"
    /\ Return(c)
    /\ UNCHANGED <<saved, sup, pool, runs, oper>>

StopPrev(c) ==
    /\ In(c, "stopPrev")
    /\ pool' = Cancelled(call[c].prev)
    /\ Step(c, "awaitPrev")
    /\ UNCHANGED <<saved, applyMu, sup, runs, oper>>

AwaitPrev(c) ==
    /\ In(c, "awaitPrev")
    /\ Return(c)
    /\ UNCHANGED <<saved, sup, pool, runs, oper>>

-----------------------------------------------------------------------------
(* Drain and CancelCurrentRun.                                               *)

\* At process exit, after Start and after the server has stopped taking calls.
DrainStart ==
    /\ ~drained /\ In(Boot, "done")
    /\ drained' = TRUE
    /\ drain' = [at |-> "stop", inst |-> current]
    /\ current' = None
    /\ UNCHANGED <<calls, pool, runs, oper>>

DrainStop ==
    /\ drain.at = "stop"
    /\ pool' = Cancelled(drain.inst)
    /\ drain' = [drain EXCEPT !.at = "await"]
    /\ UNCHANGED <<calls, current, drained, runs, oper>>

DrainReturns ==
    /\ drain.at = "await"
    /\ drain' = [at |-> "done", inst |-> None]
    /\ UNCHANGED <<calls, current, drained, pool, runs, oper>>

\* currentRunCancel is set while a runner is in flight, execute or verify.
InFlight(w) == slot[w].at \in {"execute", "verify"}

\* Supervisor.CancelCurrentRun takes the current pool.
CancelCurrentRun ==
    /\ cancel = NoCancel /\ cancels < MaxCancels
    /\ current # None
    /\ cancel' = [inst |-> current, todo |-> Slots, fire |-> NoSlot]
    /\ cancels' = cancels + 1
    /\ UNCHANGED <<calls, sup, pool, runs, cut, retries, left>>

\* Pool.CancelCurrentRun visits every slot; the harness of each is asked for
\* currentRunCancel.  The order of the visits makes no difference.
CancelReads(s) ==
    /\ s \in cancel.todo /\ cancel.fire = NoSlot
    /\ cancel' = IF InFlight(<<cancel.inst, s>>)
                 THEN [cancel EXCEPT !.todo = @ \ {s}, !.fire = s]
                 ELSE IF cancel.todo = {s} THEN NoCancel
                 ELSE [cancel EXCEPT !.todo = @ \ {s}]
    /\ UNCHANGED <<calls, sup, pool, runs, cancels, cut, retries, left>>

\* cancelByOperator.Store(true); cancel().  The runner may have returned.
CancelFires(s) ==
    /\ cancel.fire = s /\ s \in Slots
    /\ slot' = [slot EXCEPT ![<<cancel.inst, s>>].flag = TRUE]
    /\ cancel' = IF cancel.todo = {} THEN NoCancel ELSE [cancel EXCEPT !.fire = NoSlot]
    /\ UNCHANGED <<calls, sup, pool, task, cancels, cut, retries, left>>

\* RequestTaskRetry on a failed task whose cycle is closed.
Retry(t) ==
    /\ retries < MaxRetries
    /\ task[t].status = "failed" /\ task[t].cycle = "closed"
    /\ task' = [task EXCEPT ![t].status = "ready"]
    /\ retries' = retries + 1
    /\ UNCHANGED <<calls, sup, pool, slot, cancel, cancels, cut, left>>

-----------------------------------------------------------------------------
(* A run.  On a dead context every store call fails and changes nothing.     *)

At(w, place) == slot[w].at = place
Dead(w) == pool[w[1]].state # "live"
Goto(w, place) == slot' = [slot EXCEPT ![w].at = place]
Rest(w) == slot' = [slot EXCEPT ![w].at = "rest", ![w].task = NoTask, ![w].out = "failed"]
Mine(w) == task[slot[w].task]
IsMine(w) == w \in Mine(w).phase
Row(w, row) == task' = [task EXCEPT ![slot[w].task] = row]
Outside == <<calls, sup, pool, cancel, cancels, cut, retries>>

\* The run gives up here: its context is dead.
GivesUp(w, place) == left' = [left EXCEPT ![slot[w].task] = @ \cup {place}]
GivesUpIfDead(w) == IF Dead(w) THEN GivesUp(w, slot[w].at) ELSE UNCHANGED left

\* TerminateCycle is refused unless the cycle runs and none of its phases does.
CanTerminate(row) == row.cycle = "running" /\ row.phase = {}

Terminated(row) == IF CanTerminate(row) THEN [row EXCEPT !.cycle = "closed"] ELSE row

\* CompletePhase, which the store refuses if the phase is not running any more.
Completed(w) == IF IsMine(w) THEN [Mine(w) EXCEPT !.phase = {}] ELSE Mine(w)

\* Admission of a ready task, or of a running one that reconcile offered.
Take(w, t) ==
    /\ At(w, "rest") /\ ~Dead(w)
    /\ \A s \in Slots : slot[<<w[1], s>>].task # t
    /\ \/ /\ task[t].status = "ready"
          /\ task' = [task EXCEPT ![t].status = "running"]
          /\ slot' = [slot EXCEPT ![w].at = "picked", ![w].task = t]
       \/ /\ task[t].status = "running" /\ task[t].cycle = "running"
          /\ slot' = [slot EXCEPT ![w].at = "resume", ![w].task = t]
          /\ UNCHANGED task
    /\ UNCHANGED <<Outside, left>>

\* StartCycle and the first StartPhase, or bestEffortFailTask: both on the
\* caller's context.
Begin(w) ==
    /\ At(w, "picked")
    /\ \/ Dead(w) /\ Rest(w) /\ UNCHANGED task /\ GivesUp(w, "picked")
       \/ /\ ~Dead(w) /\ Mine(w).cycle = "running"
          /\ Rest(w) /\ Row(w, [Mine(w) EXCEPT !.status = "failed"]) /\ UNCHANGED left
       \/ /\ ~Dead(w) /\ Mine(w).cycle # "running"
          /\ Goto(w, "prepare")
          /\ Row(w, [Mine(w) EXCEPT !.cycle = "running", !.phase = {w}])
          /\ left' = [left EXCEPT ![slot[w].task] = {}]
    /\ UNCHANGED Outside

\* Resume: on a closed cycle or with a phase still running there is no
\* checkpoint, and the task is failed.
Resume(w) ==
    /\ At(w, "resume")
    /\ IF Dead(w) THEN Rest(w) /\ UNCHANGED task
       ELSE IF CanTerminate(Mine(w))
       THEN \E place \in {"prepare", "verify"} :
                Goto(w, place) /\ Row(w, [Mine(w) EXCEPT !.phase = {w}])
       ELSE Rest(w) /\ Row(w, [Mine(w) EXCEPT !.status = "failed"])
    /\ GivesUpIfDead(w)
    /\ UNCHANGED Outside

\* What lies between StartPhase and the runner, the git snapshot first of all,
\* may fail, on a dead context above all.
InvokeRunner(w) ==
    /\ At(w, "prepare")
    /\ \E place \in {"execute", "abort"} : Goto(w, place)
    /\ UNCHANGED <<task, left, Outside>>

\* consumeOperatorCancel that reads the flag and leaves it set.
FlagKept(w) == slot[w].flag

\* consumeOperatorCancel: what Swap(false) leaves in cancelByOperator.
ConsumeOperatorCancel(w) == FALSE

\* The runner returns; commits are ingested; DecideExecutePostRun, on the flag
\* consumed and on the context, which is looked at before and after the ingest.
ExecuteReturns(w) ==
    /\ At(w, "execute")
    /\ \E verdict \in (IF slot[w].flag THEN {"broken"} ELSE {"passed", "broken"}) :
          slot' = [slot EXCEPT ![w].at = IF Dead(w) THEN "sdPhase" ELSE verdict,
                               ![w].flag = ConsumeOperatorCancel(w)]
    /\ cut' = IF slot[w].flag /\ ~Dead(w) THEN [cut EXCEPT ![w[2]] = @ + 1] ELSE cut
    /\ UNCHANGED <<task, left, calls, sup, pool, cancel, cancels, retries>>

\* applyExecuteEffects: CompletePhase, on the caller's context.
CompleteExecute(w) ==
    /\ At(w, "passed") \/ At(w, "broken")
    /\ IF Dead(w) \/ ~IsMine(w)
       THEN Goto(w, "abort") /\ UNCHANGED task
       ELSE /\ Goto(w, IF At(w, "passed") THEN "startVerify" ELSE "terminate")
            /\ Row(w, Completed(w))
    /\ UNCHANGED <<left, Outside>>

\* RunPipeline opens its phase; a refusal counts as a failed verification.
StartVerify(w) ==
    /\ At(w, "startVerify")
    /\ IF Dead(w) THEN Rest(w) /\ UNCHANGED task
       ELSE IF CanTerminate(Mine(w))
       THEN Goto(w, "verify") /\ Row(w, [Mine(w) EXCEPT !.phase = {w}])
       ELSE Goto(w, "terminate") /\ UNCHANGED task
    /\ GivesUpIfDead(w)
    /\ UNCHANGED Outside

\* The verify runner returns; the flag of an operator cancel stays.
VerifyReturns(w) ==
    /\ At(w, "verify")
    /\ IF Dead(w) THEN Rest(w) /\ UNCHANGED task
       ELSE /\ \E out \in {"done", "failed"} :
                 slot' = [slot EXCEPT ![w].at = "terminate", ![w].out = out]
            /\ Row(w, Completed(w))
    /\ GivesUpIfDead(w)
    /\ UNCHANGED Outside

\* terminateCycle; a refusal leaves the task as it is.
Terminate(w) ==
    /\ At(w, "terminate")
    /\ IF Dead(w) \/ ~CanTerminate(Mine(w)) THEN Rest(w) /\ UNCHANGED task
       ELSE Goto(w, "settle") /\ Row(w, Terminated(Mine(w)))
    /\ GivesUpIfDead(w)
    /\ UNCHANGED Outside

\* transitionTask.  ValidateCanMarkDoneInTx may refuse done, which is logged.
Settle(w) ==
    /\ At(w, "settle")
    /\ Rest(w)
    /\ \/ ~Dead(w) /\ Row(w, [Mine(w) EXCEPT !.status = slot[w].out]) /\ UNCHANGED left
       \/ ~Dead(w) /\ slot[w].out = "done" /\ UNCHANGED task /\ GivesUp(w, "refused")
       \/ Dead(w) /\ UNCHANGED task /\ GivesUp(w, "settle")
    /\ UNCHANGED Outside

\* bestEffortTerminate, on the caller's context: phase, cycle, task.
Abort(w) ==
    /\ At(w, "abort")
    /\ Rest(w)
    /\ IF Dead(w) THEN UNCHANGED task
       ELSE Row(w, [Terminated(Completed(w)) EXCEPT !.status = "failed"])
    /\ GivesUpIfDead(w)
    /\ UNCHANGED Outside

\* handleShutdownAfterRun that trusts TerminateCycle to close the phase.
ShutdownPhaseSkipped(w) ==
    /\ At(w, "sdPhase")
    /\ Goto(w, "sdCycle")
    /\ UNCHANGED <<task, left, Outside>>

\* handleShutdownAfterRun, on a context of its own: the phase, the cycle, the task.
ShutdownPhase(w) ==
    /\ At(w, "sdPhase")
    /\ Goto(w, "sdCycle")
    /\ Row(w, Completed(w))
    /\ UNCHANGED <<left, Outside>>

ShutdownCycle(w) ==
    /\ At(w, "sdCycle")
    /\ Goto(w, "sdTask")
    /\ Row(w, Terminated(Mine(w)))
    /\ UNCHANGED <<left, Outside>>

\* handleShutdownAfterRun that stops at the cycle.
ShutdownTaskSkipped(w) ==
    /\ At(w, "sdTask")
    /\ Rest(w)
    /\ UNCHANGED <<task, left, Outside>>

ShutdownTask(w) ==
    /\ At(w, "sdTask")
    /\ Rest(w)
    /\ Row(w, [Mine(w) EXCEPT !.status = "failed"])
    /\ UNCHANGED <<left, Outside>>

\* In every slot Receive returns the context's error; the pool's goroutines end.
Exit(i) ==
    /\ pool[i].state = "cancelled" /\ \A s \in Slots : At(<<i, s>>, "rest")
    /\ pool' = [pool EXCEPT ![i].state = "exited"]
    /\ UNCHANGED <<calls, sup, runs, oper>>

-----------------------------------------------------------------------------
CallStep(c) ==
    \/ LoadSnapshot(c) \/ Decide(c) \/ ClearStop(c) \/ Clear(c) \/ Sweep(c) \/ Build(c)
    \/ Publish(c) \/ AwaitNext(c) \/ StopPrev(c) \/ AwaitPrev(c)

RunStep(w) ==
    \/ \E t \in Tasks : Take(w, t)
    \/ Begin(w) \/ Resume(w) \/ InvokeRunner(w) \/ ExecuteReturns(w) \/ CompleteExecute(w)
    \/ StartVerify(w) \/ VerifyReturns(w) \/ Terminate(w) \/ Settle(w) \/ Abort(w)
    \/ ShutdownPhase(w) \/ ShutdownCycle(w) \/ ShutdownTask(w)

Next ==
    \/ \E c \in Callers : \/ \E s \in Settings \cup {Paused} : Patch(c, s)
                          \/ Lock(c) \/ CallStep(c)
    \/ DrainStart \/ DrainStop \/ DrainReturns
    \/ CancelCurrentRun \/ \E s \in Slots : CancelReads(s) \/ CancelFires(s)
    \/ \E t \in Tasks : Retry(t)
    \/ \E i \in DOMAIN pool : Exit(i) \/ \E s \in Slots : RunStep(<<i, s>>)

Spec == Init /\ [][Next]_vars

-----------------------------------------------------------------------------
(* supervisor.go: "applyMu serialises Start/Reload end-to-end so concurrent  *)
(* settings patches cannot leak worker goroutines."  A pool whose context    *)
(* nobody has cancelled is the current one, or somebody is about to publish  *)
(* or to stop it, however patches, failures and a drain overlap.             *)
LivePoolHasAnOwner ==
    \A i \in DOMAIN pool : pool[i].state = "live" =>
        \/ current = i /\ ~drained
        \/ drain = [at |-> "stop", inst |-> i]
        \/ \E c \in Callers : \/ call[c].next = i /\ In(c, "publish")
                              \/ call[c].prev = i /\ call[c].at \in {"clear", "stopPrev"}

AtRest == ~drained /\ \A c \in Callers : call[c].at \in {"idle", "done"}

(* patchSettings saves, then reloads.  When every call has returned without  *)
(* an error, the pool that serves was built from the row that was saved      *)
(* last, whatever the order in which the calls took applyMu.                 *)
SavedSettingsAreInForce ==
    AtRest /\ current # None => pool[current].cfg = saved

(* An operator cancel fails the runs of all slots of one pool, but at most   *)
(* one run in each slot: the flag is consumed once, even if the run it was   *)
(* meant for had already returned, and a pool that replaces the cancelled    *)
(* one does not inherit it (CancelCurrentRun, consumeOperatorCancel).  The   *)
(* run that fails need not be the one that was in flight.                    *)
CancelFailsOneRun == \A s \in Slots : cut[s] <= cancels

Driven(t) == \E w \in Workers : slot[w].task = t

(* harness.md: the recovery paths use a background context "when the parent  *)
(* ctx is cancelled so audit rows still persist".  They do so for a run      *)
(* whose agent was cut.  A phase that nobody is in was left open by a run    *)
(* that died in verify, or between StartPhase and the agent or between the   *)
(* agent and CompletePhase (bestEffortTerminate on the dead context); and as *)
(* long as there has been one pool, a cycle that nobody drives was left open *)
(* there or between two phases, never by a run cut in its agent, even if the *)
(* sweep of a failed reload closed its phase first (handleShutdownAfterRun). *)
DrainClosesTheRun ==
    \A t \in Tasks : ~Driven(t) =>
        /\ task[t].phase # {} => left[t] \cap {"verify", "abort"} # {}
        /\ Len(pool) = 1 /\ task[t].cycle = "running" =>
              left[t] \cap {"verify", "abort", "resume", "startVerify", "terminate"} # {}

(* sweep.go: "Running cycles stay running so Harness.Resume can continue".   *)
(* A task left running by a swap, a drain or a cancel has an open cycle, so  *)
(* reconcile lists it, but for three windows: the context died between       *)
(* pickup and StartCycle, or between TerminateCycle and the last status      *)
(* update, or that update was a done that the criteria refused.              *)
RunningTaskIsResumable ==
    \A t \in Tasks : task[t].status = "running" /\ ~Driven(t) =>
        \/ task[t].cycle = "running"
        \/ left[t] \cap {"picked", "settle", "refused"} # {}
=============================================================================

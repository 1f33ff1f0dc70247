# Hamix: TLA+ specifications of the task backend

Hamix accepts tasks over HTTP, stores them in Postgres, and has a pool of
worker slots run an external coding agent on each of them inside a git
worktree. These modules specify the part of the backend that decides *which
task runs when and where, what its rows say afterwards, and who hears of it*:
the in-process queue, the execution ledger (cycles and phases), the worker pool
with its harness, recovery, reconcile loop and operator calls, the supervisor
that swaps pools, the attempts of a task and what each leaves to the next, the
task rows with dependencies, gates, schedules and
criteria, the registry of git worktrees, and the HTTP edge with its idempotency
cache and event stream. `PROJECT.json` lists, for every
definition, the lines it translates, and for every property the run that checks
it and a mutation of the code that breaks it.

## 1. The system

| Component | State | Operations | Correct when |
|---|---|---|---|
| Task queue `pkgs/agents/memory_queue.go` | buffered channel, `pending` set | `NotifyReadyTask`, `Receive`, `AckAfterRecv` | an accepted wake is followed by a reload of the row, unless that reload fails; nothing is called pending that is not on its way |
| Execution ledger `pkgs/tasks/store/internal/cycles` | `task_cycles`, `task_cycle_phases` | `Start`, `Terminate`, `StartPhase`, `CompletePhase` | one running attempt, one running phase, a legal phase history, closed rows read-only |
| Slot admission `pkgs/agents/worker` | goroutine locals, `WorktreeGate` mutex map | `processOne`: reload, gate, pickup or resume, deferred unlock and ack | one run per worktree and per task, no leaked gate, only ready tasks start |
| Harness `pkgs/agents/harness` | `processState`, ledger rows | cycle loop, execute, verify, retry, resume, panic recovery | a run ends, its phases and cycle are closed before the task is settled |
| Supervisor `internal/taskapi/agentworker` | current pool instance, settings | apply settings, hot swap, drain, cancel a run | every live pool can be stopped, the saved settings end up in force, a run that is cut can be resumed or is closed |
| Restart recovery `worker/sweep.go` | none of its own | `FinalizeInterruptedPhases` at startup | every phase found running is an interrupted one |
| Reconcile loop `pkgs/agents/reconcile.go` | none of its own | offer ready and running tasks to the queue | dropped notifications are made good |
| Pickup wakes `pkgs/agents/pickup_wake.go` | heap of (time, task), one timer | `Schedule`, `Cancel`, `fire`, `Hydrate` | a deferred task is offered when it is due |
| Scheduling facade `store/facade_tasks.go`, `pkgs/tasks/scheduling` | none of its own | decide and apply notify/wake after a row update | queue and wakes agree with the row |
| Task rows `store/internal/tasks` | `tasks` | create, patch, pickup, defer, retry, delete | the guards above |
| Dependencies and gates `store/internal/tasks` | dependency edges, gate JSON | edit edges, release dependents, gate actions | acyclic, no lost gate action |
| Checklists `store/facade_checklist.go` | items, completions | edit, complete, done check | done means every item is complete |
| Git registry `store/reconcile_git.go`, `store_git_*.go` | repository, worktree and branch rows beside the checkouts git lists | create, register, relocate, unregister, reconcile; create and delete branches; bind tasks | one row a path and a branch; a row is where its branch is; no row removed under a running task |
| Middleware `pkgs/tasks/middleware` | idempotency cache, singleflight, token buckets | replay, reject | one effect per key |
| SSE hub `handler/sse_hub.go` | per-client buffers, replay ring | publish, subscribe, evict, resume | a client sees a gap-free suffix or is told to resync |

How they interact. An HTTP handler or the harness updates a row through the
store facade, which then applies the scheduling decision: schedule or cancel a
pickup wake, or notify the queue. A slot pops an id, reloads the row, takes the
gate of the row's worktree and either picks the task up (ready) or resumes it
(running with an open cycle). The harness opens a cycle, alternates execute and
verify phases, closes the cycle and settles the task. Every two minutes or so
the reconcile loop offers the queue whatever it might have missed. A restart
loses queue, wakes, gates and goroutines, finalizes the phases that were
running, and leaves cycles and tasks for the reconcile loop to resume.

Hard behaviours: `Receive` pops the channel outside the mutex; the late ack
deletes an entry that may be somebody else's; every store call is a point where
operators and other slots get in between; notification errors are ignored
everywhere; ledger guards are read without locks; a crash may fall between any
two store calls; a run is longer than the reconcile interval, so a running task
is regularly handed to a second slot. The list with code lines is `hazards` in
`PROJECT.json`.

## 2. The modules

| Module | Models | Extends or instantiates |
|---|---|---|
| `MemoryQueue` | queue and consuming slots | |
| `CycleLedger` | the four store calls as atomic steps: the abstract ledger | |
| `CycleLedgerProofs` | proofs | `CycleLedger` |
| `CycleLedgerTx` | the same calls statement by statement under READ COMMITTED | `CycleLedger`, and an instance of it as the specification it implements |
| `CycleLedgerTxProofs` | proofs, the refinement among them | `CycleLedgerTx` |
| `WorkerPool` | admission, gate, harness, facade, wakes, reconcile, operators, crash | instances of `MemoryQueue` and `CycleLedger` |
| `WorkerPoolProofs` | proofs | `WorkerPool`, an instance of `CycleLedgerProofs` |
| `HarnessRun` | the attempts of one task: checkpoints, both retry modes, git anchors, verdicts, completions, failing store calls | an instance of `CycleLedger` |
| `HarnessRunProofs` | proofs: types, rows, the shape of a run; then its four safety properties | `HarnessRun`, an instance of `CycleLedgerProofs` |
| `Supervisor` | settings reload, hot swap, drain, operator cancel, a run cut short | |
| `SupervisorProofs` | proofs | `Supervisor` |
| `TaskStore` | task rows, dependencies, gates, criteria, commit before telling, wakes, reconcile lists | |
| `TaskStoreProofs` | proofs | `TaskStore` |
| `GitRegistry` | worktree and branch rows against the checkouts on disk | |
| `GitRegistryProofs` | proofs | `GitRegistry` |
| `Subsequences` | selections from a sequence and sums over one, as recursive functions | |
| `EventStream` | SSE hub, stream handler, a browser | `Subsequences` |
| `Idempotency` | response cache and singleflight | `Subsequences` |
| `ApiEdge` | a mutating request from key to frame | `EventStream`, `Idempotency` |
| `InMemoryProofs` | proofs about what lives in memory: the queue, the edge | `MemoryQueue`, `ApiEdge` |
| `MC*` | constants and symmetry for TLC | the module they are named after |

**MemoryQueue.** `ch`, `pending` are the two fields of the Go struct; `pc`,
`held` are where each slot is between pop, delete and ack. `Receive` is two
actions because the pop is not under the mutex. A cancelled slot may still win
the receive case of the `select`; what it then does is `ReloadFails`, for
`reloadTask` asks the store on the dead context and `processOne` returns. A
reload may fail on a live context too. Two history variables: `owed`, the ids
whose row no reload has found since their last accepted wake, and `dropped`,
those whose wake went into a reload that failed.

**CycleLedger.** `cycles[t][a]` is attempt `a` of task `t` with its list of
phases; `attempt_seq` and `phase_seq` are positions, since the store assigns
max + 1 and never deletes. `interrupted` stands for a failed phase with the
restart summary, which the transition rules tell apart. Guards are those of
the store; `CompletePhase` really does not look at the cycle's status.

**CycleLedgerTx.** `tx[w]` is the statement a caller's transaction runs next.
A read sees the committed rows of its own instant, guard reads take no lock,
the unique indexes make a second insert of a key wait, an UPDATE holds its row.
The task-row lock of `NextEventSeq` comes after the guards and is folded into
the commit; aborts by foreign keys or lock cycles are covered by `Rollback`,
which may come at any statement. `turns`, fixed for a behaviour, is the set of
tasks whose callers take turns; the worker pool is such a caller, because one
slot drives a task at a time (`OneRunPerTask`). HTTP clients need not be.

**WorkerPool.** One step per store call, so anything may happen between two of
them. `slot[s].at` is the place of a slot in `processOne` or in the harness;
`row`, `wake`, `gate` are the task rows, the wake scheduler and the worktree
mutexes. The following is abstracted: store calls fail only by their own guards
(no lost connections); the deferred unlock and ack are one step (the lateness of
the ack is `MemoryQueue`'s subject); a row update and the notification it causes
are one step; readiness is status plus pickup time, without dependencies and
gates; verification is enabled; retry is the fresh mode; reconcile works on one
task at a time on fresh rows. The operator patches a task to any status at any
time, as `applyStatusPatch` allows (`blocked` and `review`, which nothing in
this module tells from `on_hold`, are left out), and the checklist may refuse
the worker's `done` after the cycle has been closed. `by[t]` remembers who wrote
the status last: the agent, the operator, or the agent whose `done` was refused.
An admission panic, a task without a binding, cancelled contexts and the hot
swap are not in it.

**HarnessRun.** One task and one run at a time. `tree` is the branch in the
checkout, a revision is the history up to it; `notes[a]` is what the store keeps
of attempt `a` besides its rows: the base in the details of each execute phase,
the indexed commits, the verdict rows. `run` is `processState` with the place in
the code; `run.passed` the locked criteria. `judged` counts the passes with
verdicts that were finished, by themselves and not by their rows; `unsaved` says
that rows of one could not be written, `resumed` that a checkpoint was taken
since. The operator may patch the status to ready, running, failed or done at
any step; as in the store, `done` asks for a completion of every criterion, of
whatever attempt (a status at which nobody acts, like `on_hold`, is left out). A
verdict remembers the revision it was about (`at`, in no row of the code) and
whether it still has its evidence (`ev`). A store call fails where its guard
refuses and, `faults` times, for no reason. Verdicts, commits, the report that
names a commit, tampering and the end of the agent's run are free. Abstracted:
slots and gates (`WorkerPool`), criteria that change in the middle
(`TaskStore`), prompts, feedback and the sessions of the runner, a checkout that
is no git repository, other tasks on the branch.

**Supervisor.** A caller of `applySettings` goes through lock, load, decide,
stop or sweep-build-publish-stop; `call[c]` is its locals. A pool has a context
(`live`, `cancelled`, `exited`) and `Slots`, each with a harness, its
`cancelByOperator` flag and the run it is in, so that a cancel, a swap or a
drain meets a run before its agent starts, in it, between the agent and
`CompletePhase`, in the verify phase or between two store calls. The operator's
cancel visits every slot of one pool, as `Pool.CancelCurrentRun` does; each
visit is a read of `currentRunCancel` and, if there is one, a later store of the
flag. `ExecuteReturns` covers the runner's return, the commit ingest and both
looks at the context (`cycle_loop.go:122`, and again in
`buildExecutePostRunInput` after the ingest, so a context that dies while
commits are read still takes the shutdown path); `CompleteExecute` is a step of
its own, because the context may die after the second look. `left[t]` records
where runs of the latest cycle of `t` gave up on a dead context or a refused
`done`. Abstracted: the queue and PATCHes of a status (`WorkerPool`), and the
runner probe, which succeeds or fails. A worker that outlives its cycle writes
to the task's latest one, which is more than the code does.

**TaskStore.** A transaction that locks its row is one step, but what it read
elsewhere before may be old: dependency edits check for a cycle in one step and
insert in another; a gate action reads and writes. `post[a]` is what a goroutine
still has to tell after its commit (the scheduling decision and, for a done
task, its dependents one by one). The slot follows `processOne` through reload,
check, pickup and the criteria it lists, marks and is refused for. `missed`
collects the excuses of `NobodyIsForgotten` named in its comment; `seen` the
predicates a slot has found true since the pop. The cycle of a task is none,
running or closed; verdicts are free.

**GitRegistry.** `disk` is what `git worktree list` would say; the operator
moves, removes, creates and re-checks-out directories between any two steps of a
request. Every request is a sequence of reads, git commands and SQL statements;
a failing call counts against `faults` where it comes after `git worktree add`
(listing the worktrees, the cleanup) or cuts the request off;
`call[c]` holds what it has read. A reconcile reads list, branches and rows
outside its transaction and then handles all rows in one. `late` are tasks bound
or picked up between a guard and the delete it allowed.

**EventStream, Idempotency, ApiEdge.** `Publish` is four steps: coalesce, id,
ring and list of subscribers, sends. The browser keeps one cursor. A frame is
the number of the change it names, 0 a resync. The cache is a sequence, oldest
first. A request of `ApiEdge` enters through the middleware, commits a change
when its handler runs, publishes it, and only then has its response stored.

## 3. The runs

| Run | Instance | Shows |
|---|---|---|
| `queue` | 2 slots, 2 ids, capacity 2, 2 cancelled contexts, any number of failed reloads | types, `PendingIsDeliverable`, `NoLostWake`, `WakeIsServed` |
| `ledger` | see `CycleLedger.cfg` | the six ledger properties |
| `tx` | 1 task, 2 callers, 2 attempts, 2 phases | `ImplementsLedger` for callers that take turns, `InsertLandsNext` for all |
| `tx_two_cycles` | the same, no symmetry | violation: two running cycles |
| `pool_safety` | 2 tasks, 2 worktrees, 2 slots, capacity 1, one event (operator call, change of worktree or crash), refused `done`s | `WorktreeIsExclusive`, `OneRunPerTask`, `RunningTaskIsDriven`, `SettledTaskIsClosed`, `GateIsNotLeaked`, `LivePhaseHasADriver` |
| `pool_live` | 2 slots, 1 worktree, capacity 1; 2 tasks, or 1 task with 1 verify retry or 1 operator call | `ReadyTaskIsTaken`, `RunEnds` |
| `pool_resume` | 1 task, 2 slots | violation: resume of a settled task |
| `supervisor` | boot, 2 patches, a drain, 3 pools with 1 task and 1 retry; or boot, a drain, 1 pool of 2 slots, 2 tasks, 2 cancels, 2 retries | the five properties of the supervisor |
| `harness` | 1 task, 2 criteria, 3 attempts of at most 8 phases, four worlds of two events each (operator calls include every PATCH of the status) | `StartOverIsClean`, `VerifyBudget`, `DoneIsBacked`, `FailedAttemptIsBlank` |
| `tasks` | six worlds of up to 3 tasks, 2 overlapping requests, 1 slot, queue of 2 | `NobodyIsForgotten`, `CyclesNeedTwoEdits`, `OnlyLateCriteriaRefuse`, `StartWasAdmissible` |
| `git` | 3 directories, 2 branches, 2 row ids, 3 requests of which 2 overlap, 2 moves, 1 failing or cut git call | unique rows, `SyncedRowsHoldTheirBranch`, `RowLeavesQuietly`, `CreateIsAllOrNothing` |
| `edge` | 3 requests, 2 keys, cache of 1 entry, ring of 2, 2 connections, 1 restart | `LossIsExcused`, `CacheAddsUp`, `RunsOnce` |

The properties fall into seven questions. *Is a wake ever lost?* The queue
answers `ErrAlreadyQueued` for a pending id and every caller swallows that
answer, so a pending id must be on its way (`PendingIsDeliverable`), and the
reload must come after the wake (`NoLostWake`), so that the slot reads the row
later than the commit; a reload that fails drops the wake and is named. *Do the
rows stay legal?* The ledger properties say so of every history. *Does the pool
keep to itself?* One run per worktree and task, no gate left behind, no task
settled by the worker over an open cycle or left running by it, and no phase row
running without a slot in that very phase. *What does an attempt leave behind?*
A fresh retry starts where its parent started, the verify budget is one budget
across restarts (if its rows could be saved), the `done` of a run rests on
verdicts about revisions that are still on the branch, and a failed attempt
leaves no completion. *Does the pool that serves match the row, and can it be
stopped?* Whatever the overlap of patches, boot and drain, an uncancelled pool
is the current one or somebody holds it in a local and is going to stop it, and
the settings in force are the last ones saved. *Is every admissible task told
of?* The facade tells after the commit and outside any lock; `NobodyIsForgotten`
says exactly when that loses a task until the next reconcile pass. *What
survives at the edge?* `LossIsExcused`, `RunsOnce` and the properties of
`GitRegistry` each have the shape "the promise holds but for these cases", the
cases being ones the run shows to occur: drop a case from the excuse and TLC
gives the behaviour.

**Bounds.** Two slots are enough for every race in `processOne`, which is
pairwise (two holders of a gate, two drivers of a task, pop against notify). Two
tasks on one worktree with capacity 1 make the gate contended and the queue
full. One task can occupy both buffer places, so capacity 2 shows duplicates.
`MaxEvents` bounds operator calls, rebinds and crashes together: one event at
any step of any run; sequences of two are future work. `MaxAttempts` and
`MaxPhases` only cut the search in `CycleLedger` and `CycleLedgerTx`; in
`WorkerPool` the other bounds end a run before they are reached. Three phases in
the ledger run give every pair of rows the transition rules read, followed by a
third. In `pool_safety`, `pool_live` and `supervisor` everything at once would
be too much, so their MC modules cut the instance into small worlds. `SafeNext`
(`MCWorkerPool`) counts a refused `done` among the events and lets a run that
meets an event fail in its execute phase rather than in verify. `LiveNext` has a
second task beside the first, which makes the queue full, the worktree busy and
a slot wait behind somebody else's gate; there every agent does its work on the
first try. Or it has one task with failures of every kind and a verify retry, or
with an operator call at any step, where deliveries of the one id occupy both
slots. It cuts operator calls and, of steps that carry fairness, only
alternatives, so no behaviour is stopped that would go on. `OneWorld`
(`MCSupervisor`, a constraint; the run checks safety only) has settings calls
with one slot and one task (three pools are one each for the boot and the
patches, and two patches give both orders of save and apply; a retry only under
the first two). Or it has no settings call but the boot, and a second slot for a
cancel to visit, a second cancel and enough retries for a flag to meet a later
run; with a drain, one cancel and no retry. The theorems of these modules know
none of these cuts. In `git`, three directories are the smallest number in which
two checkouts can change places or follow one another; two overlapping requests
are every pair of requests. In `edge`, three requests on a key are a leader, a
follower and a late one; a ring of two turns over, and a buffer of one
overflows. A world of `tasks` bounds requests, ticks, passes and restarts for
itself, so that each hazard has its own small instance. A world of `harness`
gives the verify retries and how many operator retries, restarts and failing
store calls happen: two retries of the operator, or one and a restart or a
failing call, or a restart and a failing call; its longest run opens three
attempts, and seven phases in one, so the two caps do not cut it. The four
worlds have 2.4 million states; more events at once were left out. `MaxRetries`
is 0 or 1: the loop is the same for every further retry. `CHECK_DEADLOCK FALSE`
where the system may rest: in the ledger when the bounded attempts are closed,
in the pool when every task is settled and the operators are done.

**Fairness.** `WF` on a slot's step: a goroutine runs, and a run of the agent
returns. The second is an assumption about the external agent: the code enforces
it only when `max_run_duration_seconds` is set (the default, 0, is no limit).
`RunEnds`, `ReadyTaskIsTaken` and `WakeIsServed` are claimed under it. In
`MemoryQueue` a stopped slot owes nothing and `Spawn` has no fairness: a paused,
idle or drained supervisor never replaces it, which is why `WakeIsServed` ends
in "or every slot has stopped". `SF` on `Lock`: Go's `sync.Mutex` hands the lock
to a waiter that has waited for more than a millisecond. `WF` on wakes, the
clock and the reconcile loop, which are timers. Operators owe nothing.
`LongDelays` (liveness run only) says that a deferral of 5 or 60 seconds is not
over before the admission steps in progress, which are a few queries, have
ended. Without it `ReadyTaskIsTaken` fails by a schedule in which a slot stays
between a failed `TryLock` and the deferral while seconds pass, again and again.

## 4. Where the code and its documentation part

Two disagreements are kept as runs.

- `tx_two_cycles`: `docs/data-model.md:141` promises at most one running cycle
  per task; `Start` counts without a lock and inserts later, and two concurrent
  calls may both succeed. The sibling promises in lines 142 and 143 fail in the
  same way: two `StartPhase` calls leave two running phases, and the second of
  two closing calls overwrites the terminal status of the first, since the
  UPDATE does not repeat the status.
- `pool_resume`: a slot that waited in `gate.Lock` for a running task goes on
  with the row and the cycle it read before the wait; the resume then fails and
  sets a task that is already done to failed.

Others were seen while modelling, and properties are guarded accordingly:

- An id can be buffered twice, in spite of `docs/domain/agent-queue.md:38`
  ("at most one pending entry per id"): wake while busy, ack deletes the new
  entry, wake again. Admission tolerates it. (Claim `ch` injective in
  `MemoryQueue` to see it.)
- Duplicates of one running task may occupy every slot, each in `gate.Lock`,
  in spite of `docs/architecture.md:289` ("without blocking other slots").
- A PATCH of the worktree between reload and pickup starts the run in a checkout
  whose gate it does not hold (`docs/architecture.md:105`). Hence the
  `rebinds = 0` in the exclusion properties; drop it with `MaxRebinds = 1`.
- A crash between pickup and `StartCycle` leaves a running task without a cycle,
  which no reconcile pass lists (`recovery.go:154` assumes one would). Hence
  the `crashes = 0` in `RunningTaskIsDriven`. A context cancelled there, or
  between `TerminateCycle` and the status update, does the same without a crash
  (`picked` and `settle` in `left` of `Supervisor`).
- A wake taken out by a cancelled slot, or by one whose store call fails, is
  gone: `reloadTask` logs and `processOne` returns (`admission.go:90`). Hence
  `dropped` in `NoLostWake`; the task waits for the reconcile pass.
- A `done` the criteria refuse (`patches.go:247`) is only logged
  (`cycle.go:92`): the cycle is closed, the task stays running, and no pass
  lists it. Hence `by` in `RunningTaskIsDriven` and `RunEnds`, and `refused` in
  `RunningTaskIsResumable`.
- A PATCH may set any status on a running task (`handler_task_crud.go:155`):
  `done` or `failed` then stands over an open cycle until the run closes it, and
  `running` on a task nobody drives stays. Hence `Picked` and `Settled`, which
  speak of what the worker wrote.
- After a crash between `StartCycle` and `StartPhase`, a resume without a usable
  checkpoint fails the task and leaves its cycle running
  (`harness/resume.go:23`; `recovery.go:153` says there is no cycle then); every
  later `StartCycle` of that task is refused.

Harness attempts:

- A criterion locked from verdict rows comes back without its evidence
  (`checkpoint.go:120`), and `validateEvidencePayload` refuses it at finalize.
  So a resume after a restart, or an operator's resume, that carries a lock
  ends as `checklist_completion_failed` even when every criterion passes, in
  spite of `docs/domain/retry-resume.md`, which calls such criteria locked for
  the new attempt. It is the `Restored` excuse of `FailedAttemptIsBlank`.
  The refusal also hides that a lock may outlive the tree it was about: with
  evidence restored, `DoneIsBacked` would fail (its mutation shows how: a fresh
  retry resets the branch, a second retry resumes the older attempt).
- Completions are rows of their own, written before the attempt closes, so a
  finalize that fails half way leaves some (`docs/domain/done-criteria.md`: "No
  partial completion rows on failed cycles"). Hence `spent.faults`.
- A verify pass whose rows could not be saved is not repeated: the error is
  logged and the run goes on (`checks.go:85`), while a resume counts on from the
  rows (`checkpoint.go:62`). With a restart after it the attempt has one pass
  more than its budget. Hence `unsaved` and `resumed` in `VerifyBudget`.
- A PATCH to `done` asks for a completion of every criterion, not for one of the
  latest attempt (`validate.go:68`): failed to done, or done to ready and back,
  rests on verdicts of an attempt before, about revisions a fresh retry has
  removed. Hence `DoneIsBacked` speaks of the run that is about to write `done`.
- A snapshot that cannot be read is used as an empty one: the run goes on
  without verification (`retry_run.go:124`, `resume.go:36`), and the legacy path
  marks every criterion. Hence the `off` of `DoneIsBacked`.
- When the first execute phase is cut off before it records its base, a fresh
  retry falls back to the parent of the first indexed commit, or fails; earlier
  commits of that phase stay. Indexed commits are numbered anew in every phase,
  so "first" may be the first of a later one.
- When `CompletePhase` of an execute phase fails, the phase pointer is cleared
  and the cycle, whose phase still runs, cannot be terminated, although the
  comment there says it still is (`cycle.go:346`). The task is failed, and a
  later attempt is refused. A failed seed or mirror of a resume leaves the new
  attempt open in the same way.
- A fresh retry resets a branch that other tasks may have committed to.
- `recovery.go:23` says the cleanup runs on a background context;
  `bestEffortTerminate` and `bestEffortFailTask` use the caller's.

Supervisor:

- An operator cancel that lands in the verify phase leaves `cancelByOperator`
  set, and the next execute run of that slot fails as `cancelled_by_operator`.
  And one call visits every slot of the pool ("any in-flight runner.Run",
  `docs/api.md:188`), four by default, so it may fail a run in each. Hence "at
  most one run in each slot", not "the run in flight".
- A context that dies between `StartPhase` and the agent, or after the second
  look and before `CompletePhase`, is met by `bestEffortTerminate` on that dead
  context, and one that dies in the verify phase just ends the run: phase or
  cycle stay open until a sweep and a resume. `recovery.go` uses a fresh context
  only for a run whose agent was cut. Hence the windows of `DrainClosesTheRun`.
- During a hot swap two pools, each with gates of its own, may work in one
  checkout, since the old one is stopped after the new one is published.
- A changed runner version never triggers a restart (`instance.go:28`, in spite
  of `docs/domain/agent-supervisor.md:66`).

Task rows (the excuses of `NobodyIsForgotten` and what else was met):

- Releasing a gate, removing a dependency and deleting a predecessor notify
  nobody; the task waits for the reconcile pass. So does a task whose wake was
  cancelled by a patch of something else that was decided as it came due, or
  cancelled or moved to another time by a decision applied after a newer one.
- A deferral because of a busy worktree overwrites a later schedule set by the
  operator (`admission.go:34`).
- The queue may hold a task that the SQL predicate rejects, in spite of
  `docs/architecture.md:273`; admission sorts it out.
- A criterion added by a request that was loaded before the run began makes the
  store refuse `done` after the cycle has closed: the task stays running.
- Adding or deleting a criterion does not update `criteria_satisfied_at`.
- Two concurrent dependency edits close a cycle; two concurrent gate actions
  lose one.

Git registry:

- After two moves the path of one row may hold the checkout of another; the row
  then matches by path, and the reconcile reports a mismatch, or its update
  breaks the unique index and rolls back the whole reconcile, every time
  (`docs/domain/worktrees-and-branches.md:50`). Hence "reports ok".
- The cleanup of a failed create may remove a checkout another request has
  registered in between.
- When listing the worktrees fails after `git worktree add` (`worktree.go:111`),
  the create returns without a cleanup, and a cleanup that fails is ignored
  (`store_git_global.go:325`, `349`): the checkout stays without a row. Hence
  the `faults` in `CreateIsAllOrNothing`.
- The running-task guard of `DeleteGitBranch` passes a branch id to a query on
  worktree and repository ids, which never matches.
- `docs/data-model.md:22` calls `worktree_id` a foreign key; there is none, so a
  task may be bound to a row while it is deleted (`late`).

Edge:

- Coalescing keeps the first hint of a window and drops the later ones; a frame
  whose id was drawn early may be appended late and is then behind every cursor;
  a first reconnect without `Last-Event-ID` gets no replay; ids start again at a
  restart. All against "semantically lossless" (`sse_hub.go:40`), and all
  excuses of `LossIsExcused`.
- The late append does not only hurt its own frame. While its small id is the
  oldest in the ring, frames with greater ids have already left, and
  `snapshotSinceLocked` sees no gap before them; a browser that resumes in that
  time misses them without a resync. An earlier form of the excuse named only
  the late frame, and no run objected: with a ring of two it takes eight
  publishes. The attempt to prove `LossIsExcused` found it.
- The lookup and the flight of the idempotency middleware are two critical
  sections, so a request may miss both (`idempotency.go:245`); an effect whose
  status is not cached runs again.

## 5. What is proved

For every set of tasks, ids, slots and every capacity and bound:

- `InMemoryProofs`, the queue: `TypeOK`, `PendingIsDeliverable` and
  `NoLostWake`. They are inductive together: an id leaves `Deliverable` only in
  `RecvDelete`, which removes it from `pending` too and puts its slot among
  those that reload; it leaves those only by a reload that clears `owed` or one
  that fails and is in `dropped`; and the pop moves it from the buffer to the
  hand-off. `AppendBuffers` and `TailKeepsRest` say what `Append` and `Tail` do
  to the set of buffered ids. Assumptions: the capacity is positive, `NoId` is
  no id.
- `InMemoryProofs`, the edge: types and all three properties of run `edge`, for
  rings and buffers of any size and any number of requests, connections and
  restarts. `LossIsExcused` speaks of the browser at every moment; two different
  reasons keep it true. While a stream is served, `WireInv`: what is neither
  known nor excused is in the buffer, in the replay, or still to be sent to this
  very subscriber. While none is, `CursorInv` (what lies behind the cursor was
  received or given up) and `RingInv` (a frame that left the ring lies before
  the oldest in it) leave only frames the next replay contains or a gap the next
  subscription sees: lemma `CursorCovers`, which is also what `Subscribe` needs
  to start `WireInv` anew. All three rest on `IdInv`, that an id is handed out
  once and a change is in one goroutine of `Publish`. `CacheAddsUp` is inductive
  with one more fact, that no two entries have the same key (`Distinct`): only
  then does the overwritten entry account for all the bytes `set` subtracts.
  `RunsOnce` is about a step; `RanInv` says what makes it right: the response of
  a handler that took effect is in the cache, forgotten, or with a request that
  leads the flight of its key (`FlightInv`), so who missed the cache joins that
  flight or is in the gap between lookup and flight. `Selected` and `Bytes` are
  recursive functions, and what they compute is shown by induction through the
  least number at which a claim fails (`UpTo`): the functions exist
  (`PicksExist`, `SumsExist`), a selection has exactly the entries selected
  (`SelectedHas`), one for each place (`SelectedLen`), still distinct
  (`SelectedDistinct`), and the sizes of what is selected and of what is not add
  up (`SelectedBytes`, `BytesSplit`). `SurplusIs` shows that eviction always
  finds a number of entries that is enough. Assumptions: ring and buffers are
  not empty, as `NewSSEHubWith` sees to, limits and sizes are naturals, a
  handler is a publisher, and the names for nothing are neither requests nor
  goroutines.
- `CycleLedgerProofs`: `TypeOK`, the four invariants, and the step property
  `ClosedRowsAreFrozen`. Tasks do not interact and a call touches one cycle row,
  so the inductive invariant says of one row (`RowOK`) what the invariants say
  of all, and each call is shown to keep `RowOK`. `RowOK` adds that a running
  phase is the last one: without it, closing a phase could change the row on
  which a later transition was based, and `PhasesFollowTheMachine` would not be
  inductive. Assumption: the bounds are naturals.
- `CycleLedgerTxProofs`: `InsertLandsNext`, that the tasks whose callers take
  turns implement `CycleLedger` step by step (`ImplementsLedger`), and from the
  two the corollary that such a task has at most one running cycle. Run
  `tx_two_cycles` shows that this fails as soon as two callers overlap.
  `InsertLandsNext` speaks of one step, so the invariant `TxInv` says what makes
  that step right: the number a caller has computed is at most the next free
  one; when its insert went through it is exactly that, because the rows it
  counted are never deleted and the unique index lets no second open insert have
  the same number; and in a task whose callers take turns, what a call has read
  still holds, since nobody else has written. The last part is what lets a
  commit map to one atomic call of `CycleLedger`; all earlier statements map to
  a stutter. Assumptions: a call closes a row with a terminal outcome, the
  bounds are naturals.
- `WorkerPoolProofs`: types, and every safety property of run `pool_safety`.
  `WorktreeIsExclusive` and `OneRunPerTask` follow once a slot in the harness is
  known to hold the gate of the worktree in which it works (`GateHeld`) and, as
  long as nobody has changed a worktree (`rebinds = 0`), that to be the worktree
  of its task (`HomeStays`). So one slot drives a task, and of a running task
  only that slot need be looked at: `SlotPointsIntoLedger` (the attempt and the
  phase it remembers exist), `OpenCycleIsDriven`, `RunKeepsItsCycle` and
  `FreshRunIsUnsettled` tie its place in the code to the status of the task and
  of its last cycle, and only with them are `RunningTaskIsDriven`,
  `SettledTaskIsClosed` and `LivePhaseHasADriver` kept by every step. A step of
  the ledger is a step of the instance, so the row properties come from
  `CycleLedgerProofs`; a crash is no call of the ledger, and lemma
  `FinalizedHistory` shows that its sweep leaves a legal history. Assumptions:
  the names for nothing (`NoTask` and the like) are no members, every task has a
  home worktree, the bounds are naturals.
- `SupervisorProofs`: types and the five properties of run `supervisor`, for any
  number of slots, pools and tasks. Three groups of parts
  are inductive one after the other. `OwnerInv`: what a caller in each place of
  `applySettings` holds in its locals, that it alone holds the lock there, and
  that the pool it has swapped out is the one it is about to stop; hence
  `LivePoolHasAnOwner` and `SavedSettingsAreInForce`. `CancelInv`: for each slot
  a cancel is in one place, still on its way there (`Due`), a flag that is set
  in the slot of some pool (`Flags`), or a run that was cut, so their sum is at
  most the number of cancels. `RunInv`: what a run in each of its places has
  written and has still to write (`SlotsOK`), why one that is gone left a task
  running (`SettledInv`) or a phase open (`PhaseInv`), and, as long as there has
  been one pool, a cycle (`FirstPoolInv`); whence `DrainClosesTheRun` and
  `RunningTaskIsResumable`. Assumptions: the names are distinct, the bounds
  naturals.
- `HarnessRunProofs`: types and all four properties of run `harness`. None of
  the four is inductive, since each is about a moment (a start over, a verdict,
  `done`) prepared many steps before. `Base` is what the four share: types, the
  row properties of the ledger, the bound on phase numbers, and `RunShape`,
  which says for each place of `processState` which cycle and phase rows lie
  behind it. On top, `SafeInv` has one part a property. `CleanInv`: what each
  attempt has committed lies within the branch as its base left it, so a reset
  to the base of the parent removes the commits of the parent. `BudgetInv`: the
  passes counted in `judged` are covered by verdict rows no later checkpoint
  overlooks, so a restart cannot forget a pass, or else one of them is marked
  unsaved. `BackedInv`: a lock that kept its evidence is about a revision that
  is a prefix of the branch, and what finalize may apply is locked; what a run
  has applied stays applied until it settles, whatever an operator patches
  meanwhile (`OperatorSafe`). `BlankInv`: an attempt that ended without a
  criterion applied, or with one of the excuses. Every action keeps the four
  parts; most through `InsideSafe` (a step within a run that touches one row),
  the end of a run through `Leaves`. Assumptions: the bounds are naturals and a
  world gives a number of each event.
- `TaskStoreProofs`: types and all four properties of run `tasks`.
  `NobodyIsForgotten` speaks of moments of rest; what holds in between is
  `ReadyInv`: for each admissible task there is somebody who will offer it or
  set its timer, which may be an id in the queue, the slot before its pickup, a
  list of dependents, a firing timer, or a decision on a commit that made the
  task ready or was told of its schedule (`Fresh`). A tick makes tasks
  admissible without any commit, hence `TimedInv`: no timer of a task that only
  waits for its time is missing or early. Both could be undone by a decision on
  an older commit, applied late; `LatestInv` says that while such a `Stale`
  decision is to come, so is a fresh one on the same task, by another goroutine,
  which will know it as overtaken. Commits share one lemma (`CommitTells`), so
  do the steps that have nothing to tell. `OnlyLateCriteriaRefuse` follows from
  what the run has listed and not yet marked (`CritInv`), `StartWasAdmissible`
  from what the row that was reloaded says (`AdmitInv`). `CyclesNeedTwoEdits`
  needs to know what the walk of `Reaches` computes: a task is not reached
  exactly when some set closed under dependencies has the start in it and the
  task outside (`Apart`). One direction is that the walk never leaves such a set
  (`WalkStays`), the other that it ends in one, because each step before adds a
  task and there are only so many (`WalkClosed`). Both are inductions, done
  through the least number at which the claim fails (`LeastNatural`, from the
  well-foundedness of the naturals), which needs no operator as a parameter. On
  top, `DepInv`: what a check found out still separates the task from its new
  dependencies in the edges the check has read, and while no check was out of
  date every edge is so separated (`ApartExtends` is the one step that matters:
  new edges of a task, on a check that holds, cut no other separation).
  Assumptions: the slot is no request, `NoTask` no task, there is an item, the
  tasks are finitely many, and the worlds are well formed: edges lie between
  rows that have been created, and the database at boot has no cycle yet, since
  one would stem from an earlier race.
- `GitRegistryProofs`: types with the uniqueness of rows, and all properties of
  run `git`. A request writes on the strength of what it read earlier, so the
  invariant says of the locals of each request what is still true of them.
  `KnownInv`: no row and no pending insert names a generation of a branch that
  is yet to come, so an id that is unknown never becomes known again
  (`NoRevival`). `AloneInv`: while nobody else has written, the list, the rows
  and the outcomes a reconcile holds are those of the disk and the table,
  although branch rows may have come and gone; with that its commit establishes
  `SyncedRowsHoldTheirBranch`. `LateInv`: whoever uses a row that a call is
  about to delete came after that call's guard; hence `RowLeavesQuietly`.
  Assumptions: the directories are finitely many (for the cardinality in
  `TypeOK`), and the names for nothing are neither branches nor rows.

Each of these inductive invariants was an INVARIANT of a run of TLC on the
constants of the property's own run before it was proved.

Model-checked only, and why:

- Liveness under fairness: `WakeIsServed`, `ReadyTaskIsTaken`, `RunEnds`. The
  prover knows no ENABLED.

Every safety property of a passing run is a theorem.

## 6. Not modelled

- Runners (`pkgs/agents/runner`): adapters that start an external process and
  read its output. In the models a run returns any verdict, after any time.
- Projects, drafts, templates: row-at-a-time calls without a protocol.
- The rate limiter (a library token bucket), system health and metrics: they
  keep nothing another part depends on.
- JSON encoding, validation of bodies and rendering: data.
- The main worktree and moves of a whole repository; discovery, which only the
  tests switch on.
- The web client, except for what the stream promises to it.

What the next module would be: the sessions of the runner (`cursor_resume.go`)
beside the attempts of `HarnessRun`.

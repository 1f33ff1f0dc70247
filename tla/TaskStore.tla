------------------------------ MODULE TaskStore ------------------------------
(****************************************************************************)
(* Task rows, their dependencies, gates and criteria, and who is told when  *)
(* one of them lets a task run (pkgs/tasks/store, pkgs/tasks/scheduling,    *)
(* pickup_wake.go, reconcile.go and the admission half of the worker).      *)
(* Transactions run under READ COMMITTED: a row that is locked FOR UPDATE   *)
(* is written in one step, but what a transaction reads elsewhere may be    *)
(* old by the time it writes. The facade commits first and tells the queue  *)
(* or the wake scheduler afterwards, on the goroutine of the caller.        *)
(****************************************************************************)
EXTENDS Integers, FiniteSets

CONSTANTS
  Tasks,        \* task ids
  Calls,        \* API requests that may overlap
  Items,        \* ids of checklist items
  Worlds,       \* what the database holds at boot, and what happens then: [row, edges,
                \* crit, bound]
  Cap,          \* capacity of the memory queue
  NoTask

VARIABLES
  row,     \* tasks: status ("absent": no row), pickup_not_before (0: null), gate
  edges,   \* task_dependencies, <<task_id, depends_on_task_id>>
  crit,    \* task_checklist_items of each task
  met,     \* task_checklist_completions of each task
  flag,    \* tasks whose criteria_satisfied_at is set
  cycle,   \* the latest cycle of each task: none, running or closed
  now,     \* the clock
  queue,   \* ids in the memory queue; MemoryQueue has its order and its pending set
  wake,    \* PickupWakeScheduler: the time in the heap, 0 for none
  firing,  \* ids popped by fire and not yet offered
  pass,    \* the reconcile pass: which list it walks, and what is left of it
  call,    \* where each request stands
  post,    \* what each goroutine still has to tell after its commit
  worker,  \* the slot
  seen,    \* predicates the slot's task has met since it was received
  missed,  \* admissible tasks nobody was told of, for a reason this module names
  raced,   \* some edge was written on a cycle check that was out of date
  late,    \* criteria that landed, or came undone, after the run had listed them,
           \* by a request that had found the task at rest; or by an agent's undo
  bound    \* bounds: requests, ticks, reconcile lists and restarts still to come; the kinds
           \* of requests and the single-field PATCH bodies [field, to] that are sent

rows   == <<row, edges, crit, met, flag, cycle>>
tells  == <<queue, wake, firing, pass>>
ghosts == <<missed, raced, late>>
vars   == <<rows, now, tells, call, post, worker, seen, ghosts, bound>>

Slot   == "slot"
Actors == Calls \cup {Slot}
Idle   == [pc |-> "idle", task |-> NoTask]
Absent == [status |-> "absent", pickup |-> 0, gate |-> "none"]
Gone   == [Absent EXCEPT !.status = "gone"]  \* deleted; the id is not used again
NoPass == [list |-> "none", left |-> {}]
NoPost == [stage |-> "none", task |-> NoTask, prev |-> "absent", row |-> Absent, touched |-> FALSE,
           left |-> {}, over |-> {}, overtaken |-> FALSE]

\* The domain: statuses of a task, gates (none, or in one of its states), and the
\* bodies of a PATCH of one field.
Statuses == {"ready", "running", "blocked", "review", "done", "failed", "on_hold"}
Gates    == {"none", "pending", "held", "released"}
Patches  == [field : {"title"}, to : {""}] \cup [field : {"status"}, to : Statuses]
            \cup [field : {"gate"}, to : Gates] \cup [field : {"pickup"}, to : {"clear", "soon", "later"}]
Rows     == [status : Statuses \cup {"absent", "gone"}, pickup : Nat, gate : Gates]
Bounds   == [asks : SUBSET {"create", "patch", "delete", "retry", "gate", "depend", "remove",
                            "replace", "item", "undo"},
             patches : SUBSET Patches, calls : Nat, ticks : Nat, passes : Nat, restarts : Nat]

ASSUME NamesAssumption == Slot \notin Calls /\ NoTask \notin Tasks /\ Items # {}

ASSUME TasksAssumption == IsFiniteSet(Tasks)

ASSUME WorldsAssumption ==
  \A w \in Worlds : /\ w.row \in [Tasks -> Rows] /\ w.edges \subseteq Tasks \X Tasks
                    /\ w.crit \in [Tasks -> SUBSET Items] /\ w.bound \in Bounds

\* Edges are between rows, and no set of tasks depends on itself alone.
ASSUME EdgesAssumption ==
  \A w \in Worlds :
    /\ \A t, d \in Tasks : <<t, d>> \in w.edges => "absent" \notin {w.row[t].status, w.row[d].status}
    /\ \A S \in SUBSET Tasks : S # {} => \E t \in S : \A d \in S : <<t, d>> \notin w.edges

Exists(t) == row[t].status \notin {"absent", "gone"}
Preds(t) == {d \in Tasks : <<t, d>> \in edges}
Dependents(t) == {d \in Tasks : <<d, t>> \in edges}
GateBlocks(gate) == gate \notin {"none", "released"}
Due(r)      == r.pickup <= now
DependenciesMet(t) == \A d \in Preds(t) : row[d].status = "done"

\* ReadyForAgentPickup of a row that was read, the dependencies read now.
Ready(t, r) == r.status = "ready" /\ Due(r) /\ ~GateBlocks(r.gate) /\ DependenciesMet(t)

\* ListQueueCandidates.
Dequeuable(t) == Ready(t, row[t])

Complete(t) == crit[t] \subseteq met[t]

\* The status, checked first where it becomes done.
MayBecome(t, status) == status = "done" /\ row[t].status # "done" => Complete(t)

\* A row another transaction holds FOR UPDATE.
Locked(t) == \E c \in Calls : call[c].pc = "replace" /\ call[c].task = t

\* Hydrate: a timer for every ready task whose pickup is still to come.
Hydrated == [t \in Tasks |-> IF row[t].status = "ready" /\ ~Due(row[t]) THEN row[t].pickup ELSE 0]

Init ==
  /\ \E w \in Worlds : row = w.row /\ edges = w.edges /\ crit = w.crit /\ bound = w.bound
  /\ met = [t \in Tasks |-> {}] /\ flag = {} /\ cycle = [t \in Tasks |-> "none"]
  /\ now = 1
  /\ queue = {} /\ firing = {} /\ pass = NoPass
  /\ wake = Hydrated
  /\ call = [c \in Calls |-> Idle]
  /\ post = [a \in Actors |-> NoPost]
  /\ worker = Idle
  /\ seen = {} /\ raced = FALSE /\ late = {}
  /\ missed = {t \in Tasks : Dequeuable(t)}

-----------------------------------------------------------------------------
(* Telling the queue and the scheduler. *)

\* NotifyReadyTask; a full queue refuses, and an id that is pending is already there.
Offered(t) == IF t \in queue \/ Cardinality(queue) < Cap THEN queue \cup {t} ELSE queue

MissedAfterOffer(t) == IF t \in Offered(t) THEN missed \ {t} ELSE missed \cup {t}

\* What a commit leaves to tell: dependents first when the task is now done. `over`
\* are the goroutines whose decision on an older commit of the row is still to come.
Tell(a, t, prev, r, touched) ==
  post' = [b \in Actors |->
    IF b = a
    THEN [stage |-> IF r.status = "done" /\ prev # "done" THEN "list" ELSE "decide",
          task |-> t, prev |-> prev, row |-> r, touched |-> touched, left |-> {},
          over |-> {d \in Actors \ {a} : post[d].task = t}, overtaken |-> FALSE]
    ELSE [post[b] EXCEPT !.over = @ \ {a}]]

\* notifyUnblockedDependents: list the dependents, then load and weigh each.
ListDependents(a) ==
  /\ post[a].stage = "list"
  /\ post' = [post EXCEPT ![a].stage = "each", ![a].left = Dependents(post[a].task)]
  /\ UNCHANGED <<rows, now, tells, call, worker, ghosts, bound>>

NotifyDependentFirst(a) ==
  /\ post[a].stage = "each"
  /\ IF \E d \in post[a].left : Dequeuable(d)
     THEN LET d == CHOOSE x \in post[a].left : Dequeuable(x)
          IN queue' = Offered(d) /\ missed' = MissedAfterOffer(d)
     ELSE UNCHANGED <<queue, missed>>
  /\ post' = [post EXCEPT ![a].left = {}]
  /\ UNCHANGED <<rows, now, wake, firing, pass, call, worker, raced, late, bound>>

NotifyDependent(a) ==
  /\ post[a].stage = "each"
  /\ \E d \in post[a].left :
       /\ IF Dequeuable(d)
          THEN queue' = Offered(d) /\ missed' = MissedAfterOffer(d)
          ELSE UNCHANGED <<queue, missed>>
       /\ post' = [post EXCEPT ![a].left = @ \ {d}]
  /\ UNCHANGED <<rows, now, wake, firing, pass, call, worker, raced, late, bound>>

EachNotified(a) ==
  /\ post[a].stage = "each" /\ post[a].left = {}
  /\ post' = [post EXCEPT ![a] = IF @.prev = "criteria" THEN NoPost ELSE [@ EXCEPT !.stage = "decide"]]
  /\ UNCHANGED <<rows, now, tells, call, worker, ghosts, bound>>

\* DecideNotifyAfterReadyTransition on the row as it was committed, and
\* applyNotifyDecision. Where it cancels a wake without an offer, or applies after the
\* decision of a later commit, the task may be left to the reconcile loop: the timer
\* is gone, or set to another time than the row's and then finds the task not due.
Decide(a) ==
  LET p == post[a]
      t == p.task
      ready    == p.row.status = "ready"
      schedule == ready /\ ~Due(p.row)
      notify   == ready /\ Due(p.row) /\ (p.prev # "ready" \/ p.touched)
  IN
  /\ p.stage = "decide"
  /\ wake' = [wake EXCEPT ![t] = IF schedule THEN p.row.pickup ELSE 0]
  /\ queue' = IF notify THEN Offered(t) ELSE queue
  /\ missed' = IF notify THEN MissedAfterOffer(t)
               ELSE IF \/ p.overtaken /\ (schedule => p.row.pickup # row[t].pickup)
                       \/ ready /\ ~schedule /\ wake[t] # 0
                    THEN missed \cup {t} ELSE missed
  /\ post' = [b \in Actors |->
       IF b = a THEN NoPost
       ELSE IF b \in p.over THEN [post[b] EXCEPT !.overtaken = TRUE]
       ELSE post[b]]
  /\ UNCHANGED <<rows, now, firing, pass, call, worker, raced, late, bound>>

\* A commit the facade tells nobody of: what becomes admissible waits for the loop, and
\* so does a dependent whose edge goes before its finished predecessor lists it.
Unlisted(t) == \E a \in Actors : post[a].stage = "list" /\ <<t, post[a].task>> \in edges \ edges'
Quietly == missed' = missed \cup {t \in Tasks : Dequeuable(t)' /\ (Dequeuable(t) => Unlisted(t))}

-----------------------------------------------------------------------------
(* Requests. *)

Free(c, kind) ==
  call[c].pc = "idle" /\ post[c].stage = "none" /\ bound.calls > 0 /\ kind \in bound.asks

Begin(c, pc) == call' = [call EXCEPT ![c] = pc] /\ bound' = [bound EXCEPT !.calls = @ - 1]

End(c) == call' = [call EXCEPT ![c] = Idle] /\ UNCHANGED bound

\* POST /tasks: the row, at most one dependency, its first criterion.
CreateTask(c, t) ==
  /\ Free(c, "create") /\ row[t] = Absent /\ Begin(c, Idle)
  /\ \E status \in {"ready", "on_hold"}, pickup \in {0, now + 1}, gate \in {"none", "pending"} :
       LET r == [status |-> status, pickup |-> pickup, gate |-> gate] IN
       /\ row' = [row EXCEPT ![t] = r]
       /\ crit' = [crit EXCEPT ![t] = {CHOOSE i \in Items : TRUE}]
       /\ Tell(c, t, "absent", r, FALSE)
  /\ \/ UNCHANGED edges
     \/ \E d \in Tasks : Exists(d) /\ edges' = edges \cup {<<t, d>>}
  /\ UNCHANGED <<met, flag, cycle, now, tells, worker, ghosts>>

\* PATCH /tasks/{id} with one field; "title" stands for the fields no one schedules by.
Patched(r, p) ==
  CASE p.field = "title"  -> r
    [] p.field = "status" -> [r EXCEPT !.status = p.to]
    [] p.field = "gate"   -> [r EXCEPT !.gate = p.to]
    [] p.field = "pickup" -> [r EXCEPT !.pickup = CASE p.to = "clear" -> 0
                                                    [] p.to = "soon"  -> now + 1
                                                    [] p.to = "later" -> now + 2]

PatchTask(c, t) ==
  /\ Free(c, "patch") /\ Exists(t) /\ ~Locked(t) /\ Begin(c, Idle)
  /\ \E p \in bound.patches :
       LET r == Patched(row[t], p) IN
       /\ MayBecome(t, r.status)
       /\ row' = [row EXCEPT ![t] = r]
       /\ Tell(c, t, row[t].status, r, p.field = "pickup")
       /\ UNCHANGED <<edges, crit, met, flag, cycle, now, tells, worker, raced, late>>
       /\ IF p.field = "gate" THEN Quietly ELSE UNCHANGED missed

\* DELETE: edges, criteria and cycles go with the row (ON DELETE CASCADE).
DeleteTask(c, t) ==
  /\ Free(c, "delete") /\ Exists(t) /\ ~Locked(t) /\ Begin(c, Idle)
  /\ row' = [row EXCEPT ![t] = Gone]
  /\ edges' = {e \in edges : t \notin {e[1], e[2]}}
  /\ crit' = [crit EXCEPT ![t] = {}] /\ met' = [met EXCEPT ![t] = {}]
  /\ flag' = flag \ {t} /\ cycle' = [cycle EXCEPT ![t] = "none"]
  /\ Tell(c, t, row[t].status, Gone, FALSE)
  /\ UNCHANGED <<now, tells, worker, raced, late>>
  /\ Quietly

\* POST /tasks/{id}/retry, of the latest terminal cycle.
RequestTaskRetry(c, t) ==
  LET r == [row[t] EXCEPT !.status = "ready"] IN
  /\ Free(c, "retry") /\ row[t].status = "failed" /\ cycle[t] = "closed" /\ ~Locked(t) /\ Begin(c, Idle)
  /\ row' = [row EXCEPT ![t] = r]
  /\ Tell(c, t, "failed", r, FALSE)
  /\ UNCHANGED <<edges, crit, met, flag, cycle, now, tells, worker, ghosts>>

\* PATCH /tasks/{id}/gate: the gate that was read, changed, is written back whole.
\* clear_hold releases a gate whose deadline has passed.
GateOutcomes(gate) ==
  {"released"}
    \cup (IF gate \in {"pending", "held"} THEN {"pending"} ELSE {})
    \cup (IF gate \in {"pending", "held"} THEN {"held"} ELSE {})

GateRead(c, t) ==
  /\ Free(c, "gate") /\ row[t].gate # "none"
  /\ \E gate \in GateOutcomes(row[t].gate) : Begin(c, [pc |-> "gate", task |-> t, to |-> gate])
  /\ UNCHANGED <<rows, now, tells, post, worker, ghosts>>

GateWrite(c) ==
  LET t == call[c].task IN
  /\ call[c].pc = "gate" /\ ~Locked(t)
  /\ row' = IF Exists(t) THEN [row EXCEPT ![t].gate = call[c].to] ELSE row
  /\ End(c)
  /\ UNCHANGED <<edges, crit, met, flag, cycle, now, tells, post, worker, raced, late>>
  /\ Quietly

\* wouldCreateDependencyCycle: does the walk from d along depends_on meet t?
Reaches(d, t) ==
  LET walk[n \in 0..Cardinality(Tasks)] ==
        IF n = 0 THEN {d} ELSE walk[n - 1] \cup UNION {Preds(x) : x \in walk[n - 1]}
  IN t \in walk[Cardinality(Tasks)]

AddDependencyCheckDirect(c, t, d) ==
  /\ Free(c, "depend") /\ Exists(t) /\ Exists(d) /\ t # d /\ t \notin Preds(d)
  /\ Begin(c, [pc |-> "insert", task |-> t, on |-> {d}, read |-> edges])
  /\ UNCHANGED <<rows, now, tells, post, worker, ghosts>>

AddDependencyCheck(c, t, d) ==
  /\ Free(c, "depend") /\ Exists(t) /\ Exists(d) /\ ~Reaches(d, t)
  /\ Begin(c, [pc |-> "insert", task |-> t, on |-> {d}, read |-> edges])
  /\ UNCHANGED <<rows, now, tells, post, worker, ghosts>>

\* The insert; a duplicate is accepted, a row gone meanwhile fails the foreign key.
AddDependencyInsert(c) ==
  LET t == call[c].task IN
  /\ call[c].pc = "insert"
  /\ IF \A x \in call[c].on \cup {t} : Exists(x)
     THEN /\ edges' = edges \cup ({t} \X call[c].on)
          /\ raced' = (raced \/ ~(edges \subseteq call[c].read))
     ELSE UNCHANGED <<edges, raced>>
  /\ End(c)
  /\ UNCHANGED <<row, crit, met, flag, cycle, now, tells, post, worker, missed, late>>

RemoveDependency(c, e) ==
  /\ Free(c, "remove") /\ Begin(c, Idle)
  /\ edges' = edges \ {e}
  /\ UNCHANGED <<row, crit, met, flag, cycle, now, tells, post, worker, raced, late>>
  /\ Quietly

\* PATCH depends_on: the row stays locked from the check to the replacement.
SetDependenciesCheck(c, t, on) ==
  /\ Free(c, "replace") /\ Exists(t) /\ ~Locked(t)
  /\ \A d \in on : Exists(d) /\ ~Reaches(d, t)
  /\ Begin(c, [pc |-> "replace", task |-> t, on |-> on, read |-> edges])
  /\ UNCHANGED <<rows, now, tells, post, worker, ghosts>>

SetDependenciesReplace(c) ==
  LET t == call[c].task IN
  /\ call[c].pc = "replace"
  /\ End(c)
  /\ UNCHANGED <<row, crit, met, flag, cycle, now, tells, worker, late>>
  /\ IF \A d \in call[c].on : Exists(d)
     THEN /\ edges' = {e \in edges : e[1] # t} \cup ({t} \X call[c].on)
          /\ raced' = (raced \/ ~(edges \subseteq call[c].read))
          /\ Tell(c, t, row[t].status, row[t], FALSE)
          /\ Quietly
     ELSE UNCHANGED <<edges, raced, post, missed>>

-----------------------------------------------------------------------------
(* Criteria. *)

\* Add and Delete load the task, refuse while it runs, and write without its lock.
ItemLoadAnytime(c, t, i) ==
  /\ Free(c, "item") /\ Exists(t)
  /\ Begin(c, [pc |-> IF i \in crit[t] THEN "delete" ELSE "add", task |-> t, item |-> i,
               found |-> row[t].status])
  /\ UNCHANGED <<rows, now, tells, post, worker, ghosts>>

ItemLoad(c, t, i) ==
  /\ Free(c, "item") /\ Exists(t) /\ row[t].status # "running"
  /\ Begin(c, [pc |-> IF i \in crit[t] THEN "delete" ELSE "add", task |-> t, item |-> i,
               found |-> row[t].status])
  /\ UNCHANGED <<rows, now, tells, post, worker, ghosts>>

\* The slot's run has listed the criteria of t.
Listed(t) == worker.task = t /\ worker.pc \in {"run", "mark", "close", "settle"}

ItemAdd(c) ==
  LET t == call[c].task IN
  /\ call[c].pc = "add"
  /\ crit' = IF Exists(t) THEN [crit EXCEPT ![t] = @ \cup {call[c].item}] ELSE crit
  /\ late' = IF Listed(t) /\ call[c].found # "running" THEN late \cup {call[c].item} ELSE late
  /\ End(c)
  /\ UNCHANGED <<row, edges, met, flag, cycle, now, tells, post, worker, missed, raced>>

\* A criterion that is met can be removed once the task is done.
ItemDelete(c) ==
  LET t == call[c].task
      gone == {i \in {call[c].item} : i \in met[t] => call[c].found = "done"}
  IN
  /\ call[c].pc = "delete"
  /\ crit' = [crit EXCEPT ![t] = @ \ gone]
  /\ met' = [met EXCEPT ![t] = @ \ gone]
  /\ End(c)
  /\ UNCHANGED <<row, edges, flag, cycle, now, tells, post, worker, ghosts>>

\* SetDone(false): an agent may take a completion back at any time.
ItemUndo(c, t, i) ==
  /\ Free(c, "undo") /\ i \in met[t] /\ Begin(c, Idle)
  /\ met' = [met EXCEPT ![t] = @ \ {i}]
  /\ flag' = IF i \in crit[t] THEN flag \ {t} ELSE flag
  /\ late' = IF Listed(t) THEN late \cup {i} ELSE late
  /\ UNCHANGED <<row, edges, crit, cycle, now, tells, post, worker, missed, raced>>

-----------------------------------------------------------------------------
(* The slot: admission and the part of a run that touches these rows. *)

Drop == worker' = Idle

Receive(t) ==
  /\ worker = Idle /\ post[Slot].stage = "none" /\ t \in queue
  /\ queue' = queue \ {t}
  /\ worker' = [pc |-> "reload", task |-> t]
  /\ UNCHANGED <<rows, now, wake, firing, pass, call, post, ghosts, bound>>

Reload ==
  LET t == worker.task IN
  /\ worker.pc = "reload"
  /\ CASE row[t].status = "ready" -> worker' = [pc |-> "check", task |-> t, row |-> row[t]]
       [] row[t].status = "running" /\ cycle[t] = "running" -> worker' = [pc |-> "list", task |-> t]
       [] OTHER -> Drop
  /\ UNCHANGED <<rows, now, tells, call, post, ghosts, bound>>

\* ReadyForAgentPickup of the row reloaded; the worktree of the task may be taken.
CheckStatusOnly ==
  LET t == worker.task IN
  /\ worker.pc = "check"
  /\ \E busy \in BOOLEAN :
       worker' = [pc |-> IF worker.row.status = "ready" /\ ~busy THEN "pickup" ELSE "defer", task |-> t]
  /\ UNCHANGED <<rows, now, tells, call, post, ghosts, bound>>

Check ==
  LET t == worker.task IN
  /\ worker.pc = "check"
  /\ \E busy \in BOOLEAN :
       worker' = [pc |-> IF Ready(t, worker.row) /\ ~busy THEN "pickup" ELSE "defer", task |-> t]
  /\ UNCHANGED <<rows, now, tells, call, post, ghosts, bound>>

\* deferTaskPickup: whatever pickup time the row has by now is replaced.
Defer ==
  LET t == worker.task
      r == [row[t] EXCEPT !.pickup = now + 1]
  IN
  /\ worker.pc = "defer" /\ ~Locked(t)
  /\ IF Exists(t)
     THEN row' = [row EXCEPT ![t] = r] /\ Tell(Slot, t, r.status, r, TRUE)
     ELSE UNCHANGED <<row, post>>
  /\ Drop
  /\ UNCHANGED <<edges, crit, met, flag, cycle, now, tells, call, ghosts, bound>>

\* AgentPickup looks at the status alone; StartCycle follows.
Pickup ==
  LET t == worker.task IN
  /\ worker.pc = "pickup" /\ ~Locked(t)
  /\ IF row[t].status = "ready"
     THEN /\ row' = [row EXCEPT ![t].status = "running"]
          /\ cycle' = [cycle EXCEPT ![t] = "running"]
          /\ worker' = [pc |-> "list", task |-> t]
     ELSE Drop /\ UNCHANGED <<row, cycle>>
  /\ UNCHANGED <<edges, crit, met, flag, now, tells, call, post, ghosts, bound>>

\* LoadSnapshot lists the criteria before the first phase.
List ==
  /\ worker.pc = "list"
  /\ worker' = [pc |-> "run", task |-> worker.task, left |-> crit[worker.task]]
  /\ late' = {}
  /\ UNCHANGED <<rows, now, tells, call, post, missed, raced, bound>>

Verdict ==
  /\ worker.pc = "run"
  /\ \/ worker' = [worker EXCEPT !.pc = "mark"]
     \/ worker' = [pc |-> "close", task |-> worker.task, to |-> "failed"]
  /\ UNCHANGED <<rows, now, tells, call, post, ghosts, bound>>

\* SetDoneWithEvidence, one transaction for each criterion that was listed; one that
\* was deleted is skipped. Completing the list wakes the dependents that are ready.
Mark ==
  LET t == worker.task IN
  /\ worker.pc = "mark" /\ post[Slot].stage = "none"
  /\ \E i \in worker.left :
       LET done == IF i \in crit[t] THEN met[t] \cup {i} ELSE met[t]
           complete == i \in crit[t] /\ crit[t] \subseteq done
       IN
       /\ met' = [met EXCEPT ![t] = done]
       /\ flag' = IF complete THEN flag \cup {t} ELSE IF i \in crit[t] THEN flag \ {t} ELSE flag
       /\ IF complete /\ t \notin flag
          THEN post' = [post EXCEPT ![Slot] = [NoPost EXCEPT !.stage = "list", !.task = t, !.prev = "criteria"]]
          ELSE UNCHANGED post
       /\ worker' = [worker EXCEPT !.left = @ \ {i}]
  /\ UNCHANGED <<row, edges, crit, cycle, now, tells, call, ghosts, bound>>

Marked ==
  /\ worker.pc = "mark" /\ worker.left = {} /\ post[Slot].stage = "none"
  /\ worker' = [pc |-> "close", task |-> worker.task, to |-> "done"]
  /\ UNCHANGED <<rows, now, tells, call, post, ghosts, bound>>

\* TerminateCycle; without the row there is nothing left to do.
Close ==
  LET t == worker.task IN
  /\ worker.pc = "close"
  /\ IF cycle[t] = "running"
     THEN /\ cycle' = [cycle EXCEPT ![t] = "closed"]
          /\ worker' = [worker EXCEPT !.pc = "settle"]
     ELSE Drop /\ UNCHANGED cycle
  /\ UNCHANGED <<row, edges, crit, met, flag, now, tells, call, post, ghosts, bound>>

\* transitionTask. The store may refuse it, and the task stays running with no cycle.
Settle ==
  LET t == worker.task
      r == [row[t] EXCEPT !.status = worker.to]
  IN
  /\ worker.pc = "settle" /\ ~Locked(t)
  /\ IF Exists(t) /\ MayBecome(t, worker.to)
     THEN row' = [row EXCEPT ![t] = r] /\ Tell(Slot, t, row[t].status, r, FALSE)
     ELSE UNCHANGED <<row, post>>
  /\ Drop
  /\ UNCHANGED <<edges, crit, met, flag, cycle, now, tells, call, ghosts, bound>>

-----------------------------------------------------------------------------
(* The wake scheduler, the reconcile loop, time and restarts. *)

Tick ==
  /\ bound.ticks > 0
  /\ bound' = [bound EXCEPT !.ticks = @ - 1]
  /\ now' = now + 1
  /\ UNCHANGED <<rows, tells, call, post, worker, ghosts>>

Fire(t) ==
  /\ wake[t] # 0 /\ wake[t] <= now
  /\ wake' = [wake EXCEPT ![t] = 0]
  /\ firing' = firing \cup {t}
  /\ UNCHANGED <<rows, now, queue, pass, call, post, worker, ghosts, bound>>

\* tryNotify looks at the status and the pickup time of the row as it is now.
TryNotify(t) ==
  /\ t \in firing
  /\ firing' = firing \ {t}
  /\ IF row[t].status = "ready" /\ Due(row[t])
     THEN queue' = Offered(t) /\ missed' = MissedAfterOffer(t)
     ELSE UNCHANGED <<queue, missed>>
  /\ UNCHANGED <<rows, now, wake, pass, call, post, worker, raced, late, bound>>

\* ReconcileReadyTasksNotQueued, then ReconcileRunningTasksNotQueued.
ListPass ==
  /\ pass.left = {} /\ bound.passes > 0
  /\ bound' = [bound EXCEPT !.passes = @ - 1]
  /\ pass' = CASE pass.list = "none"  -> [list |-> "ready", left |-> {t \in Tasks : Dequeuable(t)}]
               [] pass.list = "ready" -> [list |-> "running", left |-> {t \in Tasks : cycle[t] = "running"}]
               [] pass.list = "running" -> NoPass
  /\ UNCHANGED <<rows, now, queue, wake, firing, call, post, worker, ghosts>>

\* A listed ready task is offered as it was listed, a running one after another look;
\* a full queue ends the list.
OfferListed(t) ==
  /\ t \in pass.left
  /\ IF pass.list = "ready" \/ row[t].status = "running"
     THEN /\ queue' = Offered(t) /\ missed' = MissedAfterOffer(t)
          /\ pass' = [pass EXCEPT !.left = IF t \in Offered(t) THEN @ \ {t} ELSE {}]
     ELSE /\ UNCHANGED <<queue, missed>>
          /\ pass' = [pass EXCEPT !.left = @ \ {t}]
  /\ UNCHANGED <<rows, now, wake, firing, call, post, worker, raced, late, bound>>

\* The process dies and boots: queue, timers, requests and the slot are gone.
Restart ==
  /\ bound.restarts > 0
  /\ bound' = [bound EXCEPT !.restarts = @ - 1]
  /\ queue' = {} /\ firing' = {} /\ pass' = NoPass /\ wake' = Hydrated
  /\ call' = [c \in Calls |-> Idle]
  /\ post' = [a \in Actors |-> NoPost]
  /\ worker' = Idle /\ late' = {}
  /\ missed' = {t \in Tasks : Dequeuable(t)}
  /\ UNCHANGED <<rows, now, raced>>

-----------------------------------------------------------------------------
Request(c) ==
  \/ \E t \in Tasks :
       \/ CreateTask(c, t)
       \/ PatchTask(c, t)
       \/ DeleteTask(c, t)
       \/ RequestTaskRetry(c, t)
       \/ GateRead(c, t)
       \/ \E d \in Tasks : AddDependencyCheck(c, t, d)
       \/ \E on \in SUBSET Tasks : SetDependenciesCheck(c, t, on)
       \/ \E i \in Items : ItemLoad(c, t, i) \/ ItemUndo(c, t, i)
  \/ GateWrite(c)
  \/ AddDependencyInsert(c)
  \/ \E e \in edges : RemoveDependency(c, e)
  \/ SetDependenciesReplace(c)
  \/ ItemAdd(c)
  \/ ItemDelete(c)

AfterCommit(a) ==
  \/ ListDependents(a)
  \/ NotifyDependent(a)
  \/ EachNotified(a)
  \/ Decide(a)

SlotStep ==
  \/ \E t \in Tasks : Receive(t)
  \/ Reload \/ Check \/ Defer \/ Pickup
  \/ List \/ Verdict \/ Mark \/ Marked \/ Close \/ Settle

Background ==
  \/ Tick
  \/ \E t \in Tasks : Fire(t) \/ TryNotify(t) \/ OfferListed(t)
  \/ ListPass
  \/ Restart

\* Which of the four predicates the slot's task meets in this state; the pickup time
\* is the row's or the one that was read, which may be moved while it comes due.
Holding ==
  LET t == worker.task IN
  IF worker = Idle THEN {}
  ELSE {p \in {"status", "pickup", "gate", "dependencies"} :
         CASE p = "status" -> row[t].status = "ready"
           [] p = "pickup" -> Due(row[t]) \/ (worker.pc = "check" /\ Due(worker.row))
           [] p = "gate"   -> ~GateBlocks(row[t].gate)
           [] p = "dependencies" -> DependenciesMet(t)}

Watch == seen' = IF worker' = Idle THEN {} ELSE seen \cup Holding'

Next ==
  /\ \/ \E c \in Calls : Request(c)
     \/ \E a \in Actors : AfterCommit(a)
     \/ SlotStep
     \/ Background
  /\ Watch

Spec == Init /\ [][Next]_vars

-----------------------------------------------------------------------------
(* Properties. *)

\* Nothing is under way that may still speak for t.
AtRest(t) ==
  /\ \A a \in Actors : post[a].task # t /\ t \notin post[a].left
  /\ \A a \in Actors : post[a].stage = "list" => t \notin Dependents(post[a].task)
  /\ worker.task # t /\ t \notin firing /\ t \notin pass.left

\* A task that may run, and that nobody is about to handle, is in the queue or has a
\* timer, unless it was missed: it became admissible through a gate, an edit of its
\* dependencies or a deletion, which tell nobody; the queue was full; its timer was
\* cancelled, or moved off the row's pickup time, by a decision that was late or
\* touched something else; or the process restarted. In particular the last of several predecessors to finish always tells,
\* however their transactions and notifications interleave (facade_tasks.go:101).
NobodyIsForgotten ==
  \A t \in Tasks : Dequeuable(t) /\ AtRest(t) => t \in queue \/ wake[t] # 0 \/ t \in missed

\* A cycle of dependencies, whose tasks never run again, needs two edits at once: one
\* wrote an edge between the cycle check and the insert of the other (dependencies.go:38).
CyclesNeedTwoEdits ==
  (\E e \in edges : Reaches(e[2], e[1])) => raced

\* A run starts only on a task that met each predicate at some moment since its id left
\* the queue, although the row, the dependencies and the status are read at three
\* moments (docs/domain/task-scheduling.md, Admission).
StartWasAdmissible ==
  [][worker.pc = "pickup" /\ worker' # Idle
       => seen = {"status", "pickup", "gate", "dependencies"}]_vars

\* The store refuses to settle a verified run as done only over a criterion that a
\* request, sent before the run began, added behind its back, or that an agent undid
\* (checklist.go:141 "rejected while status=running").
OnlyLateCriteriaRefuse ==
  worker.pc = "settle" /\ worker.to = "done" => crit[worker.task] \ met[worker.task] \subseteq late
=============================================================================

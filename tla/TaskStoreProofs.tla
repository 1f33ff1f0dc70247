-------------------------- MODULE TaskStoreProofs --------------------------
(* Proofs about TaskStore for every set of tasks, requests and items, every *)
(* capacity of the queue and every world.                                   *)
EXTENDS TaskStore, FiniteSetTheorems, WellFoundedInduction, TLAPS

-----------------------------------------------------------------------------
(* The invariant.                                                           *)

WorkerStates ==
  {Idle}
    \cup [pc : {"reload", "list", "pickup", "defer"}, task : Tasks]
    \cup [pc : {"check"}, task : Tasks, row : Rows]
    \cup [pc : {"run", "mark"}, task : Tasks, left : SUBSET Items]
    \cup [pc : {"close", "settle"}, task : Tasks, to : {"done", "failed"}]

CallStates ==
  {Idle}
    \cup [pc : {"gate"}, task : Tasks, to : Gates]
    \cup [pc : {"insert", "replace"}, task : Tasks, on : SUBSET Tasks, read : SUBSET (Tasks \X Tasks)]
    \cup [pc : {"add", "delete"}, task : Tasks, item : Items, found : Statuses]

Posts ==
  [stage : {"none", "list", "each", "decide"}, task : Tasks \cup {NoTask},
   prev : Statuses \cup {"absent", "gone", "criteria"}, row : Rows, touched : BOOLEAN,
   left : SUBSET Tasks, over : SUBSET Actors, overtaken : BOOLEAN]

Predicates == {"status", "pickup", "gate", "dependencies"}

TypeOK ==
  /\ row \in [Tasks -> Rows] /\ edges \subseteq Tasks \X Tasks
  /\ crit \in [Tasks -> SUBSET Items] /\ met \in [Tasks -> SUBSET Items] /\ flag \subseteq Tasks
  /\ cycle \in [Tasks -> {"none", "running", "closed"}]
  /\ now \in Nat
  /\ queue \subseteq Tasks /\ wake \in [Tasks -> Nat] /\ firing \subseteq Tasks
  /\ pass \in [list : {"none", "ready", "running"}, left : SUBSET Tasks]
  /\ call \in [Calls -> CallStates]
  /\ post \in [Actors -> Posts]
  /\ worker \in WorkerStates
  /\ seen \subseteq Predicates
  /\ missed \subseteq Tasks /\ raced \in BOOLEAN /\ late \subseteq Items
  /\ bound \in Bounds

\* A goroutine has one thing to tell at a time, and tells it before it goes on.
PostInv ==
  /\ \A a \in Actors :
       /\ post[a].stage = "none" => post[a].task = NoTask /\ post[a].left = {}
       /\ post[a].stage # "none" => post[a].task \in Tasks
       /\ post[a].stage = "decide" => post[a].prev # "criteria"
  /\ \A c \in Calls : call[c].pc # "idle" => post[c].stage = "none"
  /\ worker.pc \notin {"idle", "mark"} => post[Slot].stage = "none"

\* What the queue holds, or is about to, has been created.
Known(t) == row[t].status # "absent"
KnownInv ==
  /\ \A t \in queue : Known(t)
  /\ worker.pc # "idle" => Known(worker.task)
  /\ pass.list = "ready" => \A t \in pass.left : Known(t)
  /\ \A a \in Actors : post[a].stage # "none" /\ post[a].row.status = "ready" => Known(post[a].task)

\* The run marks what it listed; what it did not list came late.
CritInv ==
  LET t == worker.task IN
  /\ worker.pc = "run" => crit[t] \subseteq worker.left \cup late
  /\ worker.pc = "mark" => crit[t] \ met[t] \subseteq worker.left \cup late
  /\ worker.pc \in {"close", "settle"} /\ worker.to = "done" => crit[t] \ met[t] \subseteq late
  /\ \A c \in Calls : call[c].pc = "add" => call[c].found # "running"

\* What the row that was read says has been seen to hold.
AdmitInv ==
  /\ worker.pc = "check" =>
       /\ "status" \in seen
       /\ Due(worker.row) => "pickup" \in seen
       /\ ~GateBlocks(worker.row.gate) => "gate" \in seen
  /\ worker.pc = "pickup" => seen = Predicates

\* The slot has taken t and has not yet decided on it.
Handles(t) == worker.pc \in {"reload", "check", "defer", "pickup"} /\ worker.task = t

\* A decision to come that will offer t or set its timer.
Fresh(a, t) ==
  /\ post[a].stage = "decide" /\ post[a].task = t
  /\ post[a].row.status = "ready" /\ (post[a].prev # "ready" \/ post[a].touched)

\* A list of dependents, made or to be made, with t in it.
Lists(a, t) ==
  \/ post[a].stage = "list" /\ t \in Dependents(post[a].task)
  \/ post[a].stage = "each" /\ t \in post[a].left

Held(t) == t \in queue \cup missed \/ Handles(t) \/ \E a \in Actors : Fresh(a, t)

\* Somebody is about to tell of a task that may run, or it was missed.
Spoken(t) == Held(t) \/ wake[t] # 0 \/ t \in firing \/ \E a \in Actors : Lists(a, t)
ReadyInv == \A t \in Tasks : Dequeuable(t) => Spoken(t)

\* No timer of a task that only waits for its time goes off too early.
Timed(t) == Held(t) \/ wake[t] >= row[t].pickup
TimedInv == \A t \in Tasks : row[t].status = "ready" /\ ~Due(row[t]) => Timed(t)

\* The decision of a is about a row that has been written again, and nobody who wrote
\* it has decided since: then one of them is still to come, and will set that right.
Stale(a) ==
  /\ post[a].stage # "none" /\ post[a].prev # "criteria" /\ ~post[a].overtaken
  /\ row[post[a].task].status = "ready"
  /\ post[a].row.status # "ready" \/ post[a].row.pickup # row[post[a].task].pickup
Righted(a) == \E b \in Actors : b # a /\ Fresh(b, post[a].task) /\ a \in post[b].over
LatestInv == \A a \in Actors : Stale(a) => Righted(a)

IInv ==
  /\ TypeOK /\ PostInv /\ KnownInv /\ CritInv /\ AdmitInv
  /\ ReadyInv /\ TimedInv /\ LatestInv

-----------------------------------------------------------------------------
(* Types.                                                                   *)

LEMMA SlotIsAnActor == Slot \in Actors /\ Calls \subseteq Actors /\ Slot \notin Calls
  BY NamesAssumption DEF Actors

LEMMA WorkerShape ==
    ASSUME worker \in WorkerStates
    PROVE  /\ worker.pc \in {"idle", "reload", "list", "pickup", "defer", "check", "run", "mark",
                             "close", "settle"}
           /\ worker = Idle <=> worker.pc = "idle"
           /\ worker.pc # "idle" => worker.task \in Tasks
           /\ worker.pc = "idle" => worker.task = NoTask
           /\ worker.pc = "check" => worker.row \in Rows
           /\ worker.pc \in {"run", "mark"} => worker.left \subseteq Items
           /\ worker.pc \in {"close", "settle"} => worker.to \in {"done", "failed"}
  BY DEF WorkerStates, Idle

LEMMA CallShape ==
    ASSUME call \in [Calls -> CallStates], NEW c \in Calls
    PROVE  /\ call[c].pc \in {"idle", "gate", "insert", "replace", "add", "delete"}
           /\ call[c].pc # "idle" => call[c].task \in Tasks
           /\ call[c].pc = "gate" => call[c].to \in Gates
           /\ call[c].pc \in {"insert", "replace"} =>
                call[c].on \subseteq Tasks /\ call[c].read \subseteq Tasks \X Tasks
           /\ call[c].pc \in {"add", "delete"} => call[c].item \in Items /\ call[c].found \in Statuses
  BY DEF CallStates, Idle

LEMMA TellTypes ==
    ASSUME TypeOK, NEW a \in Actors, NEW t \in Tasks,
           NEW prev \in Statuses \cup {"absent", "gone"}, NEW r \in Rows, NEW touched \in BOOLEAN,
           Tell(a, t, prev, r, touched)
    PROVE  post' \in [Actors -> Posts]
<1>1. SUFFICES ASSUME NEW b \in Actors
               PROVE  (IF b = a
                       THEN [stage |-> IF r.status = "done" /\ prev # "done" THEN "list" ELSE "decide",
                             task |-> t, prev |-> prev, row |-> r, touched |-> touched, left |-> {},
                             over |-> {d \in Actors \ {a} : post[d].task = t}, overtaken |-> FALSE]
                       ELSE [post[b] EXCEPT !.over = @ \ {a}]) \in Posts
  BY DEF Tell
<1>2. CASE b = a
  BY <1>2 DEF Posts
<1>3. CASE b # a
  <2>1. post[b] \in Posts
    BY DEF TypeOK
  <2> QED
    BY <1>3, <2>1 DEF Posts
<1> QED
  BY <1>2, <1>3

LEMMA BeginTypes ==
    ASSUME TypeOK, NEW c \in Calls, NEW pc \in CallStates, bound.calls > 0, Begin(c, pc)
    PROVE  call' \in [Calls -> CallStates] /\ bound' \in Bounds
<1>1. bound \in Bounds /\ call \in [Calls -> CallStates]
  BY DEF TypeOK
<1>2. bound.calls - 1 \in Nat
  BY <1>1 DEF Bounds
<1> QED
  BY <1>1, <1>2 DEF Begin, Bounds

LEMMA EndTypes ==
    ASSUME TypeOK, NEW c \in Calls, End(c)
    PROVE  call' \in [Calls -> CallStates] /\ bound' = bound
  BY DEF End, TypeOK, CallStates

LEMMA RowTypes ==
    ASSUME TypeOK, NEW t \in Tasks
    PROVE  /\ row[t] \in Rows /\ row[t].status \in Statuses \cup {"absent", "gone"}
           /\ row[t].pickup \in Nat /\ row[t].gate \in Gates
           /\ Gone \in Rows /\ Absent \in Rows
           /\ Exists(t) => row[t].status \in Statuses
  BY DEF TypeOK, Rows, Exists, Gone, Absent, Gates

LEMMA OfferedTypes ==
    ASSUME NEW t \in Tasks, queue \subseteq Tasks, missed \subseteq Tasks
    PROVE  /\ Offered(t) \subseteq Tasks /\ MissedAfterOffer(t) \subseteq Tasks
           /\ queue \subseteq Offered(t) /\ Offered(t) \subseteq queue \cup {t}
           /\ missed \subseteq MissedAfterOffer(t) \cup {t}
           /\ t \in Offered(t) \cup MissedAfterOffer(t)
           /\ \A u : u # t /\ u \in missed => u \in MissedAfterOffer(t)
           /\ missed \subseteq MissedAfterOffer(t) \cup Offered(t)
  BY DEF Offered, MissedAfterOffer

LEMMA InitIdle ==
  Idle \in WorkerStates /\ Idle \in CallStates /\ NoPost \in Posts
  BY DEF Idle, WorkerStates, CallStates, NoPost, Posts, Absent, Rows, Gates

LEMMA InitTypes == Init => TypeOK
<1>1. SUFFICES ASSUME Init PROVE TypeOK
  OBVIOUS
<1>2. /\ row \in [Tasks -> Rows] /\ edges \subseteq Tasks \X Tasks
      /\ crit \in [Tasks -> SUBSET Items] /\ bound \in Bounds
  BY <1>1, WorldsAssumption DEF Init
<1>3. wake \in [Tasks -> Nat]
  BY <1>1, <1>2 DEF Init, Hydrated, Rows
<1>4. pass \in [list : {"none", "ready", "running"}, left : SUBSET Tasks]
  BY <1>1 DEF Init, NoPass
<1> QED
  BY <1>1, <1>2, <1>3, <1>4, InitIdle DEF Init, TypeOK

-----------------------------------------------------------------------------
(* Types are kept. What a request may do is one of these.                   *)

LEMMA SeenTypes ==
    ASSUME seen \subseteq Predicates, Watch
    PROVE  seen' \subseteq Predicates
  BY DEF Watch, Holding, Predicates

LEMMA CreateTypes ==
    ASSUME TypeOK, NEW c \in Calls, NEW t \in Tasks, CreateTask(c, t), Watch
    PROVE  TypeOK'
<1>1. PICK status \in {"ready", "on_hold"}, pickup \in {0, now + 1}, gate \in {"none", "pending"} :
         LET r == [status |-> status, pickup |-> pickup, gate |-> gate] IN
         /\ row' = [row EXCEPT ![t] = r]
         /\ crit' = [crit EXCEPT ![t] = {CHOOSE i \in Items : TRUE}]
         /\ Tell(c, t, "absent", r, FALSE)
  BY DEF CreateTask
<1> DEFINE r == [status |-> status, pickup |-> pickup, gate |-> gate]
<1>2. r \in Rows
  BY DEF TypeOK, Rows, Statuses, Gates
<1>3. post' \in [Actors -> Posts]
  BY <1>1, <1>2, TellTypes, SlotIsAnActor
<1>4. (CHOOSE i \in Items : TRUE) \in Items
  BY NamesAssumption
<1>5. row' \in [Tasks -> Rows] /\ crit' \in [Tasks -> SUBSET Items]
  BY <1>1, <1>2, <1>4 DEF TypeOK
<1>6. edges' \subseteq Tasks \X Tasks
  BY DEF CreateTask, TypeOK
<1>7. call' \in [Calls -> CallStates] /\ bound' \in Bounds
  BY BeginTypes, InitIdle DEF CreateTask, Free
<1> QED
  BY <1>3, <1>5, <1>6, <1>7, SeenTypes DEF CreateTask, TypeOK, tells, ghosts

LEMMA PatchedTypes ==
    ASSUME TypeOK, NEW t \in Tasks, Exists(t), NEW p \in bound.patches
    PROVE  /\ Patched(row[t], p) \in Rows
           /\ Patched(row[t], p).status \in Statuses
           /\ p.field # "status" => Patched(row[t], p).status = row[t].status
           /\ p.field # "pickup" => Patched(row[t], p).pickup = row[t].pickup
           /\ p.field # "gate" => Patched(row[t], p).gate = row[t].gate
<1>1. p \in Patches
  BY DEF TypeOK, Bounds
<1>2. row[t] \in Rows /\ row[t].status \in Statuses /\ now \in Nat
  BY RowTypes DEF TypeOK
<1>3. CASE p.field = "title"
  BY <1>2, <1>3 DEF Patched
<1>4. CASE p.field = "status"
  <2>1. p.to \in Statuses
    BY <1>1, <1>4 DEF Patches
  <2> QED
    BY <1>2, <1>4, <2>1 DEF Patched, Rows
<1>5. CASE p.field = "gate"
  <2>1. p.to \in Gates
    BY <1>1, <1>5 DEF Patches
  <2> QED
    BY <1>2, <1>5, <2>1 DEF Patched, Rows
<1>6. CASE p.field = "pickup"
  <2>1. p.to \in {"clear", "soon", "later"}
    BY <1>1, <1>6 DEF Patches
  <2> DEFINE at == CASE p.to = "clear" -> 0 [] p.to = "soon" -> now + 1 [] p.to = "later" -> now + 2
  <2>2. at \in Nat
    BY <1>2, <2>1
  <2>3. Patched(row[t], p) = [row[t] EXCEPT !.pickup = at]
    BY <1>6 DEF Patched
  <2> HIDE DEF at
  <2> QED
    BY <1>2, <1>6, <2>2, <2>3 DEF Rows
<1> QED
  BY <1>1, <1>3, <1>4, <1>5, <1>6 DEF Patches

LEMMA QuietlyTypes ==
    ASSUME missed \subseteq Tasks, Quietly
    PROVE  /\ missed' \subseteq Tasks /\ missed \subseteq missed'
           /\ \A t \in Tasks : Dequeuable(t)' /\ (Dequeuable(t) => Unlisted(t)) => t \in missed'
<1> DEFINE P(t) == Dequeuable(t)' /\ (Dequeuable(t) => Unlisted(t))
<1>1. missed' = missed \cup {t \in Tasks : P(t)}
  BY DEF Quietly
<1> HIDE DEF P
<1>2. /\ missed' \subseteq Tasks /\ missed \subseteq missed'
      /\ \A t \in Tasks : P(t) => t \in missed'
  BY <1>1
<1> USE DEF P
<1> QED
  BY <1>2

LEMMA PatchTypes ==
    ASSUME TypeOK, NEW c \in Calls, NEW t \in Tasks, PatchTask(c, t), Watch
    PROVE  TypeOK'
<1>1. PICK p \in bound.patches :
         LET r == Patched(row[t], p) IN
         /\ MayBecome(t, r.status)
         /\ row' = [row EXCEPT ![t] = r]
         /\ Tell(c, t, row[t].status, r, p.field = "pickup")
         /\ UNCHANGED <<edges, crit, met, flag, cycle, now, tells, worker, raced, late>>
         /\ IF p.field = "gate" THEN Quietly ELSE UNCHANGED missed
  BY DEF PatchTask
<1> DEFINE r == Patched(row[t], p)
<1>2. r \in Rows /\ row[t].status \in Statuses
  BY PatchedTypes, RowTypes DEF PatchTask
<1> HIDE DEF r
<1>3. post' \in [Actors -> Posts]
  BY <1>1, <1>2, TellTypes, SlotIsAnActor DEF r
<1>4. row' \in [Tasks -> Rows]
  BY <1>1, <1>2 DEF TypeOK, r
<1>5. call' \in [Calls -> CallStates] /\ bound' \in Bounds
  BY BeginTypes, InitIdle DEF PatchTask, Free
<1>6. missed' \subseteq Tasks
  BY <1>1, QuietlyTypes DEF TypeOK
<1> QED
  BY <1>1, <1>3, <1>4, <1>5, <1>6, SeenTypes DEF TypeOK, tells

LEMMA DeleteTypes ==
    ASSUME TypeOK, NEW c \in Calls, NEW t \in Tasks, DeleteTask(c, t), Watch
    PROVE  TypeOK'
<1>1. post' \in [Actors -> Posts]
  BY TellTypes, SlotIsAnActor, RowTypes DEF DeleteTask
<1>2. call' \in [Calls -> CallStates] /\ bound' \in Bounds
  BY BeginTypes, InitIdle DEF DeleteTask, Free
<1>3. missed' \subseteq Tasks
  BY QuietlyTypes DEF TypeOK, DeleteTask
<1>4. row' \in [Tasks -> Rows]
  BY RowTypes DEF TypeOK, DeleteTask
<1> QED
  BY <1>1, <1>2, <1>3, <1>4, SeenTypes DEF DeleteTask, TypeOK, tells

LEMMA RetryTypes ==
    ASSUME TypeOK, NEW c \in Calls, NEW t \in Tasks, RequestTaskRetry(c, t), Watch
    PROVE  TypeOK'
<1> DEFINE r == [row[t] EXCEPT !.status = "ready"]
<1>1. r \in Rows
  BY RowTypes DEF Rows, Statuses
<1>2. /\ row' = [row EXCEPT ![t] = r] /\ Tell(c, t, "failed", r, FALSE)
  BY DEF RequestTaskRetry
<1> HIDE DEF r
<1>3. post' \in [Actors -> Posts]
  BY <1>1, <1>2, TellTypes, SlotIsAnActor DEF Statuses
<1>4. call' \in [Calls -> CallStates] /\ bound' \in Bounds
  BY BeginTypes, InitIdle DEF RequestTaskRetry, Free
<1>5. row' \in [Tasks -> Rows]
  BY <1>1, <1>2 DEF TypeOK
<1> QED
  BY <1>3, <1>4, <1>5, SeenTypes DEF RequestTaskRetry, TypeOK, tells, ghosts

LEMMA GateTypes ==
    ASSUME TypeOK, NEW c \in Calls, NEW t \in Tasks, GateRead(c, t) \/ GateWrite(c), Watch
    PROVE  TypeOK'
<1>1. CASE GateRead(c, t)
  <2>1. PICK gate \in GateOutcomes(row[t].gate) : Begin(c, [pc |-> "gate", task |-> t, to |-> gate])
    BY <1>1 DEF GateRead
  <2>2. gate \in Gates
    BY DEF GateOutcomes, Gates
  <2>3. [pc |-> "gate", task |-> t, to |-> gate] \in CallStates
    BY <2>2 DEF CallStates
  <2>4. call' \in [Calls -> CallStates] /\ bound' \in Bounds
    BY <1>1, <2>1, <2>3, BeginTypes DEF GateRead, Free
  <2> QED
    BY <1>1, <2>4, SeenTypes DEF GateRead, TypeOK, rows, tells, ghosts
<1>2. CASE GateWrite(c)
  <2>1. call' \in [Calls -> CallStates] /\ bound' = bound
    BY <1>2, EndTypes DEF GateWrite
  <2>2. row' \in [Tasks -> Rows]
    <3>1. call[c].task \in Tasks /\ call[c].to \in Gates
      BY <1>2, CallShape DEF GateWrite, TypeOK
    <3>2. [row[call[c].task] EXCEPT !.gate = call[c].to] \in Rows
      BY <3>1, RowTypes DEF Rows
    <3> QED
      BY <1>2, <3>1, <3>2 DEF GateWrite, TypeOK
  <2>3. missed' \subseteq Tasks
    BY <1>2, QuietlyTypes DEF TypeOK, GateWrite
  <2> QED
    BY <1>2, <2>1, <2>2, <2>3, SeenTypes DEF GateWrite, TypeOK, tells
<1> QED
  BY <1>1, <1>2

LEMMA EdgeTypes ==
    ASSUME TypeOK, NEW c \in Calls, Watch,
           \/ \E t \in Tasks, d \in Tasks : AddDependencyCheck(c, t, d)
           \/ \E t \in Tasks, on \in SUBSET Tasks : SetDependenciesCheck(c, t, on)
           \/ AddDependencyInsert(c)
           \/ \E e \in edges : RemoveDependency(c, e)
    PROVE  TypeOK'
<1>1. ASSUME NEW t \in Tasks, NEW d \in Tasks, AddDependencyCheck(c, t, d)
      PROVE  TypeOK'
  <2>1. [pc |-> "insert", task |-> t, on |-> {d}, read |-> edges] \in CallStates
    BY DEF CallStates, TypeOK
  <2>2. call' \in [Calls -> CallStates] /\ bound' \in Bounds
    BY <1>1, <2>1, BeginTypes DEF AddDependencyCheck, Free
  <2> QED
    BY <1>1, <2>2, SeenTypes DEF AddDependencyCheck, TypeOK, rows, tells, ghosts
<1>2. ASSUME NEW t \in Tasks, NEW on \in SUBSET Tasks, SetDependenciesCheck(c, t, on)
      PROVE  TypeOK'
  <2>1. [pc |-> "replace", task |-> t, on |-> on, read |-> edges] \in CallStates
    BY DEF CallStates, TypeOK
  <2>2. call' \in [Calls -> CallStates] /\ bound' \in Bounds
    BY <1>2, <2>1, BeginTypes DEF SetDependenciesCheck, Free
  <2> QED
    BY <1>2, <2>2, SeenTypes DEF SetDependenciesCheck, TypeOK, rows, tells, ghosts
<1>3. CASE AddDependencyInsert(c)
  <2>1. call' \in [Calls -> CallStates] /\ bound' = bound
    BY <1>3, EndTypes DEF AddDependencyInsert
  <2>2. call[c].task \in Tasks /\ call[c].on \subseteq Tasks
    BY <1>3, CallShape DEF AddDependencyInsert, TypeOK
  <2>3. edges' \subseteq Tasks \X Tasks
    BY <1>3, <2>2 DEF AddDependencyInsert, TypeOK
  <2>4. raced' \in BOOLEAN
    <3>1. raced \in BOOLEAN
      BY DEF TypeOK
    <3>2. raced' = raced \/ raced' = (raced \/ ~(edges \subseteq call[c].read))
      BY <1>3 DEF AddDependencyInsert
    <3> QED
      BY <3>1, <3>2, Zenon
  <2> QED
    BY <1>3, <2>1, <2>3, <2>4, SeenTypes DEF AddDependencyInsert, TypeOK, tells
<1>4. ASSUME NEW e \in edges, RemoveDependency(c, e)
      PROVE  TypeOK'
  <2>1. call' \in [Calls -> CallStates] /\ bound' \in Bounds
    BY <1>4, BeginTypes, InitIdle DEF RemoveDependency, Free
  <2>2. missed' \subseteq Tasks
    BY <1>4, QuietlyTypes DEF TypeOK, RemoveDependency
  <2> QED
    BY <1>4, <2>1, <2>2, SeenTypes DEF RemoveDependency, TypeOK, tells
<1> QED
  BY <1>1, <1>2, <1>3, <1>4

LEMMA ReplaceTypes ==
    ASSUME TypeOK, NEW c \in Calls, SetDependenciesReplace(c), Watch
    PROVE  TypeOK'
<1>1. call' \in [Calls -> CallStates] /\ bound' = bound
  BY EndTypes DEF SetDependenciesReplace
<1>2. call[c].task \in Tasks /\ call[c].on \subseteq Tasks
  BY CallShape DEF SetDependenciesReplace, TypeOK
<1>3. CASE \A d \in call[c].on : Exists(d)
  <2>1. post' \in [Actors -> Posts]
    BY <1>2, <1>3, TellTypes, SlotIsAnActor, RowTypes DEF SetDependenciesReplace
  <2>2. missed' \subseteq Tasks
    BY <1>3, QuietlyTypes DEF TypeOK, SetDependenciesReplace
  <2>3. edges' \subseteq Tasks \X Tasks
    <3>1. edges' = {e \in edges : e[1] # call[c].task} \cup ({call[c].task} \X call[c].on)
      BY <1>3 DEF SetDependenciesReplace
    <3>2. {call[c].task} \X call[c].on \subseteq Tasks \X Tasks /\ edges \subseteq Tasks \X Tasks
      BY <1>2 DEF TypeOK
    <3>3. {e \in edges : e[1] # call[c].task} \subseteq edges
      OBVIOUS
    <3> QED
      BY <3>1, <3>2, <3>3, Zenon
  <2>4. raced' \in BOOLEAN
    <3>1. raced' = (raced \/ ~(edges \subseteq call[c].read))
      BY <1>3 DEF SetDependenciesReplace
    <3> QED
      BY <3>1, Zenon
  <2>5. UNCHANGED <<row, crit, met, flag, cycle, now, queue, wake, firing, pass, worker, late>>
    BY DEF SetDependenciesReplace, tells
  <2>6. seen' \subseteq Predicates
    BY SeenTypes DEF TypeOK
  <2> QED
    BY <1>1, <2>1, <2>2, <2>3, <2>4, <2>5, <2>6 DEF TypeOK
<1>4. CASE ~(\A d \in call[c].on : Exists(d))
  BY <1>1, <1>4, SeenTypes DEF SetDependenciesReplace, TypeOK, tells
<1> QED
  BY <1>3, <1>4

LEMMA ItemTypes ==
    ASSUME TypeOK, NEW c \in Calls, Watch,
           \/ \E t \in Tasks, i \in Items : ItemLoad(c, t, i) \/ ItemUndo(c, t, i)
           \/ ItemAdd(c) \/ ItemDelete(c)
    PROVE  TypeOK'
<1>1. ASSUME NEW t \in Tasks, NEW i \in Items, ItemLoad(c, t, i)
      PROVE  TypeOK'
  <2>1. [pc |-> IF i \in crit[t] THEN "delete" ELSE "add", task |-> t, item |-> i,
         found |-> row[t].status] \in CallStates
    BY <1>1, RowTypes DEF CallStates, ItemLoad
  <2>2. call' \in [Calls -> CallStates] /\ bound' \in Bounds
    BY <1>1, <2>1, BeginTypes DEF ItemLoad, Free
  <2> QED
    BY <1>1, <2>2, SeenTypes DEF ItemLoad, TypeOK, rows, tells, ghosts
<1>2. ASSUME NEW t \in Tasks, NEW i \in Items, ItemUndo(c, t, i)
      PROVE  TypeOK'
  <2>1. call' \in [Calls -> CallStates] /\ bound' \in Bounds
    BY <1>2, BeginTypes, InitIdle DEF ItemUndo, Free
  <2> QED
    BY <1>2, <2>1, SeenTypes DEF ItemUndo, TypeOK, tells
<1>3. CASE ItemAdd(c)
  <2>1. call' \in [Calls -> CallStates] /\ bound' = bound
    BY <1>3, EndTypes DEF ItemAdd
  <2>2. call[c].task \in Tasks /\ call[c].item \in Items
    BY <1>3, CallShape DEF ItemAdd, TypeOK
  <2> QED
    BY <1>3, <2>1, <2>2, SeenTypes DEF ItemAdd, TypeOK, tells
<1>4. CASE ItemDelete(c)
  <2>1. call' \in [Calls -> CallStates] /\ bound' = bound
    BY <1>4, EndTypes DEF ItemDelete
  <2>2. call[c].task \in Tasks
    BY <1>4, CallShape DEF ItemDelete, TypeOK
  <2> QED
    BY <1>4, <2>1, <2>2, SeenTypes DEF ItemDelete, TypeOK, tells, ghosts
<1> QED
  BY <1>1, <1>2, <1>3, <1>4

LEMMA RequestTypes ==
    ASSUME TypeOK, NEW c \in Calls, Request(c), Watch
    PROVE  TypeOK'
  BY CreateTypes, PatchTypes, DeleteTypes, RetryTypes, GateTypes, EdgeTypes, ReplaceTypes, ItemTypes,
     CallShape
  DEF Request, TypeOK, GateWrite

-----------------------------------------------------------------------------
(* Types: what follows a commit, the slot, and the background.              *)

LEMMA AfterCommitTypes ==
    ASSUME TypeOK, PostInv, NEW a \in Actors, AfterCommit(a), Watch
    PROVE  TypeOK'
<1>1. post[a] \in Posts
  BY DEF TypeOK
<1>2. CASE ListDependents(a)
  <2>1. Dependents(post[a].task) \subseteq Tasks
    BY DEF Dependents
  <2>2. post' \in [Actors -> Posts]
    BY <1>1, <1>2, <2>1 DEF ListDependents, TypeOK, Posts
  <2> QED
    BY <1>2, <2>2, SeenTypes DEF ListDependents, TypeOK, rows, tells, ghosts
<1>3. CASE NotifyDependent(a)
  <2>1. PICK d \in post[a].left :
          /\ IF Dequeuable(d) THEN queue' = Offered(d) /\ missed' = MissedAfterOffer(d)
             ELSE UNCHANGED <<queue, missed>>
          /\ post' = [post EXCEPT ![a].left = @ \ {d}]
    BY <1>3 DEF NotifyDependent
  <2>2. d \in Tasks
    BY <1>1 DEF Posts
  <2>3. post' \in [Actors -> Posts]
    BY <1>1, <2>1 DEF TypeOK, Posts
  <2>4. queue' \subseteq Tasks /\ missed' \subseteq Tasks
    BY <2>1, <2>2, OfferedTypes DEF TypeOK
  <2> QED
    BY <1>3, <2>3, <2>4, SeenTypes DEF NotifyDependent, TypeOK, rows
<1>4. CASE EachNotified(a)
  <2>1. post' \in [Actors -> Posts]
    BY <1>1, <1>4, InitIdle DEF EachNotified, TypeOK, Posts
  <2> QED
    BY <1>4, <2>1, SeenTypes DEF EachNotified, TypeOK, rows, tells, ghosts
<1>5. CASE Decide(a)
  <2>1. post' \in [Actors -> Posts]
    <3>1. SUFFICES ASSUME NEW b \in Actors
                   PROVE  /\ NoPost \in Posts /\ post[b] \in Posts
                          /\ [post[b] EXCEPT !.overtaken = TRUE] \in Posts
      BY <1>5 DEF Decide
    <3> QED
      BY InitIdle DEF TypeOK, Posts
  <2>2. post[a].task \in Tasks
    BY <1>5 DEF Decide, PostInv
  <2>3. wake' \in [Tasks -> Nat]
    BY <1>1, <1>5, <2>2 DEF Decide, TypeOK, Posts, Rows
  <2>4. queue' \subseteq Tasks /\ missed' \subseteq Tasks
    BY <1>5, <2>2, OfferedTypes DEF Decide, TypeOK
  <2> QED
    BY <1>5, <2>1, <2>3, <2>4, SeenTypes DEF Decide, TypeOK, rows
<1> QED
  BY <1>2, <1>3, <1>4, <1>5 DEF AfterCommit

LEMMA AdmissionTypes ==
    ASSUME TypeOK, Watch,
           (\E t \in Tasks : Receive(t)) \/ Reload \/ Check \/ Defer \/ Pickup
    PROVE  TypeOK'
<1> USE WorkerShape, SeenTypes
<1>1. ASSUME NEW t \in Tasks, Receive(t)
      PROVE  TypeOK'
  <2>1. worker' \in WorkerStates
    BY <1>1 DEF Receive, WorkerStates
  <2> QED
    BY <1>1, <2>1 DEF Receive, TypeOK, rows, ghosts
<1>2. CASE Reload
  <2>1. worker.task \in Tasks /\ row[worker.task] \in Rows
    BY <1>2, RowTypes DEF Reload, TypeOK
  <2>2. worker' \in WorkerStates
    BY <1>2, <2>1, InitIdle DEF Reload, Drop, WorkerStates
  <2> QED
    BY <1>2, <2>2 DEF Reload, TypeOK, rows, tells, ghosts
<1>3. CASE Check
  <2>1. worker.task \in Tasks
    BY <1>3 DEF Check, TypeOK
  <2>2. worker' \in WorkerStates
    BY <1>3, <2>1 DEF Check, WorkerStates
  <2> QED
    BY <1>3, <2>2 DEF Check, TypeOK, rows, tells, ghosts
<1>4. CASE Defer
  <2> DEFINE t == worker.task
             r == [row[t] EXCEPT !.pickup = now + 1]
  <2>1. t \in Tasks
    BY <1>4 DEF Defer, TypeOK
  <2>2. r \in Rows /\ (Exists(t) => r.status \in Statuses)
    BY <2>1, RowTypes DEF TypeOK, Rows
  <2>3. worker' \in WorkerStates
    BY <1>4, InitIdle DEF Defer, Drop
  <2>4. row' \in [Tasks -> Rows] /\ post' \in [Actors -> Posts]
    <3>1. CASE Exists(t)
      <4>1. row' = [row EXCEPT ![t] = r] /\ Tell(Slot, t, r.status, r, TRUE)
        BY <1>4, <3>1 DEF Defer
      <4> HIDE DEF r, t
      <4>2. post' \in [Actors -> Posts]
        BY <2>1, <2>2, <3>1, <4>1, TellTypes, SlotIsAnActor
      <4> QED
        BY <2>1, <2>2, <4>1, <4>2 DEF TypeOK
    <3>2. CASE ~Exists(t)
      BY <1>4, <3>2 DEF Defer, TypeOK
    <3> QED
      BY <3>1, <3>2
  <2> QED
    BY <1>4, <2>3, <2>4 DEF Defer, TypeOK, tells, ghosts
<1>5. CASE Pickup
  <2>1. worker.task \in Tasks
    BY <1>5 DEF Pickup, TypeOK
  <2>2. worker' \in WorkerStates
    BY <1>5, <2>1, InitIdle DEF Pickup, Drop, WorkerStates
  <2>3. [row[worker.task] EXCEPT !.status = "running"] \in Rows
    BY <2>1, RowTypes DEF Rows, Statuses
  <2>4. row' \in [Tasks -> Rows] /\ cycle' \in [Tasks -> {"none", "running", "closed"}]
    BY <1>5, <2>1, <2>3 DEF Pickup, TypeOK
  <2> QED
    BY <1>5, <2>2, <2>4 DEF Pickup, TypeOK, tells, ghosts
<1> QED
  BY <1>1, <1>2, <1>3, <1>4, <1>5

LEMMA RunTypes ==
    ASSUME TypeOK, Watch, List \/ Verdict \/ Mark \/ Marked \/ Close
    PROVE  TypeOK'
<1> USE WorkerShape, SeenTypes
<1>1. CASE List
  <2>1. worker.task \in Tasks
    BY <1>1 DEF List, TypeOK
  <2>2. worker' \in WorkerStates
    BY <1>1, <2>1 DEF List, WorkerStates, TypeOK
  <2> QED
    BY <1>1, <2>2 DEF List, TypeOK, rows, tells
<1>2. CASE Verdict
  <2>1. worker \in [pc : {"run", "mark"}, task : Tasks, left : SUBSET Items]
    BY <1>2 DEF Verdict, TypeOK, WorkerStates, Idle
  <2>2. worker' \in WorkerStates
    BY <1>2, <2>1 DEF Verdict, WorkerStates
  <2> QED
    BY <1>2, <2>2 DEF Verdict, TypeOK, rows, tells, ghosts
<1>3. CASE Mark
  <2>1. worker \in [pc : {"run", "mark"}, task : Tasks, left : SUBSET Items]
    BY <1>3 DEF Mark, TypeOK, WorkerStates, Idle
  <2>2. PICK i \in worker.left :
          /\ met' = [met EXCEPT ![worker.task] = IF i \in crit[worker.task] THEN met[worker.task] \cup {i}
                                                 ELSE met[worker.task]]
          /\ worker' = [worker EXCEPT !.left = @ \ {i}]
          /\ flag' \subseteq flag \cup {worker.task}
          /\ \/ UNCHANGED post
             \/ post' = [post EXCEPT ![Slot] = [NoPost EXCEPT !.stage = "list", !.task = worker.task,
                                                              !.prev = "criteria"]]
    BY <1>3 DEF Mark
  <2>3. worker.task \in Tasks /\ worker.left \subseteq Items
    BY <2>1
  <2>4. met' \in [Tasks -> SUBSET Items] /\ flag' \subseteq Tasks
    BY <2>2, <2>3 DEF TypeOK
  <2>5. worker' \in WorkerStates
    BY <2>1, <2>2 DEF WorkerStates
  <2>6. [NoPost EXCEPT !.stage = "list", !.task = worker.task, !.prev = "criteria"] \in Posts
    BY <2>3, InitIdle DEF Posts
  <2>7. post' \in [Actors -> Posts]
    BY <2>2, <2>6 DEF TypeOK
  <2> QED
    BY <1>3, <2>4, <2>5, <2>7 DEF Mark, TypeOK, tells, ghosts
<1>4. CASE Marked
  <2>1. worker.task \in Tasks
    BY <1>4 DEF Marked, TypeOK
  <2>2. worker' \in WorkerStates
    BY <1>4, <2>1 DEF Marked, WorkerStates
  <2> QED
    BY <1>4, <2>2 DEF Marked, TypeOK, rows, tells, ghosts
<1>5. CASE Close
  <2>1. worker \in [pc : {"close", "settle"}, task : Tasks, to : {"done", "failed"}]
    BY <1>5 DEF Close, TypeOK, WorkerStates, Idle
  <2>2. worker' \in WorkerStates
    BY <1>5, <2>1, InitIdle DEF Close, WorkerStates, Drop
  <2>3. cycle' \in [Tasks -> {"none", "running", "closed"}]
    BY <1>5 DEF Close, TypeOK
  <2> QED
    BY <1>5, <2>2, <2>3 DEF Close, TypeOK, tells, ghosts
<1> QED
  BY <1>1, <1>2, <1>3, <1>4, <1>5

LEMMA SettleTypes ==
    ASSUME TypeOK, Watch, Settle
    PROVE  TypeOK'
<1> DEFINE t == worker.task
           r == [row[t] EXCEPT !.status = worker.to]
<1>1. t \in Tasks /\ worker.to \in {"done", "failed"}
  BY WorkerShape DEF Settle, TypeOK
<1>2. r \in Rows /\ row[t].status \in Statuses \cup {"absent", "gone"}
  BY <1>1, RowTypes DEF Rows, Statuses
<1>3. worker' \in WorkerStates
  BY InitIdle DEF Settle, Drop
<1>4. \/ UNCHANGED <<row, post>>
      \/ row' = [row EXCEPT ![t] = r] /\ Tell(Slot, t, row[t].status, r, FALSE)
  BY DEF Settle
<1> HIDE DEF r, t
<1>5. row' \in [Tasks -> Rows] /\ post' \in [Actors -> Posts]
  <2>1. CASE UNCHANGED <<row, post>>
    BY <2>1 DEF TypeOK
  <2>2. CASE row' = [row EXCEPT ![t] = r] /\ Tell(Slot, t, row[t].status, r, FALSE)
    <3>1. post' \in [Actors -> Posts]
      BY <1>1, <1>2, <2>2, TellTypes, SlotIsAnActor
    <3> QED
      BY <1>1, <1>2, <2>2, <3>1 DEF TypeOK
  <2> QED
    BY <1>4, <2>1, <2>2
<1> QED
  BY <1>3, <1>5, SeenTypes DEF Settle, TypeOK, tells, ghosts

LEMMA BackgroundTypes ==
    ASSUME TypeOK, Watch, Background
    PROVE  TypeOK'
<1>1. CASE Tick
  <2>1. bound' \in Bounds
    BY <1>1 DEF Tick, TypeOK, Bounds
  <2> QED
    BY <1>1, <2>1, SeenTypes DEF Tick, TypeOK, rows, tells, ghosts
<1>2. ASSUME NEW t \in Tasks, Fire(t)
      PROVE  TypeOK'
  BY <1>2, SeenTypes DEF Fire, TypeOK, rows, ghosts
<1>3. ASSUME NEW t \in Tasks, TryNotify(t)
      PROVE  TypeOK'
  <2>1. queue' \subseteq Tasks /\ missed' \subseteq Tasks
    BY <1>3, OfferedTypes DEF TryNotify, TypeOK
  <2> QED
    BY <1>3, <2>1, SeenTypes DEF TryNotify, TypeOK, rows
<1>4. ASSUME NEW t \in Tasks, OfferListed(t)
      PROVE  TypeOK'
  <2>1. queue' \subseteq Tasks /\ missed' \subseteq Tasks
    BY <1>4, OfferedTypes DEF OfferListed, TypeOK
  <2>2. \E left \in SUBSET pass.left : pass' = [pass EXCEPT !.left = left]
    <3>1. \/ pass' = [pass EXCEPT !.left = IF t \in Offered(t) THEN pass.left \ {t} ELSE {}]
          \/ pass' = [pass EXCEPT !.left = pass.left \ {t}]
      BY <1>4 DEF OfferListed
    <3> QED
      BY <3>1
  <2>3. pass' \in [list : {"none", "ready", "running"}, left : SUBSET Tasks]
    BY <2>2 DEF TypeOK
  <2> QED
    BY <1>4, <2>1, <2>3, SeenTypes DEF OfferListed, TypeOK, rows
<1>5. CASE ListPass
  <2>1. bound' \in Bounds
    BY <1>5 DEF ListPass, TypeOK, Bounds
  <2>2. pass.list \in {"none", "ready", "running"}
    BY DEF TypeOK
  <2>3. pass' \in [list : {"none", "ready", "running"}, left : SUBSET Tasks]
    BY <1>5, <2>2 DEF ListPass, NoPass
  <2> QED
    BY <1>5, <2>1, <2>3, SeenTypes DEF ListPass, TypeOK, rows, ghosts
<1>6. CASE Restart
  <2>1. bound' \in Bounds
    BY <1>6 DEF Restart, TypeOK, Bounds
  <2>2. Hydrated \in [Tasks -> Nat]
    BY DEF TypeOK, Hydrated, Rows
  <2>3. pass' \in [list : {"none", "ready", "running"}, left : SUBSET Tasks]
    BY <1>6 DEF Restart, NoPass
  <2> QED
    BY <1>6, <2>1, <2>2, <2>3, SeenTypes, InitIdle DEF Restart, TypeOK, rows
<1> QED
  BY <1>1, <1>2, <1>3, <1>4, <1>5, <1>6 DEF Background

LEMMA NextTypes ==
    ASSUME TypeOK, PostInv, [Next]_vars
    PROVE  TypeOK'
<1>1. CASE Next
  BY <1>1, RequestTypes, AfterCommitTypes, AdmissionTypes, RunTypes, SettleTypes, BackgroundTypes
  DEF Next, SlotStep
<1>2. CASE UNCHANGED vars
  BY <1>2 DEF vars, rows, tells, ghosts, TypeOK
<1> QED
  BY <1>1, <1>2

-----------------------------------------------------------------------------
(* What is still to tell.                                                   *)

\* What Tell does, field by field.
Told(a, t, prev, r, touched) ==
  /\ post'[a].task = t /\ post'[a].prev = prev /\ post'[a].row = r
  /\ post'[a].touched = touched /\ post'[a].left = {} /\ post'[a].overtaken = FALSE
  /\ post'[a].over = {d \in Actors \ {a} : post[d].task = t}
  /\ post'[a].stage = IF r.status = "done" /\ prev # "done" THEN "list" ELSE "decide"
  /\ \A b \in Actors \ {a} :
       /\ post'[b].stage = post[b].stage /\ post'[b].task = post[b].task
       /\ post'[b].prev = post[b].prev /\ post'[b].row = post[b].row
       /\ post'[b].touched = post[b].touched /\ post'[b].left = post[b].left
       /\ post'[b].overtaken = post[b].overtaken
       /\ post'[b].over = post[b].over \ {a}

LEMMA TellEffect ==
    ASSUME TypeOK, NEW a \in Actors, NEW t \in Tasks,
           NEW prev \in Statuses \cup {"absent", "gone"}, NEW r \in Rows, NEW touched \in BOOLEAN,
           Tell(a, t, prev, r, touched)
    PROVE  Told(a, t, prev, r, touched)
<1>1. post'[a] = [stage |-> IF r.status = "done" /\ prev # "done" THEN "list" ELSE "decide",
                  task |-> t, prev |-> prev, row |-> r, touched |-> touched, left |-> {},
                  over |-> {d \in Actors \ {a} : post[d].task = t}, overtaken |-> FALSE]
  BY DEF Tell
<1>2. ASSUME NEW b \in Actors \ {a}
      PROVE  /\ post'[b].stage = post[b].stage /\ post'[b].task = post[b].task
             /\ post'[b].prev = post[b].prev /\ post'[b].row = post[b].row
             /\ post'[b].touched = post[b].touched /\ post'[b].left = post[b].left
             /\ post'[b].overtaken = post[b].overtaken
             /\ post'[b].over = post[b].over \ {a}
  <2>1. post[b] \in Posts
    BY DEF TypeOK
  <2>2. post'[b] = [post[b] EXCEPT !.over = post[b].over \ {a}]
    BY DEF Tell
  <2> HIDE DEF TypeOK
  <2> QED
    BY <2>1, <2>2 DEF Posts
<1> QED
  BY <1>1, <1>2 DEF Told

\* A Tell, after which the call or the slot of the teller is at rest.
LEMMA TellPosts ==
    ASSUME TypeOK, PostInv, NEW a \in Actors, NEW t \in Tasks,
           NEW prev \in Statuses \cup {"absent", "gone"}, NEW r \in Rows, NEW touched \in BOOLEAN,
           Tell(a, t, prev, r, touched),
           \A c \in Calls : call'[c].pc # "idle" => c # a /\ call[c].pc # "idle",
           worker'.pc \notin {"idle", "mark"} => a # Slot /\ worker.pc \notin {"idle", "mark"}
    PROVE  PostInv'
<1>0. Told(a, t, prev, r, touched)
  BY TellEffect
<1>1. ASSUME NEW b \in Actors
      PROVE  /\ post'[b].stage = "none" => post'[b].task = NoTask /\ post'[b].left = {}
             /\ post'[b].stage # "none" => post'[b].task \in Tasks
             /\ post'[b].stage = "decide" => post'[b].prev # "criteria"
  <2>1. CASE b = a
    BY <1>0, <2>1 DEF Statuses, Told
  <2>2. CASE b # a
    BY <1>0, <2>2 DEF PostInv, Told
  <2> QED
    BY <2>1, <2>2
<1>2. ASSUME NEW c \in Calls, call'[c].pc # "idle"
      PROVE  post'[c].stage = "none"
  BY <1>0, <1>2, SlotIsAnActor DEF PostInv, Told
<1>3. worker'.pc \notin {"idle", "mark"} => post'[Slot].stage = "none"
  BY <1>0, SlotIsAnActor DEF PostInv, Told
<1> QED
  BY <1>1, <1>2, <1>3 DEF PostInv

LEMMA RequestPosts ==
    ASSUME TypeOK, PostInv, NEW c \in Calls, Request(c)
    PROVE  PostInv'
<1> USE SlotIsAnActor
<1>1. ASSUME NEW t \in Tasks, CreateTask(c, t)
      PROVE  PostInv'
  <2>1. PICK r \in Rows : Tell(c, t, "absent", r, FALSE)
    <3>1. PICK status \in {"ready", "on_hold"}, pickup \in {0, now + 1}, gate \in {"none", "pending"} :
            Tell(c, t, "absent", [status |-> status, pickup |-> pickup, gate |-> gate], FALSE)
      BY <1>1 DEF CreateTask
    <3>2. [status |-> status, pickup |-> pickup, gate |-> gate] \in Rows
      BY DEF TypeOK, Rows, Statuses, Gates
    <3> QED
      BY <3>1, <3>2
  <2>2. \A d \in Calls : call'[d].pc # "idle" => d # c /\ call[d].pc # "idle"
    BY <1>1 DEF CreateTask, Begin, Idle, TypeOK
  <2> QED
    BY <1>1, <2>1, <2>2, TellPosts DEF CreateTask
<1>2. ASSUME NEW t \in Tasks, PatchTask(c, t)
      PROVE  PostInv'
  <2>1. PICK p \in bound.patches : Tell(c, t, row[t].status, Patched(row[t], p), p.field = "pickup")
    BY <1>2 DEF PatchTask
  <2>2. Patched(row[t], p) \in Rows /\ row[t].status \in Statuses
    BY <1>2, PatchedTypes, RowTypes DEF PatchTask
  <2>3. \A d \in Calls : call'[d].pc # "idle" => d # c /\ call[d].pc # "idle"
    BY <1>2 DEF PatchTask, Begin, Idle, TypeOK
  <2>4. worker' = worker
    BY <1>2 DEF PatchTask
  <2> QED
    BY <2>1, <2>2, <2>3, <2>4, TellPosts
<1>3. ASSUME NEW t \in Tasks, DeleteTask(c, t)
      PROVE  PostInv'
  <2>1. Tell(c, t, row[t].status, Gone, FALSE) /\ worker' = worker
    BY <1>3 DEF DeleteTask
  <2>2. \A d \in Calls : call'[d].pc # "idle" => d # c /\ call[d].pc # "idle"
    BY <1>3 DEF DeleteTask, Begin, Idle, TypeOK
  <2> QED
    BY <2>1, <2>2, TellPosts, RowTypes
<1>4. ASSUME NEW t \in Tasks, RequestTaskRetry(c, t)
      PROVE  PostInv'
  <2>1. Tell(c, t, "failed", [row[t] EXCEPT !.status = "ready"], FALSE) /\ worker' = worker
    BY <1>4 DEF RequestTaskRetry
  <2>2. [row[t] EXCEPT !.status = "ready"] \in Rows /\ "failed" \in Statuses
    BY RowTypes DEF Rows, Statuses
  <2>3. \A d \in Calls : call'[d].pc # "idle" => d # c /\ call[d].pc # "idle"
    BY <1>4 DEF RequestTaskRetry, Begin, Idle, TypeOK
  <2> QED
    BY <2>1, <2>2, <2>3, TellPosts
<1>5. CASE SetDependenciesReplace(c)
  <2>1. \A d \in Calls : call'[d].pc # "idle" => d # c /\ call[d].pc # "idle"
    BY <1>5 DEF SetDependenciesReplace, End, Idle, TypeOK
  <2>2. call[c].task \in Tasks /\ worker' = worker
    BY <1>5, CallShape DEF SetDependenciesReplace, TypeOK
  <2>3. CASE Tell(c, call[c].task, row[call[c].task].status, row[call[c].task], FALSE)
    BY <2>1, <2>2, <2>3, TellPosts, RowTypes
  <2>4. CASE post' = post
    BY <2>1, <2>2, <2>4 DEF PostInv
  <2> QED
    BY <1>5, <2>3, <2>4 DEF SetDependenciesReplace
<1>6. ASSUME post' = post, worker' = worker, NEW pc, Begin(c, pc), post[c].stage = "none"
      PROVE  PostInv'
  BY <1>6 DEF PostInv, Begin, TypeOK
<1>7. ASSUME post' = post, worker' = worker, End(c)
      PROVE  PostInv'
  BY <1>7 DEF PostInv, End, Idle, TypeOK
<1>8. ASSUME NEW t \in Tasks, GateRead(c, t)
      PROVE  PostInv'
  BY <1>6, <1>8 DEF GateRead, Free
<1>9. ASSUME NEW t \in Tasks, NEW d \in Tasks, AddDependencyCheck(c, t, d)
      PROVE  PostInv'
  BY <1>6, <1>9 DEF AddDependencyCheck, Free
<1>10. ASSUME NEW t \in Tasks, NEW on \in SUBSET Tasks, SetDependenciesCheck(c, t, on)
       PROVE  PostInv'
  BY <1>6, <1>10 DEF SetDependenciesCheck, Free
<1>11. ASSUME NEW t \in Tasks, NEW i \in Items, ItemLoad(c, t, i) \/ ItemUndo(c, t, i)
       PROVE  PostInv'
  BY <1>6, <1>11 DEF ItemLoad, ItemUndo, Free
<1>12. ASSUME NEW e \in edges, RemoveDependency(c, e)
       PROVE  PostInv'
  BY <1>6, <1>12 DEF RemoveDependency, Free
<1>13. CASE GateWrite(c) \/ AddDependencyInsert(c) \/ ItemAdd(c) \/ ItemDelete(c)
  BY <1>7, <1>13 DEF GateWrite, AddDependencyInsert, ItemAdd, ItemDelete
<1> QED
  BY <1>1, <1>2, <1>3, <1>4, <1>5, <1>8, <1>9, <1>10, <1>11, <1>12, <1>13 DEF Request

\* Who has something to tell is at rest otherwise, or marks criteria.
LEMMA TellerRests ==
    ASSUME PostInv, NEW a \in Actors, post[a].stage # "none"
    PROVE  /\ a \in Calls => call[a].pc = "idle"
           /\ a = Slot => worker.pc \in {"idle", "mark"}
           /\ post[a].task \in Tasks
  BY DEF PostInv

\* What a goroutine does once it has committed.
LEMMA AfterCommitPosts ==
    ASSUME TypeOK, PostInv, NEW a \in Actors, AfterCommit(a)
    PROVE  PostInv'
<1>1. post[a] \in Posts /\ post[a].stage # "none" /\ UNCHANGED <<call, worker>>
  BY DEF TypeOK, AfterCommit, ListDependents, NotifyDependent, EachNotified, Decide
<1>2. ASSUME NEW b \in Actors
      PROVE  /\ post'[b].stage = "none" => post'[b].task = NoTask /\ post'[b].left = {}
             /\ post'[b].stage # "none" => post'[b].task \in Tasks
             /\ post'[b].stage = "decide" => post'[b].prev # "criteria"
             /\ b # a => post'[b].stage = post[b].stage
  <2>1. post[b] \in Posts
    BY DEF TypeOK
  <2> USE <1>1, <2>1
  <2>2. CASE ListDependents(a)
    BY <2>2 DEF ListDependents, PostInv, TypeOK, Posts
  <2>3. CASE NotifyDependent(a)
    <3>1. PICK d \in post[a].left : post' = [post EXCEPT ![a].left = @ \ {d}]
      BY <2>3 DEF NotifyDependent
    <3> QED
      BY <3>1, <2>3 DEF NotifyDependent, PostInv, TypeOK, Posts
  <2>4. CASE EachNotified(a)
    BY <2>4 DEF EachNotified, PostInv, TypeOK, Posts, NoPost
  <2>5. CASE Decide(a)
    <3>1. post'[b] = IF b = a THEN NoPost
                     ELSE IF b \in post[a].over THEN [post[b] EXCEPT !.overtaken = TRUE] ELSE post[b]
      BY <2>5 DEF Decide
    <3> QED
      BY <3>1 DEF PostInv, Posts, NoPost
  <2> QED
    BY <2>2, <2>3, <2>4, <2>5 DEF AfterCommit
<1> QED
  BY <1>1, <1>2, TellerRests, SlotIsAnActor DEF PostInv

LEMMA SlotPosts ==
    ASSUME TypeOK, PostInv, SlotStep
    PROVE  PostInv'
<1> USE SlotIsAnActor
<1>1. CASE Defer
  <2> DEFINE t == worker.task
             r == [row[t] EXCEPT !.pickup = now + 1]
  <2>1. t \in Tasks /\ call' = call /\ worker' = Idle
    BY <1>1, WorkerShape DEF Defer, TypeOK, Drop
  <2>2. CASE Exists(t) /\ Tell(Slot, t, r.status, r, TRUE)
    <3>1. r \in Rows /\ r.status \in Statuses
      <4>1. row[t] \in Rows /\ row[t].status \in Statuses /\ now \in Nat
        BY <2>1, <2>2, RowTypes DEF TypeOK
      <4> QED
        BY <4>1 DEF Rows
    <3>2. \A c \in Calls : call'[c].pc # "idle" => c # Slot /\ call[c].pc # "idle"
      BY <2>1
    <3>3. worker'.pc = "idle"
      BY <2>1 DEF Idle
    <3> HIDE DEF r, t
    <3> QED
      BY <2>1, <2>2, <3>1, <3>2, <3>3, TellPosts
  <2>3. CASE post' = post
    BY <2>1, <2>3 DEF PostInv, Idle
  <2> QED
    BY <1>1, <2>2, <2>3 DEF Defer
<1>2. CASE Settle
  <2> DEFINE t == worker.task
             r == [row[t] EXCEPT !.status = worker.to]
  <2>1. t \in Tasks /\ worker.to \in Statuses /\ call' = call /\ worker' = Idle
    BY <1>2, WorkerShape DEF Settle, TypeOK, Drop, Statuses
  <2>2. CASE Tell(Slot, t, row[t].status, r, FALSE)
    <3>1. r \in Rows /\ row[t].status \in Statuses \cup {"absent", "gone"}
      BY <2>1, RowTypes DEF Rows
    <3>2. \A c \in Calls : call'[c].pc # "idle" => c # Slot /\ call[c].pc # "idle"
      BY <2>1
    <3>3. worker'.pc = "idle"
      BY <2>1 DEF Idle
    <3> HIDE DEF r, t
    <3> QED
      BY <2>1, <2>2, <3>1, <3>2, <3>3, TellPosts
  <2>3. CASE post' = post
    BY <2>1, <2>3 DEF PostInv, Idle
  <2> QED
    BY <1>2, <2>2, <2>3 DEF Settle
<1>3. CASE Mark
  <2>1. worker \in [pc : {"run", "mark"}, task : Tasks, left : SUBSET Items]
    BY <1>3 DEF Mark, TypeOK, WorkerStates, Idle
  <2>2. /\ worker.pc = "mark" /\ post[Slot].stage = "none" /\ call' = call
        /\ \E i \in worker.left : worker' = [worker EXCEPT !.left = @ \ {i}]
        /\ \/ post' = post
           \/ post' = [post EXCEPT ![Slot] = [NoPost EXCEPT !.stage = "list", !.task = worker.task,
                                                            !.prev = "criteria"]]
    BY <1>3 DEF Mark
  <2>3. worker'.pc = "mark"
    BY <2>1, <2>2
  <2>4. CASE post' = post
    BY <2>2, <2>3, <2>4 DEF PostInv
  <2>5. CASE post' = [post EXCEPT ![Slot] = [NoPost EXCEPT !.stage = "list", !.task = worker.task,
                                                           !.prev = "criteria"]]
    <3>1. post'[Slot].stage = "list" /\ post'[Slot].task = worker.task
      BY <2>5 DEF TypeOK, NoPost
    <3>2. \A b \in Actors : b # Slot => post'[b] = post[b]
      BY <2>5 DEF TypeOK
    <3> QED
      BY <2>1, <2>2, <2>3, <3>1, <3>2 DEF PostInv
  <2> QED
    BY <2>2, <2>4, <2>5
<1>4. ASSUME UNCHANGED <<call, post>>, worker'.pc \notin {"idle", "mark"} => post[Slot].stage = "none"
      PROVE  PostInv'
  BY <1>4 DEF PostInv
<1>5. ASSUME NEW t \in Tasks, Receive(t)
      PROVE  PostInv'
  BY <1>4, <1>5 DEF Receive
<1>6. CASE Reload \/ Check \/ Pickup \/ List \/ Verdict \/ Close
  BY <1>4, <1>6 DEF PostInv, Reload, Check, Pickup, List, Verdict, Close
<1>7. CASE Marked
  BY <1>4, <1>7 DEF Marked
<1> QED
  BY <1>1, <1>2, <1>3, <1>5, <1>6, <1>7 DEF SlotStep

LEMMA NextPosts ==
    ASSUME TypeOK, PostInv, [Next]_vars
    PROVE  PostInv'
<1>1. CASE Background
  <2>1. CASE Restart
    BY <2>1 DEF Restart, PostInv, NoPost, Idle
  <2>2. CASE UNCHANGED <<call, post, worker>>
    BY <2>2 DEF PostInv
  <2> QED
    BY <1>1, <2>1, <2>2 DEF Background, Tick, Fire, TryNotify, ListPass, OfferListed
<1>2. CASE UNCHANGED vars
  BY <1>2 DEF vars, PostInv
<1> QED
  BY <1>1, <1>2, RequestPosts, AfterCommitPosts, SlotPosts DEF Next

-----------------------------------------------------------------------------
(* The criteria of the run.                                                 *)

LEMMA RequestCrit ==
    ASSUME TypeOK, KnownInv, CritInv, NEW c \in Calls, Request(c)
    PROVE  CritInv'
<1> USE CallShape, WorkerShape
<1>1. ASSUME UNCHANGED <<crit, met, worker, late>>,
             \A d \in Calls : call'[d] = call[d] \/ (call'[d].pc = "add" => call'[d].found # "running")
      PROVE  CritInv'
  BY <1>1 DEF CritInv
<1>2. \A d \in Calls \ {c} : call'[d] = call[d]
  BY SMTT(15), ZenonT(40) DEF Request, CreateTask, PatchTask, DeleteTask, RequestTaskRetry, GateRead, GateWrite,
         AddDependencyCheck, AddDependencyInsert, RemoveDependency, SetDependenciesCheck,
         SetDependenciesReplace, ItemLoad, ItemAdd, ItemDelete, ItemUndo, Begin, End, TypeOK
<1>3. ASSUME NEW t \in Tasks, CreateTask(c, t)
      PROVE  CritInv'
  <2>1. /\ UNCHANGED <<met, worker, late>> /\ row[t] = Absent /\ call'[c] = Idle
        /\ \A u \in Tasks : u # t => crit'[u] = crit[u]
    BY <1>3 DEF CreateTask, Begin, ghosts, TypeOK
  <2>2. worker.pc # "idle" => worker.task # t /\ worker.task \in Tasks
    BY <2>1 DEF KnownInv, Known, Absent, TypeOK
  <2> QED
    BY <1>2, <2>1, <2>2 DEF CritInv, Idle
<1>4. ASSUME NEW t \in Tasks, DeleteTask(c, t)
      PROVE  CritInv'
  <2>1. /\ UNCHANGED <<worker, late>> /\ call'[c] = Idle
        /\ \A u \in Tasks : crit'[u] = (IF u = t THEN {} ELSE crit[u]) /\ met'[u] = (IF u = t THEN {} ELSE met[u])
    BY <1>4 DEF DeleteTask, Begin, TypeOK
  <2>2. worker.pc # "idle" => worker.task \in Tasks
    BY DEF TypeOK
  <2> QED
    BY <1>2, <2>1, <2>2 DEF CritInv, Idle
<1>5. ASSUME NEW t \in Tasks, NEW i \in Items, ItemLoad(c, t, i)
      PROVE  CritInv'
  <2>1. call'[c].pc = "add" => call'[c].found # "running"
    BY <1>5 DEF ItemLoad, Begin, TypeOK
  <2> QED
    BY <1>1, <1>2, <1>5, <2>1 DEF ItemLoad, rows, ghosts
<1>6. ASSUME NEW t \in Tasks, NEW i \in Items, ItemUndo(c, t, i)
      PROVE  CritInv'
  <2>1. /\ UNCHANGED <<worker, crit>> /\ call'[c] = Idle
        /\ \A u \in Tasks : met'[u] = IF u = t THEN met[u] \ {i} ELSE met[u]
        /\ late' = IF Listed(t) THEN late \cup {i} ELSE late
    BY <1>6 DEF ItemUndo, Begin, TypeOK
  <2>2. worker.pc # "idle" => worker.task \in Tasks
    BY DEF TypeOK
  <2>3. \A d \in Calls : call'[d].pc = "add" => call'[d].found # "running"
    BY <1>2, <2>1 DEF CritInv, Idle
  <2>4. CASE Listed(t)
    BY <2>1, <2>3, <2>4, SMTT(15), ZenonT(40) DEF CritInv, Listed
  <2>5. CASE ~Listed(t)
    <3>1. worker.pc \in {"run", "mark", "close", "settle"} => met'[worker.task] = met[worker.task]
      BY <2>1, <2>2, <2>5 DEF Listed
    <3> QED
      BY <2>1, <2>3, <2>5, <3>1 DEF CritInv
  <2> QED
    BY <2>4, <2>5
<1>7. CASE ItemAdd(c)
  <2> DEFINE t == call[c].task
             i == call[c].item
  <2>1. /\ UNCHANGED <<worker, met>> /\ call'[c] = Idle /\ call[c].pc = "add"
        /\ \A u \in Tasks : crit'[u] = crit[u] \/ (u = t /\ crit'[u] = crit[u] \cup {i})
        /\ late' = IF Listed(t) /\ call[c].found # "running" THEN late \cup {i} ELSE late
    BY <1>7 DEF ItemAdd, End, TypeOK
  <2>2. worker.pc # "idle" => worker.task \in Tasks
    BY DEF TypeOK
  <2> QED
    BY <1>2, <2>1, <2>2 DEF CritInv, Idle, Listed
<1>8. CASE ItemDelete(c)
  <2> DEFINE t == call[c].task
  <2>1. PICK gone : /\ crit' = [crit EXCEPT ![t] = @ \ gone]
                    /\ met' = [met EXCEPT ![t] = @ \ gone]
    BY <1>8 DEF ItemDelete
  <2>2. /\ UNCHANGED <<worker, late>> /\ call'[c] = Idle
        /\ \A u \in Tasks : \/ crit'[u] = crit[u] /\ met'[u] = met[u]
                            \/ crit'[u] = crit[u] \ gone /\ met'[u] = met[u] \ gone
    BY <1>8, <2>1 DEF ItemDelete, End, TypeOK, ghosts
  <2>3. worker.pc # "idle" => worker.task \in Tasks
    BY DEF TypeOK
  <2> QED
    BY <1>2, <2>2, <2>3 DEF CritInv, Idle
<1>9. ASSUME UNCHANGED <<crit, met, worker, late>>, call'[c].pc # "add"
      PROVE  CritInv'
  BY <1>1, <1>2, <1>9
<1>10. ASSUME NEW pc, Begin(c, pc), pc.pc # "add"
       PROVE  call'[c].pc # "add"
  BY <1>10 DEF Begin, TypeOK
<1>11. ASSUME NEW t \in Tasks, PatchTask(c, t) \/ RequestTaskRetry(c, t) \/ GateRead(c, t)
       PROVE  UNCHANGED <<crit, met, worker, late>> /\ call'[c].pc # "add"
  <2>1. UNCHANGED <<crit, met, worker, late>>
    BY <1>11 DEF PatchTask, RequestTaskRetry, GateRead, rows, ghosts
  <2>2. Begin(c, Idle) \/ \E gate : Begin(c, [pc |-> "gate", task |-> t, to |-> gate])
    BY <1>11 DEF PatchTask, RequestTaskRetry, GateRead
  <2> QED
    BY <1>10, <2>1, <2>2 DEF Idle
<1>12. ASSUME NEW t \in Tasks, NEW d \in Tasks, AddDependencyCheck(c, t, d)
       PROVE  UNCHANGED <<crit, met, worker, late>> /\ call'[c].pc # "add"
  BY <1>10, <1>12 DEF AddDependencyCheck, rows, ghosts
<1>13. ASSUME NEW t \in Tasks, NEW on \in SUBSET Tasks, SetDependenciesCheck(c, t, on)
       PROVE  UNCHANGED <<crit, met, worker, late>> /\ call'[c].pc # "add"
  BY <1>10, <1>13 DEF SetDependenciesCheck, rows, ghosts
<1>14. ASSUME NEW e \in edges, RemoveDependency(c, e)
       PROVE  UNCHANGED <<crit, met, worker, late>> /\ call'[c].pc # "add"
  BY <1>10, <1>14 DEF RemoveDependency, Idle
<1>15. ASSUME GateWrite(c) \/ AddDependencyInsert(c) \/ SetDependenciesReplace(c)
       PROVE  UNCHANGED <<crit, met, worker, late>> /\ call'[c].pc # "add"
  <2>1. UNCHANGED <<crit, met, worker, late>> /\ End(c)
    BY <1>15 DEF GateWrite, AddDependencyInsert, SetDependenciesReplace
  <2> QED
    BY <2>1 DEF End, Idle, TypeOK
<1> QED
  BY <1>3, <1>4, <1>5, <1>6, <1>7, <1>8, <1>9, <1>11, <1>12, <1>13, <1>14, <1>15 DEF Request

LEMMA NextCrit ==
    ASSUME TypeOK, KnownInv, CritInv, [Next]_vars
    PROVE  CritInv'
<1> USE WorkerShape
<1>1. ASSUME UNCHANGED <<crit, met, call, late>>, worker' = worker \/ worker'.pc \notin {"run", "mark", "close", "settle"}
      PROVE  CritInv'
  BY <1>1 DEF CritInv
<1>2. ASSUME NEW a \in Actors, AfterCommit(a)
      PROVE  CritInv'
  BY <1>1, <1>2 DEF AfterCommit, ListDependents, NotifyDependent, EachNotified, Decide, rows, ghosts
<1>3. CASE Background
  <2>1. CASE Restart
    BY <2>1 DEF Restart, CritInv, Idle
  <2> QED
    BY <1>1, <1>3, <2>1 DEF Background, Tick, Fire, TryNotify, ListPass, OfferListed, rows, ghosts
<1>4. CASE (\E t \in Tasks : Receive(t)) \/ Reload \/ Check \/ Defer \/ Pickup \/ Settle
  <2>1. UNCHANGED <<crit, met, call, late>>
    BY <1>4 DEF Receive, Reload, Check, Defer, Pickup, Settle, rows, ghosts
  <2>2. CASE \E t \in Tasks : Receive(t)
    BY <1>1, <2>1, <2>2 DEF Receive
  <2>3. CASE Reload
    BY <1>1, <2>1, <2>3 DEF Reload, Drop, Idle
  <2>4. CASE Check
    BY <1>1, <2>1, <2>4 DEF Check
  <2>5. CASE Defer \/ Pickup \/ Settle
    <3>1. worker' = Idle \/ worker' = [pc |-> "list", task |-> worker.task]
      BY <2>5 DEF Defer, Pickup, Settle, Drop
    <3> QED
      BY <1>1, <2>1, <3>1 DEF Idle
  <2> QED
    BY <1>4, <2>2, <2>3, <2>4, <2>5
<1>5. CASE List
  <2>1. worker'.pc = "run" /\ worker'.left = crit'[worker'.task] /\ call' = call
    BY <1>5 DEF List, rows
  <2> QED
    BY <2>1 DEF CritInv
<1>6. CASE Verdict
  <2>1. worker \in [pc : {"run", "mark"}, task : Tasks, left : SUBSET Items]
    BY <1>6 DEF Verdict, TypeOK, WorkerStates, Idle
  <2>2. UNCHANGED <<crit, met, call, late>> /\ worker.pc = "run"
    BY <1>6 DEF Verdict, rows, ghosts
  <2>3. CASE worker' = [worker EXCEPT !.pc = "mark"]
    BY <2>1, <2>2, <2>3 DEF CritInv
  <2>4. CASE worker' = [pc |-> "close", task |-> worker.task, to |-> "failed"]
    BY <2>2, <2>4 DEF CritInv
  <2> QED
    BY <1>6, <2>3, <2>4 DEF Verdict
<1>7. CASE Mark
  <2>1. worker \in [pc : {"run", "mark"}, task : Tasks, left : SUBSET Items]
    BY <1>7 DEF Mark, TypeOK, WorkerStates, Idle
  <2>2. PICK i \in worker.left :
          /\ met' = [met EXCEPT ![worker.task] = IF i \in crit[worker.task] THEN met[worker.task] \cup {i}
                                                 ELSE met[worker.task]]
          /\ worker' = [worker EXCEPT !.left = @ \ {i}]
    BY <1>7 DEF Mark
  <2>3. UNCHANGED <<crit, call, late>> /\ worker.pc = "mark"
    BY <1>7 DEF Mark, ghosts
  <2>4. /\ worker'.pc = "mark" /\ worker'.task = worker.task /\ worker'.left = worker.left \ {i}
        /\ met'[worker.task] = IF i \in crit[worker.task] THEN met[worker.task] \cup {i} ELSE met[worker.task]
    BY <2>1, <2>2, <2>3 DEF TypeOK
  <2> QED
    BY <2>3, <2>4 DEF CritInv
<1>8. CASE Marked
  <2>1. /\ UNCHANGED <<crit, met, call, late>> /\ worker.pc = "mark" /\ worker.left = {}
        /\ worker' = [pc |-> "close", task |-> worker.task, to |-> "done"]
    BY <1>8 DEF Marked, rows, ghosts
  <2> QED
    BY <2>1 DEF CritInv
<1>9. CASE Close
  <2>1. worker \in [pc : {"close", "settle"}, task : Tasks, to : {"done", "failed"}]
    BY <1>9 DEF Close, TypeOK, WorkerStates, Idle
  <2>2. /\ UNCHANGED <<crit, met, call, late>> /\ worker.pc = "close"
        /\ worker' = Idle \/ worker' = [worker EXCEPT !.pc = "settle"]
    BY <1>9 DEF Close, ghosts, Drop
  <2> QED
    BY <2>1, <2>2 DEF CritInv, Idle
<1>10. CASE UNCHANGED vars
  BY <1>1, <1>10 DEF vars, rows, ghosts
<1> QED
  BY <1>2, <1>3, <1>4, <1>5, <1>6, <1>7, <1>8, <1>9, <1>10, RequestCrit DEF Next, SlotStep

-----------------------------------------------------------------------------
(* What the slot has seen.                                                  *)

\* Beside what the slot itself does, `seen` only grows, and so does what is due.
LEMMA NextAdmit ==
    ASSUME TypeOK, AdmitInv, [Next]_vars
    PROVE  AdmitInv'
<1> USE WorkerShape
<1>1. CASE UNCHANGED vars
  BY <1>1 DEF vars, AdmitInv, Due, GateBlocks
<1>2. CASE Next /\ worker' = worker
  <2>1. worker'.pc \in {"check", "pickup"} => seen' = seen \cup Holding'
    BY <1>2 DEF Next, Watch, Idle, TypeOK
  <2>2. seen' \subseteq Predicates
    BY <1>2, SeenTypes DEF Next, TypeOK
  <2>3. worker.pc = "check" /\ Due(worker.row)' => "pickup" \in Holding'
    BY <1>2 DEF Holding, Idle
  <2> QED
    BY <1>2, <2>1, <2>2, <2>3 DEF AdmitInv, GateBlocks
<1>3. CASE Watch /\ Reload
  <2>1. CASE worker'.pc = "check"
    <3>1. row[worker.task].status = "ready" /\ worker' = [pc |-> "check", task |-> worker.task, row |-> row[worker.task]]
      BY <1>3, <2>1 DEF Reload, Drop, Idle
    <3>2. seen' = seen \cup Holding' /\ row' = row
      BY <1>3, <3>1 DEF Watch, Idle, Reload, rows
    <3>3. /\ "status" \in Holding'
          /\ ~GateBlocks(worker'.row.gate) => "gate" \in Holding'
      BY <3>1, <3>2 DEF Holding, Idle
    <3>4. Due(worker.row)' => "pickup" \in Holding'
      BY <3>1 DEF Holding, Idle
    <3> QED
      BY <3>1, <3>2, <3>3, <3>4 DEF AdmitInv, GateBlocks
  <2>2. CASE worker'.pc \in {"idle", "list"}
    BY <2>2 DEF AdmitInv
  <2> QED
    BY <1>3, <2>1, <2>2 DEF Reload, Drop, Idle
<1>4. CASE Watch /\ Check
  <2>1. PICK busy \in BOOLEAN :
          worker' = [pc |-> IF Ready(worker.task, worker.row) /\ ~busy THEN "pickup" ELSE "defer",
                     task |-> worker.task]
    BY <1>4 DEF Check
  <2>2. CASE worker'.pc = "pickup"
    <3>1. Ready(worker.task, worker.row) /\ worker.pc = "check" /\ worker'.task = worker.task
      BY <1>4, <2>1, <2>2 DEF Check
    <3>2. seen' = seen \cup Holding' /\ UNCHANGED <<row, edges>>
      BY <1>4, <2>2 DEF Watch, Idle, Check, rows
    <3>3. "dependencies" \in Holding'
      <4>1. PICK t : t = worker.task /\ t = worker'.task
        BY <3>1
      <4>2. DependenciesMet(t)'
        BY <3>1, <3>2, <4>1 DEF Ready, DependenciesMet, Preds
      <4>3. worker' # Idle
        BY <2>2 DEF Idle
      <4> QED
        BY <4>1, <4>2, <4>3 DEF Holding
    <3>4. {"status", "pickup", "gate"} \subseteq seen
      BY <3>1 DEF AdmitInv, Ready
    <3>5. seen' \subseteq Predicates
      BY <1>4, SeenTypes DEF TypeOK
    <3> QED
      BY <2>2, <3>2, <3>3, <3>4, <3>5 DEF AdmitInv, Predicates
  <2>3. CASE worker'.pc = "defer"
    BY <2>3 DEF AdmitInv
  <2> QED
    BY <2>1, <2>2, <2>3
<1>5. ASSUME worker'.pc \notin {"check", "pickup"}
      PROVE  AdmitInv'
  BY <1>5 DEF AdmitInv
<1>6. CASE Mark
  <2>1. worker \in [pc : {"run", "mark"}, task : Tasks, left : SUBSET Items]
    BY <1>6 DEF Mark, TypeOK, WorkerStates, Idle
  <2>2. worker.pc = "mark" /\ \E i \in worker.left : worker' = [worker EXCEPT !.left = @ \ {i}]
    BY <1>6 DEF Mark
  <2> QED
    BY <1>5, <2>1, <2>2
<1>7. CASE Close
  <2>1. worker \in [pc : {"close", "settle"}, task : Tasks, to : {"done", "failed"}]
    BY <1>7 DEF Close, TypeOK, WorkerStates, Idle
  <2>2. worker' = Idle \/ worker' = [worker EXCEPT !.pc = "settle"]
    BY <1>7 DEF Close, Drop
  <2> QED
    BY <1>5, <2>1, <2>2 DEF Idle
<1>8. CASE Verdict
  <2>1. worker \in [pc : {"run", "mark"}, task : Tasks, left : SUBSET Items]
    BY <1>8 DEF Verdict, TypeOK, WorkerStates, Idle
  <2> QED
    BY <1>5, <1>8, <2>1 DEF Verdict
<1>9. CASE (\E t \in Tasks : Receive(t)) \/ Defer \/ Pickup \/ List \/ Marked \/ Settle \/ Restart
  <2>1. CASE \E t \in Tasks : Receive(t)
    BY <1>5, <2>1 DEF Receive
  <2>2. CASE List \/ Marked
    BY <1>5, <2>2 DEF List, Marked
  <2>3. CASE Defer \/ Pickup \/ Settle \/ Restart
    <3>1. worker' = Idle \/ worker' = [pc |-> "list", task |-> worker.task]
      BY <2>3 DEF Defer, Pickup, Settle, Restart, Drop
    <3> QED
      BY <1>5, <3>1 DEF Idle
  <2> QED
    BY <1>9, <2>1, <2>2, <2>3
<1>10. ASSUME NEW c \in Calls, Request(c)
       PROVE  worker' = worker
  BY <1>10 DEF Request, CreateTask, PatchTask, DeleteTask, RequestTaskRetry, GateRead, GateWrite,
         AddDependencyCheck, AddDependencyInsert, RemoveDependency, SetDependenciesCheck,
         SetDependenciesReplace, ItemLoad, ItemAdd, ItemDelete, ItemUndo
<1>11. ASSUME NEW a \in Actors, AfterCommit(a)
       PROVE  worker' = worker
  BY <1>11 DEF AfterCommit, ListDependents, NotifyDependent, EachNotified, Decide
<1>12. CASE Next /\ SlotStep
  BY <1>3, <1>4, <1>6, <1>7, <1>8, <1>9, <1>12 DEF Next, SlotStep
<1>13. CASE Next /\ Background
  <2>1. CASE Restart
    BY <1>9, <2>1
  <2>2. CASE worker' = worker
    BY <1>2, <1>13, <2>2
  <2> QED
    BY <1>13, <2>1, <2>2 DEF Background, Tick, Fire, TryNotify, ListPass, OfferListed
<1> QED
  BY <1>1, <1>2, <1>10, <1>11, <1>12, <1>13 DEF Next

-----------------------------------------------------------------------------
(* What the queue holds has been created.                                   *)

LEMMA StaysKnown ==
    ASSUME TypeOK, [Next]_vars, NEW u \in Tasks, Known(u)
    PROVE  Known(u)'
<1> USE RowTypes, WorkerShape, CallShape
<1>1. ASSUME row' = row
      PROVE  Known(u)'
  BY <1>1 DEF Known
<1>2. ASSUME NEW t \in Tasks, NEW r, r.status # "absent", row' = [row EXCEPT ![t] = r]
      PROVE  Known(u)'
  BY <1>2 DEF Known, TypeOK
<1>3. ASSUME NEW c \in Calls, Request(c)
      PROVE  Known(u)'
  <2>1. ASSUME NEW t \in Tasks, CreateTask(c, t)
        PROVE  Known(u)'
    <3>1. PICK status \in {"ready", "on_hold"}, pickup \in {0, now + 1}, gate \in {"none", "pending"} :
            row' = [row EXCEPT ![t] = [status |-> status, pickup |-> pickup, gate |-> gate]]
      BY <2>1 DEF CreateTask
    <3> QED
      BY <1>2, <3>1
  <2>2. ASSUME NEW t \in Tasks, PatchTask(c, t)
        PROVE  Known(u)'
    <3>1. PICK p \in bound.patches : row' = [row EXCEPT ![t] = Patched(row[t], p)]
      BY <2>2 DEF PatchTask
    <3>2. Patched(row[t], p).status \in Statuses
      BY <2>2, PatchedTypes DEF PatchTask
    <3> QED
      BY <1>2, <3>1, <3>2 DEF Statuses
  <2>3. ASSUME NEW t \in Tasks, DeleteTask(c, t)
        PROVE  Known(u)'
    BY <1>2, <2>3 DEF DeleteTask, Gone, Absent
  <2>4. ASSUME NEW t \in Tasks, RequestTaskRetry(c, t)
        PROVE  Known(u)'
    <3>1. [row[t] EXCEPT !.status = "ready"].status = "ready"
      BY DEF Rows
    <3> QED
      BY <1>2, <2>4, <3>1 DEF RequestTaskRetry
  <2>5. CASE GateWrite(c)
    <3> DEFINE t == call[c].task
    <3>1. CASE Exists(t)
      <4>1. [row[t] EXCEPT !.gate = call[c].to].status = row[t].status
        BY <2>5 DEF GateWrite, TypeOK, Rows
      <4> QED
        BY <1>2, <2>5, <3>1, <4>1 DEF GateWrite, TypeOK, Exists
    <3>2. CASE ~Exists(t)
      BY <1>1, <2>5, <3>2 DEF GateWrite
    <3> QED
      BY <3>1, <3>2
  <2> QED
    BY <1>1, <1>3, <2>1, <2>2, <2>3, <2>4, <2>5
    DEF Request, GateRead, AddDependencyCheck, AddDependencyInsert, RemoveDependency,
        SetDependenciesCheck, SetDependenciesReplace, ItemLoad, ItemAdd, ItemDelete, ItemUndo, rows
<1>4. ASSUME NEW a \in Actors, AfterCommit(a)
      PROVE  Known(u)'
  BY <1>1, <1>4 DEF AfterCommit, ListDependents, NotifyDependent, EachNotified, Decide, rows
<1>5. CASE Background
  BY <1>1, <1>5 DEF Background, Tick, Fire, TryNotify, ListPass, OfferListed, Restart, rows
<1>6. CASE Defer
  <2> DEFINE t == worker.task
             r == [row[t] EXCEPT !.pickup = now + 1]
  <2>1. row' = row \/ (Exists(t) /\ row' = [row EXCEPT ![t] = r])
    BY <1>6 DEF Defer
  <2>2. t \in Tasks
    BY <1>6 DEF Defer, TypeOK
  <2>3. r.status = row[t].status
    BY <2>2 DEF Rows
  <2> HIDE DEF r
  <2> QED
    BY <1>1, <1>2, <2>1, <2>2, <2>3 DEF Exists
<1>7. CASE Pickup
  <2> DEFINE t == worker.task
             r == [row[t] EXCEPT !.status = "running"]
  <2>1. row' = row \/ row' = [row EXCEPT ![t] = r]
    BY <1>7 DEF Pickup
  <2>2. t \in Tasks
    BY <1>7 DEF Pickup, TypeOK
  <2>3. r.status = "running"
    BY <2>2 DEF Rows
  <2> HIDE DEF r
  <2> QED
    BY <1>1, <1>2, <2>1, <2>2, <2>3
<1>8. CASE Settle
  <2> DEFINE t == worker.task
             r == [row[t] EXCEPT !.status = worker.to]
  <2>1. row' = row \/ row' = [row EXCEPT ![t] = r]
    BY <1>8 DEF Settle
  <2>2. t \in Tasks /\ worker.to \in {"done", "failed"}
    BY <1>8 DEF Settle, TypeOK
  <2>3. r.status = worker.to
    BY <2>2 DEF Rows
  <2> HIDE DEF r
  <2> QED
    BY <1>1, <1>2, <2>1, <2>2, <2>3
<1>9. CASE (\E t \in Tasks : Receive(t)) \/ Reload \/ Check \/ List \/ Verdict \/ Mark \/ Marked \/ Close
  <2>1. row' = row
    BY <1>9 DEF Receive, Reload, Check, List, Verdict, Mark, Marked, Close, rows
  <2> QED
    BY <1>1, <2>1
<1>10. CASE UNCHANGED vars
  BY <1>1, <1>10 DEF vars, rows
<1> QED
  BY <1>3, <1>4, <1>5, <1>6, <1>7, <1>8, <1>9, <1>10 DEF Next, SlotStep

\* A commit of a ready row knows its task.
LEMMA TellKnown ==
    ASSUME TypeOK, KnownInv, [Next]_vars, NEW a \in Actors, NEW t \in Tasks,
           NEW prev \in Statuses \cup {"absent", "gone"}, NEW r \in Rows, NEW touched \in BOOLEAN,
           Tell(a, t, prev, r, touched), row'[t] = r,
           UNCHANGED <<queue, pass>>, worker' = worker \/ worker'.pc = "idle", PostInv
    PROVE  KnownInv'
<1>1. Told(a, t, prev, r, touched)
  BY TellEffect
<1>2. \A u \in Tasks : Known(u) => Known(u)'
  BY StaysKnown
<1>3. ASSUME NEW b \in Actors, post'[b].stage # "none", post'[b].row.status = "ready"
      PROVE  row'[post'[b].task].status # "absent"
  <2>1. CASE b = a
    BY <1>1, <1>3, <2>1 DEF Told, Known
  <2>2. CASE b # a
    <3>1. post[b].task \in Tasks /\ Known(post[b].task) /\ post'[b].task = post[b].task
      BY <1>1, <1>3, <2>2 DEF Told, KnownInv, PostInv
    <3> QED
      BY <1>2, <3>1 DEF Known
  <2> QED
    BY <2>1, <2>2
<1>4. \A u \in queue \cup pass.left : u \in Tasks
  BY DEF TypeOK
<1>5. worker.pc # "idle" => worker.task \in Tasks
  BY WorkerShape DEF TypeOK
<1> QED
  BY <1>2, <1>3, <1>4, <1>5 DEF KnownInv, Known

LEMMA RequestKnown ==
    ASSUME TypeOK, PostInv, KnownInv, NEW c \in Calls, Request(c), Next
    PROVE  KnownInv'
<1> USE SlotIsAnActor, RowTypes, CallShape
<1>1. ASSUME UNCHANGED <<queue, pass, worker, post>>
      PROVE  KnownInv'
  <2>1. \A u \in Tasks : Known(u) => Known(u)'
    BY StaysKnown
  <2>2. worker.pc # "idle" => worker.task \in Tasks
    BY WorkerShape DEF TypeOK
  <2>3. \A b \in Actors : post[b].stage # "none" => post[b].task \in Tasks
    BY DEF PostInv
  <2> QED
    BY <1>1, <2>1, <2>2, <2>3 DEF KnownInv, Known, TypeOK
<1>2. ASSUME NEW t \in Tasks, NEW prev \in Statuses \cup {"absent", "gone"}, NEW r \in Rows,
             NEW touched \in BOOLEAN, Tell(c, t, prev, r, touched), row'[t] = r,
             UNCHANGED <<queue, pass, worker>>
      PROVE  KnownInv'
  BY <1>2, TellKnown
<1>3. ASSUME NEW t \in Tasks, CreateTask(c, t)
      PROVE  KnownInv'
  <2>1. PICK status \in {"ready", "on_hold"}, pickup \in {0, now + 1}, gate \in {"none", "pending"} :
          LET r == [status |-> status, pickup |-> pickup, gate |-> gate] IN
          row' = [row EXCEPT ![t] = r] /\ Tell(c, t, "absent", r, FALSE)
    BY <1>3 DEF CreateTask
  <2> DEFINE r == [status |-> status, pickup |-> pickup, gate |-> gate]
  <2>2. r \in Rows
    BY DEF TypeOK, Rows, Statuses, Gates
  <2>3. row'[t] = r /\ Tell(c, t, "absent", r, FALSE) /\ UNCHANGED <<queue, pass, worker>>
    BY <1>3, <2>1 DEF TypeOK, CreateTask, tells
  <2> HIDE DEF r
  <2> QED
    BY <1>2, <2>2, <2>3
<1>4. ASSUME NEW t \in Tasks, PatchTask(c, t)
      PROVE  KnownInv'
  <2>1. PICK p \in bound.patches : /\ row' = [row EXCEPT ![t] = Patched(row[t], p)]
                                   /\ Tell(c, t, row[t].status, Patched(row[t], p), p.field = "pickup")
                                   /\ UNCHANGED <<queue, pass, worker>>
    BY <1>4 DEF PatchTask, tells
  <2>2. Patched(row[t], p) \in Rows /\ row'[t] = Patched(row[t], p)
    BY <1>4, <2>1, PatchedTypes DEF PatchTask, TypeOK
  <2> QED
    BY <1>2, <2>1, <2>2
<1>5. ASSUME NEW t \in Tasks, DeleteTask(c, t)
      PROVE  KnownInv'
  <2>1. /\ row'[t] = Gone /\ Tell(c, t, row[t].status, Gone, FALSE)
        /\ UNCHANGED <<queue, pass, worker>>
    BY <1>5 DEF DeleteTask, TypeOK, tells
  <2> QED
    BY <1>2, <2>1
<1>6. ASSUME NEW t \in Tasks, RequestTaskRetry(c, t)
      PROVE  KnownInv'
  <2> DEFINE r == [row[t] EXCEPT !.status = "ready"]
  <2>1. r \in Rows /\ "failed" \in Statuses
    BY DEF Rows, Statuses
  <2>2. row'[t] = r /\ Tell(c, t, "failed", r, FALSE) /\ UNCHANGED <<queue, pass, worker>>
    BY <1>6 DEF RequestTaskRetry, TypeOK, tells
  <2> HIDE DEF r
  <2> QED
    BY <1>2, <2>1, <2>2
<1>7. CASE SetDependenciesReplace(c)
  <2> DEFINE t == call[c].task
  <2>1. t \in Tasks /\ UNCHANGED <<row, queue, pass, worker>>
    BY <1>7 DEF SetDependenciesReplace, TypeOK, tells
  <2>2. CASE Tell(c, t, row[t].status, row[t], FALSE)
    BY <1>2, <2>1, <2>2
  <2>3. CASE post' = post
    BY <1>1, <2>1, <2>3
  <2> QED
    BY <1>7, <2>2, <2>3 DEF SetDependenciesReplace
<1>8. ASSUME \/ \E t \in Tasks : GateRead(c, t)
             \/ \E t \in Tasks, d \in Tasks : AddDependencyCheck(c, t, d)
             \/ \E t \in Tasks, on \in SUBSET Tasks : SetDependenciesCheck(c, t, on)
             \/ \E t \in Tasks, i \in Items : ItemLoad(c, t, i) \/ ItemUndo(c, t, i)
             \/ \E e \in edges : RemoveDependency(c, e)
             \/ GateWrite(c) \/ AddDependencyInsert(c) \/ ItemAdd(c) \/ ItemDelete(c)
      PROVE  UNCHANGED <<queue, pass, worker, post>>
  BY <1>8 DEF GateRead, AddDependencyCheck, SetDependenciesCheck, ItemLoad, ItemUndo, RemoveDependency,
              GateWrite, AddDependencyInsert, ItemAdd, ItemDelete, tells
<1> QED
  BY <1>1, <1>3, <1>4, <1>5, <1>6, <1>7, <1>8 DEF Request

LEMMA NextKnown ==
    ASSUME TypeOK, PostInv, KnownInv, [Next]_vars
    PROVE  KnownInv'
<1> USE SlotIsAnActor, WorkerShape
<1>1. \A u \in Tasks : Known(u) => Known(u)'
  BY StaysKnown
<1>2. worker.pc # "idle" => worker.task \in Tasks
  BY DEF TypeOK
<1>3. \A b \in Actors : post[b].stage # "none" => post[b].task \in Tasks
  BY DEF PostInv
<1>4. ASSUME \A u \in queue' : u \in queue \/ (u \in Tasks /\ Known(u)),
             \/ worker'.pc = "idle"
             \/ worker'.task = worker.task /\ worker.pc # "idle"
             \/ worker'.task \in queue,
             \/ pass'.list # "ready"
             \/ pass'.left \subseteq pass.left /\ pass.list = "ready"
             \/ \A u \in pass'.left : u \in Tasks /\ Known(u),
             \A b \in Actors :
               \/ post'[b].stage = "none"
               \/ post'[b].row.status # "ready"
               \/ post'[b].task = post[b].task /\ post'[b].row = post[b].row /\ post[b].stage # "none"
      PROVE  KnownInv'
  BY <1>1, <1>2, <1>3, <1>4 DEF KnownInv, Known, TypeOK
<1>5. \A u \in Tasks : Dequeuable(u) => Known(u)
  BY DEF Dequeuable, Ready, Known
<1>6. ASSUME NEW a \in Actors, AfterCommit(a)
      PROVE  KnownInv'
  <2>1. UNCHANGED <<worker, pass>>
    BY <1>6 DEF AfterCommit, ListDependents, NotifyDependent, EachNotified, Decide, tells
  <2>2. \A u \in queue' : u \in queue \/ (u \in Tasks /\ Known(u))
    <3>1. CASE NotifyDependent(a)
      <4>1. \/ queue' = queue
            \/ \E d \in post[a].left : Dequeuable(d) /\ queue' = Offered(d)
        BY <3>1 DEF NotifyDependent
      <4>2. post[a].left \subseteq Tasks
        BY DEF TypeOK, Posts
      <4> QED
        BY <1>5, <4>1, <4>2 DEF Offered
    <3>2. CASE Decide(a)
      <4>1. queue' = queue \/ (post[a].row.status = "ready" /\ queue' = Offered(post[a].task))
        BY <3>2 DEF Decide
      <4>2. post[a].stage = "decide" /\ post[a].task \in Tasks
        BY <1>3, <3>2 DEF Decide
      <4> QED
        BY <4>1, <4>2 DEF Offered, KnownInv
    <3>3. CASE ListDependents(a) \/ EachNotified(a)
      BY <3>3 DEF ListDependents, EachNotified, tells
    <3> QED
      BY <1>6, <3>1, <3>2, <3>3 DEF AfterCommit
  <2>3. ASSUME NEW b \in Actors
        PROVE  \/ post'[b].stage = "none"
               \/ post'[b].task = post[b].task /\ post'[b].row = post[b].row /\ post[b].stage # "none"
    <3>1. post[b] \in Posts /\ post[a] \in Posts
      BY DEF TypeOK
    <3>2. CASE ListDependents(a)
      BY <3>1, <3>2 DEF ListDependents, Posts, TypeOK
    <3>3. CASE NotifyDependent(a)
      <4>1. PICK d \in post[a].left : post' = [post EXCEPT ![a].left = @ \ {d}]
        BY <3>3 DEF NotifyDependent
      <4> QED
        BY <3>1, <3>3, <4>1 DEF NotifyDependent, Posts, TypeOK
    <3>4. CASE EachNotified(a)
      BY <3>1, <3>4 DEF EachNotified, Posts, TypeOK, NoPost
    <3>5. CASE Decide(a)
      <4>1. post'[b] = IF b = a THEN NoPost
                       ELSE IF b \in post[a].over THEN [post[b] EXCEPT !.overtaken = TRUE] ELSE post[b]
        BY <3>5 DEF Decide
      <4> QED
        BY <3>1, <4>1 DEF Posts, NoPost
    <3> QED
      BY <1>6, <3>2, <3>3, <3>4, <3>5 DEF AfterCommit
  <2> QED
    BY <1>4, <2>1, <2>2, <2>3
<1>7. CASE Background
  <2>1. CASE Restart
    BY <2>1 DEF Restart, KnownInv, NoPost, NoPass, Idle
  <2>2. CASE ListPass
    <3>1. UNCHANGED <<queue, post, worker>>
      BY <2>2 DEF ListPass
    <3>2. pass'.list = "ready" => \A u \in pass'.left : u \in Tasks /\ Dequeuable(u)
      BY <2>2 DEF ListPass, NoPass, TypeOK
    <3> QED
      BY <1>4, <1>5, <3>1, <3>2
  <2>3. ASSUME NEW t \in Tasks, OfferListed(t)
        PROVE  KnownInv'
    <3>1. UNCHANGED <<post, worker>> /\ t \in pass.left
      BY <2>3 DEF OfferListed
    <3>2. queue' = queue \/ (queue' = Offered(t) /\ (pass.list = "ready" \/ row[t].status = "running"))
      BY <2>3 DEF OfferListed
    <3>3. pass'.left \subseteq pass.left /\ pass'.list = pass.list
      <4>1. \/ pass' = [pass EXCEPT !.left = IF t \in Offered(t) THEN pass.left \ {t} ELSE {}]
            \/ pass' = [pass EXCEPT !.left = pass.left \ {t}]
        BY <2>3 DEF OfferListed
      <4> QED
        BY <4>1 DEF TypeOK
    <3>4. \A u \in queue' : u \in queue \/ (u \in Tasks /\ Known(u))
      BY <3>1, <3>2 DEF Offered, KnownInv, Known
    <3> QED
      BY <1>4, <3>1, <3>3, <3>4
  <2>4. ASSUME NEW t \in Tasks, TryNotify(t)
        PROVE  KnownInv'
    <3>1. \A u \in queue' : u \in queue \/ (u \in Tasks /\ Known(u))
      BY <2>4 DEF TryNotify, Offered, Known
    <3> QED
      BY <1>4, <2>4, <3>1 DEF TryNotify
  <2>5. CASE Tick \/ \E t \in Tasks : Fire(t)
    BY <1>4, <2>5 DEF Tick, Fire, tells
  <2> QED
    BY <1>7, <2>1, <2>2, <2>3, <2>4, <2>5 DEF Background
<1>8. CASE UNCHANGED vars
  BY <1>4, <1>8 DEF vars, tells
<1>9. CASE Defer
  <2> DEFINE t == worker.task
             r == [row[t] EXCEPT !.pickup = now + 1]
  <2>1. t \in Tasks /\ worker' = Idle /\ UNCHANGED <<queue, pass>>
    BY <1>9 DEF Defer, TypeOK, Drop, tells
  <2>2. CASE Exists(t) /\ row' = [row EXCEPT ![t] = r] /\ Tell(Slot, t, r.status, r, TRUE)
    <3>1. r \in Rows /\ r.status \in Statuses
      BY <2>1, <2>2, RowTypes DEF TypeOK, Rows
    <3> HIDE DEF r, t
    <3>2. row'[t] = r
      BY <2>1, <2>2 DEF TypeOK
    <3> QED
      BY <2>1, <2>2, <3>1, <3>2, TellKnown DEF Idle
  <2>3. CASE post' = post
    BY <1>4, <2>1, <2>3 DEF Idle
  <2> QED
    BY <1>9, <2>2, <2>3 DEF Defer
<1>10. CASE Settle
  <2> DEFINE t == worker.task
             r == [row[t] EXCEPT !.status = worker.to]
  <2>1. /\ t \in Tasks /\ worker' = Idle /\ UNCHANGED <<queue, pass>>
        /\ worker.to \in Statuses
    BY <1>10 DEF Settle, TypeOK, Drop, tells, Statuses
  <2>2. CASE row' = [row EXCEPT ![t] = r] /\ Tell(Slot, t, row[t].status, r, FALSE)
    <3>1. r \in Rows /\ row[t].status \in Statuses \cup {"absent", "gone"} /\ row'[t] = r
      BY <2>1, <2>2, RowTypes, SMTT(15), ZenonT(40) DEF TypeOK, Rows
    <3> HIDE DEF r, t
    <3> QED
      BY <2>1, <2>2, <3>1, TellKnown DEF Idle
  <2>3. CASE post' = post
    BY <1>4, <2>1, <2>3 DEF Idle
  <2> QED
    BY <1>10, <2>2, <2>3 DEF Settle
<1>11. CASE Mark
  <2>1. worker \in [pc : {"run", "mark"}, task : Tasks, left : SUBSET Items]
    BY <1>11 DEF Mark, TypeOK, WorkerStates, Idle
  <2>2. /\ UNCHANGED <<queue, pass>> /\ \E i \in worker.left : worker' = [worker EXCEPT !.left = @ \ {i}]
        /\ \/ post' = post
           \/ post' = [post EXCEPT ![Slot] = [NoPost EXCEPT !.stage = "list", !.task = worker.task,
                                                            !.prev = "criteria"]]
    BY <1>11 DEF Mark, tells
  <2>3. worker'.task = worker.task /\ worker.pc # "idle"
    BY <2>1, <2>2
  <2>4. ASSUME NEW b \in Actors
        PROVE  post'[b] = post[b] \/ post'[b].row.status = "absent"
    <3> DEFINE p == [NoPost EXCEPT !.stage = "list", !.task = worker.task, !.prev = "criteria"]
    <3>1. p.row.status = "absent"
      BY DEF NoPost, Absent
    <3> HIDE DEF p
    <3>2. post' = post \/ post' = [post EXCEPT ![Slot] = p]
      BY <2>2 DEF p
    <3> QED
      BY <3>1, <3>2 DEF TypeOK
  <2> QED
    BY <1>4, <2>2, <2>3, <2>4
<1>12. ASSUME NEW t \in Tasks, Receive(t)
       PROVE  KnownInv'
  BY <1>4, <1>12 DEF Receive
<1>13. CASE Reload \/ Check \/ Pickup \/ List \/ Verdict \/ Marked \/ Close
  <2>1. UNCHANGED <<queue, pass, post>>
    BY <1>13 DEF Reload, Check, Pickup, List, Verdict, Marked, Close, tells
  <2>2. worker'.pc = "idle" \/ (worker'.task = worker.task /\ worker.pc # "idle")
    <3>1. CASE Reload
      BY <3>1 DEF Reload, Drop, Idle
    <3>2. CASE Check
      BY <3>2 DEF Check
    <3>3. CASE Pickup
      BY <3>3 DEF Pickup, Drop, Idle
    <3>4. CASE List \/ Marked
      BY <3>4 DEF List, Marked
    <3>5. CASE Verdict
      <4>1. worker \in [pc : {"run", "mark"}, task : Tasks, left : SUBSET Items]
        BY <3>5 DEF Verdict, TypeOK, WorkerStates, Idle
      <4> QED
        BY <3>5, <4>1 DEF Verdict
    <3>6. CASE Close
      <4>1. worker \in [pc : {"close", "settle"}, task : Tasks, to : {"done", "failed"}]
        BY <3>6 DEF Close, TypeOK, WorkerStates, Idle
      <4> QED
        BY <3>6, <4>1 DEF Close, Drop, Idle
    <3> QED
      BY <1>13, <3>1, <3>2, <3>3, <3>4, <3>5, <3>6
  <2> QED
    BY <1>4, <2>1, <2>2
<1> QED
  BY <1>6, <1>7, <1>8, <1>9, <1>10, <1>11, <1>12, <1>13, RequestKnown DEF Next, SlotStep

-----------------------------------------------------------------------------
(* Nobody is forgotten: commits.                                            *)

\* A Tell by a goroutine that had nothing to tell takes no decision or list back.
LEMMA ToldKeeps ==
    ASSUME NEW a \in Actors, NEW t, NEW prev, NEW r, NEW touched, Told(a, t, prev, r, touched),
           post[a].stage = "none"
    PROVE  /\ \A b \in Actors : \A u : Fresh(b, u) => b # a /\ Fresh(b, u)'
           /\ r.status = "ready" /\ (prev # "ready" \/ touched) => Fresh(a, t)'
           /\ \A b \in Actors : post[b].stage # "none" =>
                post'[b].stage = post[b].stage /\ post'[b].task = post[b].task /\ post'[b].left = post[b].left
<1> USE DEF Told
<1>1. ASSUME NEW b \in Actors, NEW u, Fresh(b, u)
      PROVE  b # a /\ Fresh(b, u)'
  BY <1>1 DEF Fresh
<1>2. ASSUME r.status = "ready", prev # "ready" \/ touched
      PROVE  Fresh(a, t)'
  BY <1>2 DEF Fresh
<1>3. ASSUME NEW b \in Actors, post[b].stage # "none"
      PROVE  /\ post'[b].stage = post[b].stage /\ post'[b].task = post[b].task
             /\ post'[b].left = post[b].left
  BY <1>3
<1> QED
  BY <1>1, <1>2, <1>3

\* The commit of r over the row of t by a: it is fresh, or leaves status and pickup alone.
Commits(a, t, prev, r, touched) ==
  /\ Tell(a, t, prev, r, touched) /\ post[a].stage = "none"
  /\ row' = [row EXCEPT ![t] = r]
  /\ r.status = "ready" =>
       prev # "ready" \/ touched \/ (row[t].status = "ready" /\ row[t].pickup = r.pickup)
  /\ r.status = "done" /\ row[t].status # "done" => prev # "done"
  /\ UNCHANGED <<now, queue, wake, firing>>
  /\ missed \subseteq missed'
  /\ \A u : Handles(u) => \/ Handles(u)'
                          \/ u = t /\ (r.status = "ready" => prev # "ready" \/ touched)

LEMMA CommitLatest ==
    ASSUME TypeOK, PostInv, LatestInv, NEW a \in Actors, NEW t \in Tasks,
           NEW prev \in Statuses \cup {"absent", "gone"}, NEW r \in Rows, NEW touched \in BOOLEAN,
           Commits(a, t, prev, r, touched)
    PROVE  LatestInv'
<1>1. Told(a, t, prev, r, touched) /\ post[a].stage = "none"
  BY TellEffect DEF Commits
<1>2. /\ \A b \in Actors : \A u : Fresh(b, u) => b # a /\ Fresh(b, u)'
      /\ r.status = "ready" /\ (prev # "ready" \/ touched) => Fresh(a, t)'
  BY <1>1, ToldKeeps
<1>3. row'[t] = r /\ \A u \in Tasks : u # t => row'[u] = row[u]
  BY DEF Commits, TypeOK
<1>4. ASSUME NEW b \in Actors, Stale(b)'
      PROVE  Righted(b)'
  <2>1. b # a
    BY <1>1, <1>3, <1>4 DEF Told, Stale
  <2>2. /\ post'[b].stage = post[b].stage /\ post'[b].task = post[b].task /\ post'[b].prev = post[b].prev
        /\ post'[b].row = post[b].row /\ post'[b].overtaken = post[b].overtaken
    BY <1>1, <2>1 DEF Told
  <2>3. post[b].task \in Tasks
    BY <1>4, <2>2 DEF PostInv, Stale
  <2>4. ASSUME Stale(b)
        PROVE  Righted(b)'
    <3>1. PICK d \in Actors : d # b /\ Fresh(d, post[b].task) /\ b \in post[d].over
      BY <2>4 DEF LatestInv, Righted
    <3>2. d # a /\ b \in post'[d].over
      BY <1>1, <1>2, <2>1, <3>1 DEF Told
    <3>3. PICK u : u = post[b].task
      OBVIOUS
    <3>4. Fresh(d, u)' /\ u = post'[b].task
      BY <1>2, <2>2, <3>1, <3>3
    <3> QED
      BY <3>1, <3>2, <3>4 DEF Righted, Fresh
  <2>5. CASE post[b].task = t
    <3>1. r.status = "ready"
      BY <1>3, <1>4, <2>2, <2>5 DEF Stale
    <3>2. CASE prev # "ready" \/ touched
      <4>1. Fresh(a, t)'
        BY <1>2, <3>1, <3>2
      <4>2. b \in post'[a].over
        BY <1>1, <2>1, <2>5 DEF Told
      <4> QED
        BY <2>1, <2>2, <2>5, <4>1, <4>2 DEF Righted, Fresh
    <3>3. CASE ~(prev # "ready" \/ touched)
      <4>1. row[t].status = "ready" /\ row[t].pickup = r.pickup
        BY <3>1, <3>3 DEF Commits
      <4> QED
        BY <1>3, <1>4, <2>2, <2>4, <2>5, <4>1 DEF Stale
    <3> QED
      BY <3>2, <3>3
  <2>6. CASE post[b].task # t
    BY <1>3, <1>4, <2>2, <2>3, <2>4, <2>6 DEF Stale
  <2> QED
    BY <2>5, <2>6
<1> QED
  BY <1>4 DEF LatestInv

\* Who is held stays so, unless it is the task of the commit, which then is fresh.
LEMMA CommitHolds ==
    ASSUME TypeOK, NEW a \in Actors, NEW t \in Tasks,
           NEW prev \in Statuses \cup {"absent", "gone"}, NEW r \in Rows, NEW touched \in BOOLEAN,
           Commits(a, t, prev, r, touched), NEW u
    PROVE  /\ Held(u) => \/ Held(u)'
                         \/ u = t /\ r.status # "ready"
           /\ r.status = "ready" /\ (prev # "ready" \/ touched) => Held(t)'
<1>1. Told(a, t, prev, r, touched) /\ post[a].stage = "none"
  BY TellEffect DEF Commits
<1>2. /\ \A b \in Actors : \A v : Fresh(b, v) => Fresh(b, v)'
      /\ r.status = "ready" /\ (prev # "ready" \/ touched) => Fresh(a, t)'
  BY <1>1, ToldKeeps
<1>3. r.status = "ready" /\ (prev # "ready" \/ touched) => Held(t)'
  BY <1>2 DEF Held
<1>4. queue \cup missed \subseteq queue' \cup missed'
  BY DEF Commits
<1>5. Handles(u) => \/ Handles(u)'
                    \/ u = t /\ (r.status = "ready" => prev # "ready" \/ touched)
  BY DEF Commits
<1>6. ASSUME Held(u), ~(u = t /\ r.status # "ready")
      PROVE  Held(u)'
  <2>1. CASE u \in queue \cup missed
    BY <1>4, <2>1 DEF Held
  <2>2. CASE Handles(u)
    BY <1>3, <1>5, <1>6, <2>2 DEF Held
  <2>3. ASSUME NEW b \in Actors, Fresh(b, u)
        PROVE  Held(u)'
    BY <1>2, <2>3 DEF Held
  <2> QED
    BY <1>6, <2>1, <2>2, <2>3 DEF Held
<1> QED
  BY <1>3, <1>6

LEMMA CommitTimed ==
    ASSUME TypeOK, TimedInv, NEW a \in Actors, NEW t \in Tasks,
           NEW prev \in Statuses \cup {"absent", "gone"}, NEW r \in Rows, NEW touched \in BOOLEAN,
           Commits(a, t, prev, r, touched)
    PROVE  TimedInv'
<1>1. row'[t] = r /\ (\A u \in Tasks : u # t => row'[u] = row[u]) /\ now' = now /\ wake' = wake
  BY DEF Commits, TypeOK
<1>2. ASSUME NEW u \in Tasks, row'[u].status = "ready", ~(Due(row[u])')
      PROVE  Timed(u)'
  <2>1. row'[u].pickup > now
    BY <1>1, <1>2 DEF Due, TypeOK, Rows
  <2>2. CASE u = t /\ (prev # "ready" \/ touched)
    BY <1>1, <1>2, <2>2, CommitHolds DEF Timed
  <2>3. CASE ~(u = t /\ (prev # "ready" \/ touched))
    <3>1. row[u].status = "ready" /\ row[u].pickup = row'[u].pickup
      BY <1>1, <1>2, <2>3 DEF Commits
    <3>2. Timed(u)
      BY <1>1, <1>2, <3>1 DEF TimedInv, Due
    <3>3. CASE Held(u)
      <4>1. Held(u)'
        BY <1>1, <1>2, <3>3, CommitHolds
      <4> QED
        BY <4>1 DEF Timed
    <3>4. CASE wake[u] >= row[u].pickup
      BY <1>1, <3>1, <3>4 DEF Timed
    <3> QED
      BY <3>2, <3>3, <3>4 DEF Timed
  <2> QED
    BY <2>2, <2>3
<1> QED
  BY <1>2 DEF TimedInv

\* A commit that tells nobody of what it lets run records it; any other lets run only its
\* own task, and the dependents of a task it finishes.
Discloses(r, t, prev, touched) ==
  \/ Quietly
  \/ /\ edges \subseteq edges'
     /\ r.status = "ready" => prev # "ready" \/ touched \/ row[t].gate = r.gate

LEMMA CommitReady ==
    ASSUME TypeOK, PostInv, ReadyInv, NEW a \in Actors, NEW t \in Tasks,
           NEW prev \in Statuses \cup {"absent", "gone"}, NEW r \in Rows, NEW touched \in BOOLEAN,
           Commits(a, t, prev, r, touched), Discloses(r, t, prev, touched)
    PROVE  ReadyInv'
<1>1. Told(a, t, prev, r, touched) /\ post[a].stage = "none"
  BY TellEffect DEF Commits
<1>2. /\ row'[t] = r /\ (\A u \in Tasks : u # t => row'[u] = row[u])
      /\ UNCHANGED <<now, wake, firing>>
  BY DEF Commits, TypeOK
<1>3. ASSUME NEW u \in Tasks, u \in missed' \/ Held(u)'
      PROVE  Spoken(u)'
  BY <1>3 DEF Spoken, Held
<1>4. Quietly => \A u \in Tasks : Dequeuable(u)' /\ (Dequeuable(u) => Unlisted(u)) => u \in missed'
  BY QuietlyTypes DEF TypeOK
<1>5. ASSUME NEW u \in Tasks, Dequeuable(u), Dequeuable(u)'
      PROVE  Spoken(u)'
  <2>1. CASE Held(u)
    <3>1. ~(u = t /\ r.status # "ready")
      BY <1>2, <1>5 DEF Dequeuable, Ready
    <3> QED
      BY <1>3, <2>1, <3>1, CommitHolds
  <2>2. CASE wake[u] # 0 \/ u \in firing
    BY <1>2, <2>2 DEF Spoken
  <2>3. ASSUME NEW b \in Actors, Lists(b, u)
        PROVE  Spoken(u)'
    <3>1. post'[b].stage = post[b].stage /\ post'[b].task = post[b].task /\ post'[b].left = post[b].left
      BY <1>1, <2>3, ToldKeeps DEF Lists
    <3>2. CASE post[b].stage = "each"
      BY <2>3, <3>1, <3>2 DEF Lists, Spoken
    <3>3. CASE post[b].stage = "list" /\ <<u, post[b].task>> \in edges'
      <4>1. PICK d : d = post[b].task
        OBVIOUS
      <4>2. d \in Tasks
        BY <3>3, <4>1 DEF PostInv
      <4>3. u \in Dependents(d)'
        BY <3>3, <4>1, <4>2 DEF Dependents
      <4>4. d = post'[b].task
        BY <3>1, <4>1
      <4> QED
        BY <3>1, <3>3, <4>3, <4>4 DEF Lists, Spoken, Dependents
    <3>4. CASE post[b].stage = "list" /\ <<u, post[b].task>> \notin edges'
      <4>1. <<u, post[b].task>> \in edges
        BY <2>3, <3>4 DEF Lists, Dependents
      <4>2. Unlisted(u) /\ Quietly
        BY <3>4, <4>1 DEF Unlisted, Discloses
      <4> QED
        BY <1>3, <1>4, <1>5, <4>2
    <3> QED
      BY <2>3, <3>2, <3>3, <3>4 DEF Lists
  <2> QED
    BY <1>5, <2>1, <2>2, <2>3 DEF ReadyInv, Spoken
<1>6. ASSUME NEW u \in Tasks, ~Dequeuable(u), Dequeuable(u)', ~Quietly
      PROVE  Spoken(u)'
  <2>1. /\ edges \subseteq edges'
        /\ r.status = "ready" => prev # "ready" \/ touched \/ row[t].gate = r.gate
    BY <1>6 DEF Discloses
  <2>2. /\ row'[u].status = "ready" /\ Due(row[u])' /\ ~GateBlocks(row[u].gate)'
        /\ \A d \in Tasks : <<u, d>> \in edges' => row'[d].status = "done"
    BY <1>6 DEF Dequeuable, Ready, DependenciesMet, Preds
  <2>3. CASE u = t /\ (prev # "ready" \/ touched)
    BY <1>2, <1>3, <2>2, <2>3, CommitHolds
  <2>4. CASE ~(u = t /\ (prev # "ready" \/ touched))
    <3>1. row'[u].status = row[u].status /\ row'[u].pickup = row[u].pickup /\ row'[u].gate = row[u].gate
      BY <1>2, <2>1, <2>2, <2>4 DEF Commits
    <3>2. row[u].status = "ready" /\ Due(row[u]) /\ ~GateBlocks(row[u].gate)
      BY <1>2, <2>2, <3>1 DEF Due, GateBlocks
    <3>3. PICK d \in Tasks : <<u, d>> \in edges /\ row[d].status # "done"
      BY <1>6, <3>2 DEF Dequeuable, Ready, DependenciesMet, Preds
    <3>4. row'[d].status = "done" /\ <<u, d>> \in edges'
      BY <2>1, <2>2, <3>3
    <3>5. d = t /\ r.status = "done" /\ prev # "done"
      BY <1>2, <3>3, <3>4 DEF Commits
    <3>6. post'[a].stage = "list" /\ post'[a].task = d
      BY <1>1, <3>5 DEF Told
    <3> QED
      BY <3>4, <3>6 DEF Spoken, Lists, Dependents
  <2> QED
    BY <2>3, <2>4
<1> QED
  BY <1>3, <1>4, <1>5, <1>6 DEF ReadyInv

\* The three together.
TellInv == ReadyInv /\ TimedInv /\ LatestInv

LEMMA CommitTells ==
    ASSUME TypeOK, PostInv, TellInv, NEW a \in Actors, NEW t \in Tasks,
           NEW prev \in Statuses \cup {"absent", "gone"}, NEW r \in Rows, NEW touched \in BOOLEAN,
           Commits(a, t, prev, r, touched), Discloses(r, t, prev, touched)
    PROVE  TellInv'
  BY CommitReady, CommitTimed, CommitLatest DEF TellInv

-----------------------------------------------------------------------------
(* Nobody is forgotten: steps that have nothing to tell.                    *)

\* Posts, queue, timers and time are as they were; rows change where no decision looks,
\* or stop being ready, or what that lets run is recorded.
LEMMA QuietTells ==
    ASSUME TypeOK, PostInv, TellInv, UNCHANGED <<post, now, queue, wake, firing>>, missed \subseteq missed',
           \A u \in Tasks : row'[u].status = "ready" =>
             row[u].status = "ready" /\ row'[u].pickup = row[u].pickup,
           \A u \in Tasks : Handles(u) => Handles(u)' \/ row'[u].status # "ready",
           \/ Quietly
           \/ edges \subseteq edges' /\ \A u \in Tasks : /\ Dequeuable(u)' => Dequeuable(u)
    PROVE  TellInv'
<1>1. ASSUME NEW u \in Tasks, row'[u].status = "ready", Held(u)
      PROVE  Held(u)'
  <2>1. CASE u \in queue \cup missed
    BY <2>1 DEF Held
  <2>2. CASE Handles(u)
    BY <1>1, <2>2 DEF Held
  <2>3. ASSUME NEW b \in Actors, Fresh(b, u)
        PROVE  Held(u)'
    BY <2>3 DEF Held, Fresh
  <2> QED
    BY <1>1, <2>1, <2>2, <2>3 DEF Held
<1>2. TimedInv'
  <2>1. ASSUME NEW u \in Tasks, row'[u].status = "ready", ~(Due(row[u])')
        PROVE  Timed(u)'
    <3>1. row[u].status = "ready" /\ ~Due(row[u]) /\ row'[u].pickup = row[u].pickup
      BY <2>1 DEF Due
    <3>2. Timed(u)
      BY <3>1 DEF TellInv, TimedInv
    <3>3. CASE Held(u)
      BY <1>1, <2>1, <3>3 DEF Timed
    <3>4. CASE wake[u] >= row[u].pickup
      BY <3>1, <3>4 DEF Timed
    <3> QED
      BY <3>2, <3>3, <3>4 DEF Timed
  <2> QED
    BY <2>1 DEF TimedInv
<1>3. LatestInv'
  <2>1. ASSUME NEW b \in Actors, Stale(b)'
        PROVE  Righted(b)'
    <3>1. post[b].task \in Tasks
      BY <2>1 DEF Stale, PostInv
    <3>2. Stale(b)
      BY <2>1, <3>1 DEF Stale
    <3> QED
      BY <3>2 DEF TellInv, LatestInv, Righted, Fresh
  <2> QED
    BY <2>1 DEF LatestInv
<1>4. ReadyInv'
  <2>1. ASSUME NEW u \in Tasks, Dequeuable(u)'
        PROVE  Spoken(u)'
    <3>1. Quietly /\ (Dequeuable(u) => Unlisted(u)) => u \in missed'
      BY <2>1, QuietlyTypes DEF TypeOK
    <3>2. CASE u \in missed'
      BY <3>2 DEF Spoken, Held
    <3>3. CASE u \notin missed'
      <4>1. Dequeuable(u) /\ (edges \subseteq edges' \/ ~Unlisted(u))
        BY <2>1, <3>1, <3>3
      <4>2. row'[u].status = "ready"
        BY <2>1 DEF Dequeuable, Ready
      <4>3. CASE Held(u)
        BY <1>1, <4>2, <4>3 DEF Spoken
      <4>4. CASE wake[u] # 0 \/ u \in firing
        BY <4>4 DEF Spoken
      <4>5. ASSUME NEW b \in Actors, Lists(b, u)
            PROVE  Spoken(u)'
        <5>1. CASE post[b].stage = "each"
          BY <4>5, <5>1 DEF Lists, Spoken
        <5>2. CASE post[b].stage = "list"
          <6>1. <<u, post[b].task>> \in edges'
            BY <4>1, <4>5, <5>2 DEF Lists, Dependents, Unlisted
          <6> QED
            BY <5>2, <6>1 DEF Lists, Dependents, Spoken
        <5> QED
          BY <4>5, <5>1, <5>2 DEF Lists
      <4> QED
        BY <4>1, <4>3, <4>4, <4>5 DEF TellInv, ReadyInv, Spoken
    <3> QED
      BY <3>2, <3>3
  <2> QED
    BY <2>1 DEF ReadyInv
<1> QED
  BY <1>2, <1>3, <1>4 DEF TellInv

LEMMA RequestTells ==
    ASSUME TypeOK, PostInv, KnownInv, TellInv, NEW c \in Calls, Request(c)
    PROVE  TellInv'
<1> USE SlotIsAnActor, RowTypes, CallShape
<1>1. worker' = worker => \A u : Handles(u) => Handles(u)'
  BY DEF Handles
<1>2. ASSUME NEW t \in Tasks, CreateTask(c, t)
      PROVE  TellInv'
  <2>1. PICK status \in {"ready", "on_hold"}, pickup \in {0, now + 1}, gate \in {"none", "pending"} :
          LET r == [status |-> status, pickup |-> pickup, gate |-> gate] IN
          row' = [row EXCEPT ![t] = r] /\ Tell(c, t, "absent", r, FALSE)
    BY <1>2 DEF CreateTask
  <2> DEFINE r == [status |-> status, pickup |-> pickup, gate |-> gate]
  <2>2. r \in Rows
    BY DEF TypeOK, Rows, Statuses, Gates
  <2>3. /\ row' = [row EXCEPT ![t] = r] /\ Tell(c, t, "absent", r, FALSE)
    BY <2>1
  <2> HIDE DEF r
  <2>4. /\ UNCHANGED <<now, queue, wake, firing, worker, missed>> /\ edges \subseteq edges'
        /\ post[c].stage = "none"
    BY <1>2 DEF CreateTask, Free, tells, ghosts
  <2>5. Commits(c, t, "absent", r, FALSE)
    BY <1>1, <2>3, <2>4 DEF Commits
  <2>6. Discloses(r, t, "absent", FALSE)
    BY <2>4 DEF Discloses
  <2> QED
    BY <2>2, <2>5, <2>6, CommitTells
<1>3. ASSUME NEW t \in Tasks, PatchTask(c, t)
      PROVE  TellInv'
  <2>1. PICK p \in bound.patches :
          /\ row' = [row EXCEPT ![t] = Patched(row[t], p)]
          /\ Tell(c, t, row[t].status, Patched(row[t], p), p.field = "pickup")
          /\ UNCHANGED <<edges, now, tells, worker>>
          /\ IF p.field = "gate" THEN Quietly ELSE UNCHANGED missed
    BY <1>3 DEF PatchTask
  <2> DEFINE r == Patched(row[t], p)
             touched == p.field = "pickup"
  <2>2. /\ r \in Rows /\ touched \in BOOLEAN
        /\ p.field # "status" => r.status = row[t].status
        /\ p.field # "pickup" => r.pickup = row[t].pickup
        /\ p.field # "gate" => r.gate = row[t].gate
    BY <1>3, PatchedTypes DEF PatchTask
  <2>3. /\ UNCHANGED <<now, queue, wake, firing, worker, edges>> /\ post[c].stage = "none"
    BY <1>3, <2>1 DEF PatchTask, Free, tells
  <2>4. missed \subseteq missed'
    BY <2>1, QuietlyTypes DEF TypeOK
  <2>5. row' = [row EXCEPT ![t] = r] /\ Tell(c, t, row[t].status, r, touched)
    BY <2>1
  <2>6. ~touched => r.pickup = row[t].pickup
    BY <2>2
  <2>7. Discloses(r, t, row[t].status, touched)
    BY <2>1, <2>2, <2>3 DEF Discloses
  <2> HIDE DEF r, touched
  <2>8. Commits(c, t, row[t].status, r, touched)
    BY <1>1, <2>3, <2>4, <2>5, <2>6 DEF Commits
  <2> QED
    BY <2>2, <2>7, <2>8, CommitTells, SMTT(15), ZenonT(40)
<1>4. ASSUME NEW t \in Tasks, DeleteTask(c, t)
      PROVE  TellInv'
  <2>1. /\ row' = [row EXCEPT ![t] = Gone] /\ Tell(c, t, row[t].status, Gone, FALSE) /\ Quietly
        /\ UNCHANGED <<now, queue, wake, firing, worker>> /\ post[c].stage = "none"
    BY <1>4 DEF DeleteTask, Free, tells
  <2>2. missed \subseteq missed' /\ Gone.status = "gone"
    BY <2>1, QuietlyTypes DEF TypeOK, Gone, Absent
  <2>3. Commits(c, t, row[t].status, Gone, FALSE)
    BY <1>1, <2>1, <2>2 DEF Commits
  <2>4. Discloses(Gone, t, row[t].status, FALSE)
    BY <2>1 DEF Discloses
  <2> QED
    BY <2>3, <2>4, CommitTells
<1>5. ASSUME NEW t \in Tasks, RequestTaskRetry(c, t)
      PROVE  TellInv'
  <2> DEFINE r == [row[t] EXCEPT !.status = "ready"]
  <2>1. r \in Rows /\ "failed" \in Statuses
    BY DEF Rows, Statuses
  <2>2. /\ row' = [row EXCEPT ![t] = r] /\ Tell(c, t, "failed", r, FALSE)
        /\ UNCHANGED <<now, queue, wake, firing, worker, edges, missed>> /\ post[c].stage = "none"
    BY <1>5 DEF RequestTaskRetry, Free, tells, ghosts
  <2> HIDE DEF r
  <2>3. Commits(c, t, "failed", r, FALSE)
    BY <1>1, <2>2 DEF Commits
  <2>4. Discloses(r, t, "failed", FALSE)
    BY <2>2 DEF Discloses
  <2> QED
    BY <2>1, <2>3, <2>4, CommitTells
<1>6. CASE SetDependenciesReplace(c)
  <2> DEFINE t == call[c].task
  <2>1. /\ t \in Tasks /\ UNCHANGED <<row, now, queue, wake, firing, worker>> /\ post[c].stage = "none"
    BY <1>6 DEF SetDependenciesReplace, TypeOK, tells, PostInv
  <2>2. CASE Tell(c, t, row[t].status, row[t], FALSE) /\ Quietly
    <3>1. missed \subseteq missed' /\ row' = [row EXCEPT ![t] = row[t]]
      BY <2>1, <2>2, QuietlyTypes DEF TypeOK
    <3>2. Commits(c, t, row[t].status, row[t], FALSE)
      BY <1>1, <2>1, <2>2, <3>1 DEF Commits
    <3>3. Discloses(row[t], t, row[t].status, FALSE)
      BY <2>2 DEF Discloses
    <3> QED
      BY <2>1, <3>2, <3>3, CommitTells
  <2>3. CASE UNCHANGED <<edges, post, missed>>
    <3>1. \A u \in Tasks : Dequeuable(u)' => Dequeuable(u)
      BY <2>1, <2>3 DEF Dequeuable, Ready, Due, DependenciesMet, Preds, GateBlocks
    <3> QED
      BY <1>1, <2>1, <2>3, <3>1, QuietTells
  <2> QED
    BY <1>6, <2>2, <2>3 DEF SetDependenciesReplace
<1>7. CASE GateWrite(c)
  <2> DEFINE t == call[c].task
             r == [row[t] EXCEPT !.gate = call[c].to]
  <2>1. /\ t \in Tasks /\ Quietly /\ UNCHANGED <<post, now, queue, wake, firing, worker>>
        /\ row' = row \/ row' = [row EXCEPT ![t] = r]
    BY <1>7 DEF GateWrite, TypeOK, tells
  <2>2. r.status = row[t].status /\ r.pickup = row[t].pickup
    BY <2>1 DEF Rows
  <2>3. missed \subseteq missed'
    BY <2>1, QuietlyTypes DEF TypeOK
  <2> HIDE DEF r, t
  <2>4. \A u \in Tasks : row'[u].status = row[u].status /\ row'[u].pickup = row[u].pickup
    BY <2>1, <2>2 DEF TypeOK
  <2> QED
    BY <1>1, <2>1, <2>3, <2>4, QuietTells
<1>8. ASSUME NEW e \in edges, RemoveDependency(c, e)
      PROVE  TellInv'
  <2>1. Quietly /\ UNCHANGED <<row, post, now, queue, wake, firing, worker>>
    BY <1>8 DEF RemoveDependency, tells
  <2>2. missed \subseteq missed'
    BY <2>1, QuietlyTypes DEF TypeOK
  <2> QED
    BY <1>1, <2>1, <2>2, QuietTells
<1>9. ASSUME UNCHANGED <<row, post, now, queue, wake, firing, worker, missed>>, edges \subseteq edges'
      PROVE  TellInv'
  <2>1. \A u \in Tasks : Dequeuable(u)' => Dequeuable(u)
    BY <1>9 DEF Dequeuable, Ready, Due, DependenciesMet, Preds, GateBlocks
  <2> QED
    BY <1>1, <1>9, <2>1, QuietTells
<1>10. ASSUME \/ \E t \in Tasks : GateRead(c, t)
              \/ \E t \in Tasks, d \in Tasks : AddDependencyCheck(c, t, d)
              \/ \E t \in Tasks, on \in SUBSET Tasks : SetDependenciesCheck(c, t, on)
              \/ \E t \in Tasks, i \in Items : ItemLoad(c, t, i) \/ ItemUndo(c, t, i)
              \/ AddDependencyInsert(c) \/ ItemAdd(c) \/ ItemDelete(c)
       PROVE  UNCHANGED <<row, post, now, queue, wake, firing, worker, missed>> /\ edges \subseteq edges'
  BY <1>10 DEF GateRead, AddDependencyCheck, SetDependenciesCheck, ItemLoad, ItemUndo,
               AddDependencyInsert, ItemAdd, ItemDelete, rows, tells, ghosts
<1> QED
  BY <1>2, <1>3, <1>4, <1>5, <1>6, <1>7, <1>8, <1>9, <1>10 DEF Request

-----------------------------------------------------------------------------
(* Nobody is forgotten: what follows a commit.                              *)

LEMMA ListingTells ==
    ASSUME TypeOK, TellInv, UNCHANGED <<row, edges, now, wake, firing>>,
           \A u \in Tasks : Handles(u) => Handles(u)',
           queue \cup missed \subseteq queue' \cup missed',
           \A b \in Actors : post[b].stage = "decide" => post'[b] = post[b],
           \A b \in Actors : \A u \in Tasks :
             Dequeuable(u) /\ Lists(b, u) => Lists(b, u)' \/ u \in queue' \cup missed',
           \A b \in Actors : post'[b].stage # "none" /\ post'[b].prev # "criteria" =>
             /\ post[b].stage # "none" /\ post'[b].task = post[b].task /\ post'[b].prev = post[b].prev
             /\ post'[b].row = post[b].row /\ post'[b].overtaken = post[b].overtaken
    PROVE  TellInv'
<1>1. ASSUME NEW b \in Actors, NEW u, Fresh(b, u)
      PROVE  Fresh(b, u)' /\ post'[b] = post[b]
  BY <1>1 DEF Fresh
<1>2. ASSUME NEW u \in Tasks, Held(u)
      PROVE  Held(u)'
  <2>1. CASE u \in queue \cup missed
    BY <2>1 DEF Held
  <2>2. CASE Handles(u)
    BY <2>2 DEF Held
  <2>3. ASSUME NEW b \in Actors, Fresh(b, u)
        PROVE  Held(u)'
    BY <1>1, <2>3 DEF Held
  <2> QED
    BY <1>2, <2>1, <2>2, <2>3 DEF Held
<1>3. TimedInv'
  BY <1>2 DEF TellInv, TimedInv, Timed, Due
<1>4. LatestInv'
  <2>1. ASSUME NEW b \in Actors, Stale(b)'
        PROVE  Righted(b)'
    <3>1. Stale(b) /\ post'[b].task = post[b].task
      BY <2>1 DEF Stale
    <3>2. PICK d \in Actors : d # b /\ Fresh(d, post[b].task) /\ b \in post[d].over
      BY <3>1 DEF TellInv, LatestInv, Righted
    <3>3. post'[d] = post[d]
      BY <1>1, <3>2
    <3> QED
      BY <3>1, <3>2, <3>3 DEF Righted, Fresh
  <2> QED
    BY <2>1 DEF LatestInv
<1>5. ReadyInv'
  <2>1. ASSUME NEW u \in Tasks, Dequeuable(u)'
        PROVE  Spoken(u)'
    <3>1. Dequeuable(u)
      BY <2>1 DEF Dequeuable, Ready, Due, DependenciesMet, Preds, GateBlocks
    <3>2. CASE Held(u)
      BY <1>2, <3>2 DEF Spoken
    <3>3. CASE wake[u] # 0 \/ u \in firing
      BY <3>3 DEF Spoken
    <3>4. ASSUME NEW b \in Actors, Lists(b, u)
          PROVE  Spoken(u)'
      BY <3>1, <3>4 DEF Spoken, Held
    <3> QED
      BY <3>1, <3>2, <3>3, <3>4 DEF TellInv, ReadyInv, Spoken
  <2> QED
    BY <2>1 DEF ReadyInv
<1> QED
  BY <1>3, <1>4, <1>5 DEF TellInv

LEMMA ListTells ==
    ASSUME TypeOK, PostInv, TellInv, NEW a \in Actors,
           ListDependents(a) \/ NotifyDependent(a) \/ EachNotified(a)
    PROVE  TellInv'
<1>1. UNCHANGED <<row, edges, now, wake, firing, worker>>
  BY DEF ListDependents, NotifyDependent, EachNotified, rows, tells
<1>0. \A u \in Tasks : Handles(u) => Handles(u)'
  BY <1>1 DEF Handles
<1>2. /\ post[a] \in Posts /\ post[a].stage \in {"list", "each"}
      /\ \A b \in Actors : b # a => post'[b] = post[b]
  BY DEF ListDependents, NotifyDependent, EachNotified, TypeOK
<1>3. CASE ListDependents(a)
  <2>1. /\ UNCHANGED <<queue, missed>> /\ post[a].stage = "list"
        /\ post'[a] = [post[a] EXCEPT !.stage = "each", !.left = Dependents(post[a].task)]
    BY <1>3 DEF ListDependents, TypeOK, tells, ghosts
  <2>2. /\ post'[a].stage = "each" /\ post'[a].left = Dependents(post[a].task)
        /\ post'[a].task = post[a].task /\ post'[a].prev = post[a].prev
        /\ post'[a].row = post[a].row /\ post'[a].overtaken = post[a].overtaken
    BY <1>2, <2>1 DEF Posts
  <2>3. ASSUME NEW b \in Actors, NEW u \in Tasks, Lists(b, u)
        PROVE  Lists(b, u)'
    <3>1. CASE b = a
      BY <2>1, <2>2, <2>3, <3>1 DEF Lists
    <3>2. CASE b # a
      BY <1>1, <1>2, <2>3, <3>2 DEF Lists, Dependents
    <3> QED
      BY <3>1, <3>2
  <2> QED
    BY <1>0, <1>1, <1>2, <2>1, <2>2, <2>3, ListingTells
<1>4. CASE NotifyDependent(a)
  <2>1. PICK d \in post[a].left :
          /\ IF Dequeuable(d) THEN queue' = Offered(d) /\ missed' = MissedAfterOffer(d)
             ELSE UNCHANGED <<queue, missed>>
          /\ post' = [post EXCEPT ![a].left = @ \ {d}]
    BY <1>4 DEF NotifyDependent
  <2>2. d \in Tasks /\ post'[a] = [post[a] EXCEPT !.left = post[a].left \ {d}] /\ post[a].stage = "each"
    BY <1>2, <1>4, <2>1 DEF Posts, TypeOK, NotifyDependent
  <2>3. /\ post'[a].stage = "each" /\ post'[a].left = post[a].left \ {d}
        /\ post'[a].task = post[a].task /\ post'[a].prev = post[a].prev
        /\ post'[a].row = post[a].row /\ post'[a].overtaken = post[a].overtaken
    BY <1>2, <2>2 DEF Posts
  <2>4. /\ queue \cup missed \subseteq queue' \cup missed'
        /\ Dequeuable(d) => d \in queue' \cup missed'
    BY <2>1, <2>2, OfferedTypes DEF TypeOK
  <2>5. ASSUME NEW b \in Actors, NEW u \in Tasks, Dequeuable(u), Lists(b, u)
        PROVE  Lists(b, u)' \/ u \in queue' \cup missed'
    <3>1. CASE b = a
      BY <2>2, <2>3, <2>4, <2>5, <3>1 DEF Lists
    <3>2. CASE b # a
      BY <1>1, <1>2, <2>5, <3>2 DEF Lists, Dependents
    <3> QED
      BY <3>1, <3>2
  <2> QED
    BY <1>0, <1>1, <1>2, <2>2, <2>3, <2>4, <2>5, ListingTells
<1>5. CASE EachNotified(a)
  <2>1. /\ UNCHANGED <<queue, missed>> /\ post[a].stage = "each" /\ post[a].left = {}
        /\ post'[a] = NoPost \/ post'[a] = [post[a] EXCEPT !.stage = "decide"]
    BY <1>5 DEF EachNotified, TypeOK, tells, ghosts
  <2>2. \/ post'[a].stage = "none"
        \/ /\ post'[a].task = post[a].task /\ post'[a].prev = post[a].prev
           /\ post'[a].row = post[a].row /\ post'[a].overtaken = post[a].overtaken
    BY <1>2, <2>1 DEF Posts, NoPost
  <2>3. ASSUME NEW b \in Actors, NEW u \in Tasks, Lists(b, u)
        PROVE  Lists(b, u)'
    <3>1. b # a
      BY <2>1, <2>3 DEF Lists
    <3> QED
      BY <1>1, <1>2, <2>3, <3>1 DEF Lists, Dependents
  <2> QED
    BY <1>0, <1>1, <1>2, <2>1, <2>2, <2>3, ListingTells
<1> QED
  BY <1>3, <1>4, <1>5

LEMMA DecideTells ==
    ASSUME TypeOK, PostInv, TellInv, NEW a \in Actors, Decide(a)
    PROVE  TellInv'
<1> DEFINE p == post[a]
<1>0. PICK t : t = p.task
  OBVIOUS
<1> DEFINE ready    == p.row.status = "ready"
           schedule == ready /\ ~Due(p.row)
           notify   == ready /\ Due(p.row) /\ (p.prev # "ready" \/ p.touched)
<1>1. /\ p \in Posts /\ p.stage = "decide" /\ t \in Tasks /\ p.prev # "criteria"
  BY <1>0 DEF TypeOK, Decide, PostInv
<1>2. UNCHANGED <<row, edges, now, firing, worker>>
  BY DEF Decide, rows
<1>3. /\ wake' = [wake EXCEPT ![t] = IF schedule THEN p.row.pickup ELSE 0]
      /\ queue' = IF notify THEN Offered(t) ELSE queue
      /\ missed' = IF notify THEN MissedAfterOffer(t)
                   ELSE IF \/ p.overtaken /\ (schedule => p.row.pickup # row[t].pickup)
                           \/ ready /\ ~schedule /\ wake[t] # 0
                        THEN missed \cup {t} ELSE missed
  BY <1>0 DEF Decide
<1>4. \A b \in Actors : post'[b] = IF b = a THEN NoPost
                                   ELSE IF b \in p.over THEN [post[b] EXCEPT !.overtaken = TRUE] ELSE post[b]
  BY DEF Decide
<1> HIDE DEF ready, schedule, notify
<1>5. ASSUME NEW b \in Actors, b # a
      PROVE  /\ post'[b].stage = post[b].stage /\ post'[b].task = post[b].task /\ post'[b].prev = post[b].prev
             /\ post'[b].row = post[b].row /\ post'[b].touched = post[b].touched
             /\ post'[b].left = post[b].left /\ post'[b].over = post[b].over
             /\ post'[b].overtaken = (IF b \in p.over THEN TRUE ELSE post[b].overtaken)
  <2>1. post[b] \in Posts
    BY DEF TypeOK
  <2> QED
    BY <1>4, <1>5, <2>1 DEF Posts
<1>6. ASSUME NEW b \in Actors, b # a, NEW u
      PROVE  /\ Fresh(b, u) => Fresh(b, u)'
             /\ Lists(b, u) => Lists(b, u)'
  BY <1>2, <1>5, <1>6 DEF Fresh, Lists, Dependents
<1>7. /\ queue \cup missed \subseteq queue' \cup missed'
      /\ notify => t \in queue' \cup missed'
  <2>1. CASE notify
    BY <1>1, <1>3, <2>1, OfferedTypes DEF TypeOK
  <2>2. CASE ~notify
    BY <1>3, <2>2
  <2> QED
    BY <2>1, <2>2
<1>8. \A u : u \in queue' \cup missed' => Held(u)'
  BY DEF Held
\* Somebody else's decision holds as before; that of a is carried out.
<1>9. ASSUME NEW u, Held(u)
      PROVE  Held(u)' \/ (u = t /\ schedule)
  <2>1. CASE u \in queue \cup missed
    BY <1>7, <1>8, <2>1
  <2>2. CASE Handles(u)
    BY <1>2, <2>2 DEF Held, Handles
  <2>3. ASSUME NEW b \in Actors, Fresh(b, u)
        PROVE  Held(u)' \/ (u = t /\ schedule)
    <3>1. CASE b = a
      <4>1. u = t /\ ready /\ (p.prev # "ready" \/ p.touched)
        BY <1>0, <2>3, <3>1 DEF Fresh, ready
      <4>2. schedule \/ notify
        BY <4>1 DEF schedule, notify, ready
      <4> QED
        BY <1>7, <1>8, <4>1, <4>2
    <3>2. CASE b # a
      BY <1>6, <2>3, <3>2 DEF Held
    <3> QED
      BY <3>1, <3>2
  <2> QED
    BY <1>9, <2>1, <2>2, <2>3 DEF Held
\* A decision on a row that has been written again is late, or another is to come.
<1>10. ASSUME row[t].status = "ready", ~ready \/ p.row.pickup # row[t].pickup
       PROVE  Held(t)'
  <2>1. CASE p.overtaken
    <3>1. schedule => p.row.pickup # row[t].pickup
      BY <1>10 DEF schedule
    <3>2. t \in queue' \cup missed'
      BY <1>3, <1>7, <2>1, <3>1
    <3> QED
      BY <1>8, <3>2
  <2>2. CASE ~p.overtaken
    <3>1. Stale(a)
      BY <1>0, <1>1, <1>10, <2>2 DEF Stale, ready
    <3>2. PICK b \in Actors : b # a /\ Fresh(b, t) /\ a \in post[b].over
      BY <1>0, <3>1 DEF TellInv, LatestInv, Righted
    <3> QED
      BY <1>6, <3>2 DEF Held
  <2> QED
    BY <2>1, <2>2
<1>11. TimedInv'
  <2>1. ASSUME NEW u \in Tasks, row[u].status = "ready", ~Due(row[u])
        PROVE  Timed(u)'
    <3>1. Timed(u) /\ wake[u] \in Nat /\ row'[u] = row[u]
      BY <1>2, <2>1 DEF TellInv, TimedInv, TypeOK
    <3>2. CASE u # t
      <4>1. wake'[u] = wake[u]
        BY <1>3, <3>2 DEF TypeOK
      <4> QED
        BY <1>9, <3>1, <3>2, <4>1 DEF Timed
    <3>3. CASE u = t /\ (~ready \/ p.row.pickup # row[t].pickup)
      BY <1>10, <2>1, <3>3 DEF Timed
    <3>4. CASE u = t /\ ready /\ p.row.pickup = row[t].pickup
      <4>1. schedule /\ wake'[t] = p.row.pickup
        BY <1>1, <1>3, <2>1, <3>4 DEF schedule, Due, TypeOK
      <4>2. row[t].pickup \in Nat
        BY <1>1, RowTypes
      <4> QED
        BY <3>1, <3>4, <4>1, <4>2 DEF Timed
    <3> QED
      BY <3>2, <3>3, <3>4
  <2> QED
    BY <1>2, <2>1 DEF TimedInv, Due
<1>12. LatestInv'
  <2>1. ASSUME NEW b \in Actors, Stale(b)'
        PROVE  Righted(b)'
    <3>1. b # a
      <4>1. post'[a].stage = "none"
        <5>1. post'[a] = NoPost
          BY <1>4
        <5> QED
          BY <5>1 DEF NoPost
      <4> QED
        BY <2>1, <4>1 DEF Stale
    <3>2. b \notin p.over /\ Stale(b)
      BY <1>2, <1>5, <2>1, <3>1 DEF Stale
    <3>3. PICK d \in Actors : d # b /\ Fresh(d, post[b].task) /\ b \in post[d].over
      BY <3>2 DEF TellInv, LatestInv, Righted
    <3>4. d # a
      BY <3>2, <3>3
    <3>5. post'[d].over = post[d].over /\ post'[b].task = post[b].task
      BY <1>5, <3>1, <3>4
    <3>6. PICK u : u = post[b].task
      OBVIOUS
    <3>7. Fresh(d, u)' /\ u = post'[b].task
      BY <1>6, <3>3, <3>4, <3>5, <3>6
    <3> QED
      BY <3>3, <3>5, <3>7 DEF Righted, Fresh
  <2> QED
    BY <2>1 DEF LatestInv
<1>13. ReadyInv'
  <2>1. ASSUME NEW u \in Tasks, Dequeuable(u)
        PROVE  Spoken(u)'
    <3>1. row[u].status = "ready" /\ Spoken(u)
      BY <2>1 DEF Dequeuable, Ready, TellInv, ReadyInv
    <3>2. u = t /\ schedule => wake'[u] # 0
      BY <1>1, <1>3 DEF schedule, Due, TypeOK, Posts, Rows
    <3>3. CASE Held(u)
      BY <1>9, <3>2, <3>3 DEF Spoken
    <3>4. CASE wake[u] # 0
      <4>1. CASE u # t \/ schedule
        BY <1>3, <3>2, <3>4, <4>1 DEF Spoken, TypeOK
      <4>2. CASE u = t /\ ~ready
        BY <1>10, <3>1, <4>2 DEF Spoken
      <4>3. CASE u = t /\ ready /\ ~schedule
        <5>1. t \in queue' \cup missed'
          BY <1>3, <1>7, <3>4, <4>3
        <5> QED
          BY <1>8, <4>3, <5>1 DEF Spoken
      <4> QED
        BY <4>1, <4>2, <4>3
    <3>5. CASE u \in firing
      BY <1>2, <3>5 DEF Spoken
    <3>6. ASSUME NEW b \in Actors, Lists(b, u)
          PROVE  Spoken(u)'
      <4>1. b # a
        BY <1>1, <3>6 DEF Lists
      <4> QED
        BY <1>6, <3>6, <4>1 DEF Spoken
    <3> QED
      BY <3>1, <3>3, <3>4, <3>5, <3>6 DEF Spoken
  <2> QED
    BY <1>2, <2>1 DEF ReadyInv, Dequeuable, Ready, Due, DependenciesMet, Preds, GateBlocks
<1> QED
  BY <1>11, <1>12, <1>13 DEF TellInv

\* Rows, posts and time are as they were; who is held stays so, and a timer that is gone
\* has been minded.
LEMMA SteadyTells ==
    ASSUME TypeOK, TellInv, UNCHANGED <<row, edges, now, post>>,
           \A u \in Tasks : row[u].status = "ready" /\ Held(u) => Held(u)',
           \A u \in Tasks : row[u].status = "ready" /\ ~Due(row[u]) => wake'[u] = wake[u] \/ Held(u)',
           \A u \in Tasks : Dequeuable(u) /\ (wake[u] # 0 \/ u \in firing) => Spoken(u)'
    PROVE  TellInv'
<1>1. TimedInv'
  <2>1. ASSUME NEW u \in Tasks, row[u].status = "ready", ~Due(row[u])
        PROVE  Timed(u)'
    BY <2>1 DEF TellInv, TimedInv, Timed
  <2> QED
    BY <2>1 DEF TimedInv, Due
<1>2. LatestInv'
  BY DEF TellInv, LatestInv, Stale, Righted, Fresh
<1>3. ReadyInv'
  <2>1. ASSUME NEW u \in Tasks, Dequeuable(u)
        PROVE  Spoken(u)'
    <3>1. row[u].status = "ready" /\ Spoken(u)
      BY <2>1 DEF TellInv, ReadyInv, Dequeuable, Ready
    <3>2. CASE Held(u)
      BY <3>1, <3>2 DEF Spoken
    <3>3. CASE wake[u] # 0 \/ u \in firing
      BY <2>1, <3>3
    <3>4. ASSUME NEW b \in Actors, Lists(b, u)
          PROVE  Spoken(u)'
      BY <3>4 DEF Spoken, Lists, Dependents
    <3> QED
      BY <3>1, <3>2, <3>3, <3>4 DEF Spoken
  <2> QED
    BY <2>1 DEF ReadyInv, Dequeuable, Ready, Due, DependenciesMet, Preds, GateBlocks
<1> QED
  BY <1>1, <1>2, <1>3 DEF TellInv

-----------------------------------------------------------------------------
(* Nobody is forgotten: the slot.                                           *)

\* Nothing but the slot, and what it takes from the queue, has changed.
LEMMA SlotRests ==
    ASSUME TypeOK, TellInv, UNCHANGED <<row, edges, now, post, wake, firing, missed>>,
           \A u \in Tasks : row[u].status = "ready" /\ Handles(u) => Handles(u)',
           \A u \in queue : u \in queue' \/ Handles(u)'
    PROVE  TellInv'
<1>1. ASSUME NEW u \in Tasks, row[u].status = "ready", Held(u)
      PROVE  Held(u)'
  <2>1. CASE u \in queue \cup missed
    BY <2>1 DEF Held
  <2>2. CASE Handles(u)
    BY <1>1, <2>2 DEF Held
  <2>3. ASSUME NEW b \in Actors, Fresh(b, u)
        PROVE  Held(u)'
    BY <2>3 DEF Held, Fresh
  <2> QED
    BY <1>1, <2>1, <2>2, <2>3 DEF Held
<1>2. \A u \in Tasks : wake[u] # 0 \/ u \in firing => Spoken(u)'
  BY DEF Spoken
<1> QED
  BY <1>1, <1>2, SteadyTells

LEMMA AdmissionTells ==
    ASSUME TypeOK, PostInv, TellInv,
           (\E t \in Tasks : Receive(t)) \/ Reload \/ Check \/ Defer \/ Pickup
    PROVE  TellInv'
<1> USE SlotIsAnActor, RowTypes, WorkerShape
<1> DEFINE t == worker.task
<1>0. worker \in WorkerStates /\ \A u \in Tasks : Handles(u) => u = t
  BY DEF TypeOK, Handles
<1>1. ASSUME NEW u \in Tasks, Receive(u)
      PROVE  TellInv'
  <2>1. /\ UNCHANGED <<row, edges, now, post, wake, firing, missed>> /\ worker = Idle
        /\ queue' = queue \ {u} /\ worker' = [pc |-> "reload", task |-> u]
    BY <1>1 DEF Receive, rows, ghosts
  <2>2. Handles(u)' /\ \A v : ~Handles(v)
    BY <2>1 DEF Handles, Idle
  <2>3. \A v \in queue : v \in queue' \/ Handles(v)'
    BY <2>1, <2>2 DEF Handles
  <2> QED
    BY <2>1, <2>2, <2>3, SlotRests
<1>2. CASE Reload
  <2>1. UNCHANGED <<row, edges, now, post, wake, firing, missed, queue>> /\ worker.pc = "reload"
    BY <1>2 DEF Reload, rows, tells, ghosts
  <2>2. row[t].status = "ready" => worker' = [pc |-> "check", task |-> t, row |-> row[t]]
    BY <1>2 DEF Reload
  <2>3. \A u \in Tasks : row[u].status = "ready" /\ Handles(u) => Handles(u)'
    BY <2>2 DEF Handles
  <2> QED
    BY <2>1, <2>3, SlotRests
<1>3. CASE Check
  <2>1. UNCHANGED <<row, edges, now, post, wake, firing, missed, queue>> /\ worker.pc = "check"
    BY <1>3 DEF Check, rows, tells, ghosts
  <2>2. PICK pc \in {"pickup", "defer"} : worker' = [pc |-> pc, task |-> t]
    BY <1>3 DEF Check
  <2>3. \A u \in Tasks : Handles(u) => Handles(u)'
    BY <2>2 DEF Handles
  <2> QED
    BY <2>1, <2>3, SlotRests
<1>4. CASE Defer
  <2> DEFINE r == [row[t] EXCEPT !.pickup = now + 1]
  <2>1. /\ UNCHANGED <<edges, now, wake, firing, missed, queue>> /\ worker.pc = "defer"
        /\ post[Slot].stage = "none" /\ t \in Tasks
    BY <1>0, <1>4 DEF Defer, tells, ghosts, PostInv
  <2>2. CASE Exists(t)
    <3>1. row' = [row EXCEPT ![t] = r] /\ Tell(Slot, t, r.status, r, TRUE)
      BY <1>4, <2>2 DEF Defer
    <3>2. r \in Rows /\ r.status = row[t].status /\ r.status \in Statuses
      <4>1. row[t] \in Rows /\ row[t].status \in Statuses /\ now \in Nat
        BY <2>1, <2>2 DEF TypeOK
      <4> QED
        BY <4>1 DEF Rows
    <3> HIDE DEF r
    <3>3. Commits(Slot, t, r.status, r, TRUE)
      <4>1. r.status = "done" /\ row[t].status # "done" => r.status # "done"
        BY <3>2
      <4>2. missed \subseteq missed' /\ UNCHANGED <<now, queue, wake, firing>>
        BY <2>1
      <4>3. \A u : Handles(u) => Handles(u)' \/ (u = t /\ (r.status = "ready" => r.status # "ready" \/ TRUE))
        BY <1>0 DEF Handles
      <4> QED
        BY <2>1, <3>1, <4>1, <4>2, <4>3 DEF Commits
    <3>4. Discloses(r, t, r.status, TRUE)
      BY <2>1 DEF Discloses
    <3> QED
      BY <2>1, <3>2, <3>3, <3>4, CommitTells
  <2>3. CASE ~Exists(t)
    <3>1. UNCHANGED <<row, post>>
      BY <1>4, <2>3 DEF Defer
    <3>2. \A u \in Tasks : row[u].status = "ready" => ~Handles(u)
      BY <1>0, <2>3 DEF Exists
    <3> QED
      BY <2>1, <3>1, <3>2, SlotRests
  <2> QED
    BY <2>2, <2>3
<1>5. CASE Pickup
  <2>1. /\ UNCHANGED <<edges, now, post, wake, firing, missed, queue>> /\ worker.pc = "pickup" /\ t \in Tasks
    BY <1>0, <1>5 DEF Pickup, tells, ghosts
  <2>2. CASE row[t].status = "ready"
    <3>1. PICK v : v = t
      OBVIOUS
    <3>2. row' = [row EXCEPT ![v] = [row[v] EXCEPT !.status = "running"]]
      BY <1>5, <2>2, <3>1 DEF Pickup
    <3>3. row'[v].status = "running" /\ \A u \in Tasks : u # v => row'[u] = row[u]
      BY <2>1, <3>1, <3>2 DEF TypeOK, Rows
    <3>4. \A u \in Tasks : Dequeuable(u)' => Dequeuable(u)
      <4>1. ASSUME NEW u \in Tasks, Dequeuable(u)'
            PROVE  Dequeuable(u)
        <5>1. u # v /\ row'[u] = row[u]
          BY <3>3, <4>1 DEF Dequeuable, Ready
        <5>2. \A d \in Tasks : row'[d].status = "done" => row[d].status = "done"
          BY <3>3
        <5> QED
          BY <2>1, <4>1, <5>1, <5>2 DEF Dequeuable, Ready, Due, DependenciesMet, Preds, GateBlocks
      <4> QED
        BY <4>1
    <3>5. \A u \in Tasks : Handles(u) => row'[u].status # "ready"
      BY <1>0, <3>1, <3>3
    <3> QED
      BY <2>1, <3>3, <3>4, <3>5, QuietTells
  <2>3. CASE row[t].status # "ready"
    <3>1. UNCHANGED row
      BY <1>5, <2>3 DEF Pickup
    <3>2. \A u \in Tasks : row[u].status = "ready" => ~Handles(u)
      BY <1>0, <2>3
    <3> QED
      BY <2>1, <3>1, <3>2, SlotRests
  <2> QED
    BY <2>2, <2>3
<1> QED
  BY <1>1, <1>2, <1>3, <1>4, <1>5

LEMMA RunTells ==
    ASSUME TypeOK, PostInv, TellInv, List \/ Verdict \/ Mark \/ Marked \/ Close \/ Settle
    PROVE  TellInv'
<1> USE SlotIsAnActor, RowTypes, WorkerShape
<1> DEFINE t == worker.task
<1>0. worker \in WorkerStates
  BY DEF TypeOK
<1>1. \A u : ~Handles(u)
  BY DEF Handles, List, Verdict, Mark, Marked, Close, Settle
<1>2. CASE List \/ Verdict \/ Marked \/ Close
  <2>1. UNCHANGED <<row, edges, now, post, wake, firing, missed, queue>>
    BY <1>2 DEF List, Verdict, Marked, Close, rows, tells, ghosts
  <2> QED
    BY <1>1, <2>1, SlotRests
<1>3. CASE Mark
  <2>1. /\ UNCHANGED <<row, edges, now, wake, firing, missed, queue>> /\ post[Slot].stage = "none"
        /\ \/ post' = post
           \/ post' = [post EXCEPT ![Slot] = [NoPost EXCEPT !.stage = "list", !.task = t, !.prev = "criteria"]]
    BY <1>3 DEF Mark, tells, ghosts
  <2>2. \A b \in Actors : post'[b] = post[b] \/ (b = Slot /\ post'[b].prev = "criteria")
    <3>1. CASE post' = post
      BY <3>1
    <3>2. CASE post' = [post EXCEPT ![Slot] = [NoPost EXCEPT !.stage = "list", !.task = t, !.prev = "criteria"]]
      <4>1. post'[Slot] = [NoPost EXCEPT !.stage = "list", !.task = t, !.prev = "criteria"]
        BY <3>2 DEF TypeOK
      <4>2. post'[Slot].prev = "criteria"
        BY <4>1 DEF NoPost
      <4> QED
        BY <3>2, <4>2 DEF TypeOK
    <3> QED
      BY <2>1, <3>1, <3>2
  <2>3. \A b \in Actors : \A u \in Tasks : Lists(b, u) => Lists(b, u)'
    BY <2>1, <2>2 DEF Lists, Dependents
  <2>4. \A b \in Actors : post[b].stage = "decide" => post'[b] = post[b]
    BY <2>1, <2>2
  <2>5. \A b \in Actors : post'[b].stage # "none" /\ post'[b].prev # "criteria" => post'[b] = post[b]
    BY <2>2
  <2> QED
    BY <1>1, <2>1, <2>3, <2>4, <2>5, ListingTells
<1>4. CASE Settle
  <2> DEFINE r == [row[t] EXCEPT !.status = worker.to]
  <2>1. /\ UNCHANGED <<edges, now, wake, firing, missed, queue>> /\ worker.pc = "settle"
        /\ post[Slot].stage = "none" /\ t \in Tasks /\ worker.to \in {"done", "failed"}
    BY <1>0, <1>4 DEF Settle, tells, ghosts, PostInv
  <2>2. CASE Exists(t) /\ MayBecome(t, worker.to)
    <3>1. row' = [row EXCEPT ![t] = r] /\ Tell(Slot, t, row[t].status, r, FALSE)
      BY <1>4, <2>2 DEF Settle
    <3>2. r \in Rows /\ r.status \in {"done", "failed"}
      <4>1. row[t] \in Rows
        BY <2>1
      <4> QED
        BY <2>1, <4>1 DEF Rows, Statuses
    <3> HIDE DEF r
    <3>3. Commits(Slot, t, row[t].status, r, FALSE)
      BY <1>1, <2>1, <3>1, <3>2 DEF Commits
    <3>4. Discloses(r, t, row[t].status, FALSE)
      BY <2>1, <3>2 DEF Discloses
    <3> QED
      BY <2>1, <3>2, <3>3, <3>4, CommitTells
  <2>3. CASE ~(Exists(t) /\ MayBecome(t, worker.to))
    <3>1. UNCHANGED <<row, post>>
      BY <1>4, <2>3 DEF Settle
    <3> QED
      BY <1>1, <2>1, <3>1, SlotRests
  <2> QED
    BY <2>2, <2>3
<1> QED
  BY <1>2, <1>3, <1>4

-----------------------------------------------------------------------------
(* Nobody is forgotten: timers, the loop, time and restarts.                *)

\* An offer leaves its task in the queue, or records that it is full.
LEMMA OfferTells ==
    ASSUME TypeOK, TellInv, NEW t \in Tasks, UNCHANGED <<row, edges, now, post, wake, worker>>,
           firing \subseteq firing' \cup {t},
           \/ queue' = Offered(t) /\ missed' = MissedAfterOffer(t)
           \/ UNCHANGED <<queue, missed>> /\ (t \in firing' \/ t \notin firing \/ ~Dequeuable(t))
    PROVE  TellInv'
<1>1. /\ queue \cup missed \subseteq queue' \cup missed'
      /\ Dequeuable(t) /\ t \in firing => t \in queue' \cup missed' \cup firing'
  <2>1. CASE queue' = Offered(t) /\ missed' = MissedAfterOffer(t)
    BY <2>1, OfferedTypes DEF TypeOK
  <2>2. CASE UNCHANGED <<queue, missed>> /\ (t \in firing' \/ t \notin firing \/ ~Dequeuable(t))
    BY <2>2
  <2> QED
    BY <2>1, <2>2
<1>2. ASSUME NEW u \in Tasks, Held(u)
      PROVE  Held(u)'
  BY <1>1, <1>2 DEF Held, Handles, Fresh
<1>3. ASSUME NEW u \in Tasks, Dequeuable(u), wake[u] # 0 \/ u \in firing
      PROVE  Spoken(u)'
  BY <1>1, <1>3 DEF Spoken, Held
<1> QED
  BY <1>2, <1>3, SteadyTells

LEMMA BackgroundTells ==
    ASSUME TypeOK, PostInv, TellInv, Background
    PROVE  TellInv'
<1>1. CASE Tick
  <2>1. UNCHANGED <<row, edges, post, queue, wake, firing, missed, worker>> /\ now' = now + 1
    BY <1>1 DEF Tick, rows, tells, ghosts
  <2>2. \A u \in Tasks : Held(u) => Held(u)'
    BY <2>1 DEF Held, Handles, Fresh
  <2>3. ASSUME NEW u \in Tasks
        PROVE  /\ Due(row[u]) => Due(row[u])'
               /\ row'[u] = row[u] /\ row[u].pickup \in Nat /\ now \in Nat /\ wake[u] \in Nat
    BY <2>1, RowTypes DEF Due, TypeOK
  <2>4. TimedInv'
    BY <2>1, <2>2, <2>3 DEF TellInv, TimedInv, Timed
  <2>5. LatestInv'
    BY <2>1 DEF TellInv, LatestInv, Stale, Righted, Fresh
  <2>6. ASSUME NEW u \in Tasks, Dequeuable(u)'
        PROVE  Spoken(u)'
    <3>1. CASE Due(row[u])
      <4>1. Dequeuable(u)
        BY <2>1, <2>6, <3>1 DEF Dequeuable, Ready, DependenciesMet, Preds, GateBlocks
      <4> QED
        BY <2>1, <2>2, <4>1 DEF TellInv, ReadyInv, Spoken, Lists, Dependents
    <3>2. CASE ~Due(row[u])
      <4>1. Timed(u)
        BY <2>3, <2>6, <3>2 DEF TellInv, TimedInv, Dequeuable, Ready
      <4>2. CASE Held(u)
        BY <2>2, <4>2 DEF Spoken
      <4>3. CASE wake[u] >= row[u].pickup
        <5>1. wake[u] # 0
          BY <2>3, <3>2, <4>3 DEF Due
        <5> QED
          BY <2>1, <5>1 DEF Spoken
      <4> QED
        BY <4>1, <4>2, <4>3 DEF Timed
    <3> QED
      BY <3>1, <3>2
  <2> QED
    BY <2>4, <2>5, <2>6 DEF TellInv, ReadyInv
<1>2. ASSUME NEW t \in Tasks, Fire(t)
      PROVE  TellInv'
  <2>1. /\ UNCHANGED <<row, edges, now, post, queue, missed, worker>> /\ wake[t] <= now
        /\ wake' = [wake EXCEPT ![t] = 0] /\ firing' = firing \cup {t}
    BY <1>2 DEF Fire, rows, ghosts
  <2>2. \A u \in Tasks : Held(u) => Held(u)'
    BY <2>1 DEF Held, Handles, Fresh
  <2>3. \A u \in Tasks : u # t => wake'[u] = wake[u]
    BY <2>1 DEF TypeOK
  <2>4. row[t].status = "ready" /\ ~Due(row[t]) => Held(t)
    <3>1. row[t].pickup \in Nat /\ now \in Nat /\ wake[t] \in Nat
      BY RowTypes DEF TypeOK
    <3> QED
      BY <2>1, <3>1 DEF TellInv, TimedInv, Timed, Due
  <2>5. \A u \in Tasks : wake[u] # 0 \/ u \in firing => Spoken(u)'
    BY <2>1, <2>3 DEF Spoken
  <2> QED
    BY <2>1, <2>2, <2>3, <2>4, <2>5, SteadyTells
<1>3. ASSUME NEW t \in Tasks, TryNotify(t)
      PROVE  TellInv'
  <2>1. UNCHANGED <<row, edges, now, post, wake, worker>> /\ firing' = firing \ {t}
    BY <1>3 DEF TryNotify, rows
  <2>2. \/ queue' = Offered(t) /\ missed' = MissedAfterOffer(t)
        \/ UNCHANGED <<queue, missed>> /\ ~Dequeuable(t)
    BY <1>3 DEF TryNotify, Dequeuable, Ready
  <2> QED
    BY <2>1, <2>2, OfferTells
<1>4. ASSUME NEW t \in Tasks, OfferListed(t)
      PROVE  TellInv'
  <2>1. /\ UNCHANGED <<row, edges, now, post, wake, worker, firing>>
        /\ \/ queue' = Offered(t) /\ missed' = MissedAfterOffer(t)
           \/ UNCHANGED <<queue, missed>>
    BY <1>4 DEF OfferListed, rows
  <2> QED
    BY <2>1, OfferTells
<1>5. CASE ListPass
  <2>1. UNCHANGED <<row, edges, now, post, wake, firing, missed, queue, worker>>
    BY <1>5 DEF ListPass, rows, ghosts
  <2>2. \A u : Handles(u) => Handles(u)'
    BY <2>1 DEF Handles
  <2> QED
    BY <2>1, <2>2, SlotRests
<1>6. CASE Restart
  <2>1. /\ UNCHANGED <<row, edges, now>> /\ wake' = Hydrated /\ missed' = {u \in Tasks : Dequeuable(u)}
        /\ post' = [b \in Actors |-> NoPost]
    BY <1>6 DEF Restart, rows
  <2>2. \A b \in Actors : post'[b].stage = "none"
    BY <2>1 DEF NoPost
  <2>3. LatestInv'
    BY <2>2 DEF LatestInv, Stale
  <2>4. TimedInv'
    <3>1. ASSUME NEW u \in Tasks, row[u].status = "ready", ~Due(row[u])
          PROVE  Timed(u)'
      <4>1. wake'[u] = row[u].pickup /\ row[u].pickup \in Nat
        BY <2>1, <3>1, RowTypes DEF Hydrated
      <4> QED
        BY <2>1, <4>1 DEF Timed
    <3> QED
      BY <2>1, <3>1 DEF TimedInv, Due
  <2>5. ReadyInv'
    <3>1. \A u \in Tasks : Dequeuable(u)' => Dequeuable(u)
      BY <2>1 DEF Dequeuable, Ready, Due, DependenciesMet, Preds, GateBlocks
    <3> QED
      BY <2>1, <3>1 DEF ReadyInv, Spoken, Held
  <2> QED
    BY <2>3, <2>4, <2>5 DEF TellInv
<1> QED
  BY <1>1, <1>2, <1>3, <1>4, <1>5, <1>6 DEF Background

LEMMA NextTells ==
    ASSUME TypeOK, PostInv, KnownInv, TellInv, [Next]_vars
    PROVE  TellInv'
<1>1. CASE UNCHANGED vars
  <2>1. UNCHANGED <<row, edges, now, post, wake, firing, missed, queue, worker>>
    BY <1>1 DEF vars, rows, tells, ghosts
  <2>2. \A u : Handles(u) => Handles(u)'
    BY <2>1 DEF Handles
  <2> QED
    BY <2>1, <2>2, SlotRests
<1>2. ASSUME NEW a \in Actors, AfterCommit(a)
      PROVE  TellInv'
  BY <1>2, ListTells, DecideTells DEF AfterCommit
<1>3. CASE SlotStep
  BY <1>3, AdmissionTells, RunTells DEF SlotStep
<1> QED
  BY <1>1, <1>2, <1>3, RequestTells, BackgroundTells DEF Next

-----------------------------------------------------------------------------
(* Dependencies: what the walk along depends_on reaches. The walk is a       *)
(* recursive function and its number of steps the number of tasks; that it   *)
(* is complete is an induction, made here with the least number that would   *)
(* contradict it.                                                            *)

LEMMA LeastNatural ==
    ASSUME NEW T \in SUBSET Nat, T # {}
    PROVE  \E x \in T : \A y \in T : x <= y
<1> DEFINE Less == {ss \in Nat \X Nat : ss[1] < ss[2]}
<1>1. IsWellFoundedOn(Less, Nat)
  BY NatLessThanWellFounded DEF OpToRel
<1>2. ASSUME NEW x \in Nat, NEW y \in Nat, y < x
      PROVE  <<y, x>> \in Less
  BY <1>2
<1> HIDE DEF Less
<1>3. PICK x \in T : \A y \in T : <<y, x>> \notin Less
  BY <1>1, WFMin
<1>4. ASSUME NEW y \in T
      PROVE  x <= y
  <2>1. y \in Nat /\ x \in Nat /\ ~(y < x)
    BY <1>2, <1>3
  <2> QED
    BY <2>1
<1> QED
  BY <1>4

N == Cardinality(Tasks)

LEMMA NNat == N \in Nat
  BY TasksAssumption, FS_CardinalityType DEF N

Step(S) == S \cup UNION {Preds(x) : x \in S}
Walks(g, d, n) == g = [i \in 0..n |-> IF i = 0 THEN {d} ELSE Step(g[i - 1])]
Walk(d) == CHOOSE g : Walks(g, d, N)

LEMMA WalkReaches ==
    ASSUME NEW d, NEW t
    PROVE  Reaches(d, t) <=> t \in Walk(d)[N]
  BY DEF Reaches, Walk, Walks, Step, N

LEMMA WalkExists ==
    ASSUME NEW d, NEW m \in Nat
    PROVE  \E g : Walks(g, d, m)
<1> DEFINE Bad == {n \in Nat : ~ \E g : Walks(g, d, n)}
<1>1. SUFFICES ASSUME Bad # {} PROVE FALSE
  OBVIOUS
<1>2. PICK n \in Bad : \A k \in Bad : n <= k
  <2>1. Bad \in SUBSET Nat
    OBVIOUS
  <2> HIDE DEF Bad
  <2> QED
    BY <1>1, <2>1, LeastNatural
<1>3. n # 0
  <2>1. Walks([i \in 0..0 |-> {d}], d, 0)
    BY DEF Walks
  <2> QED
    BY <2>1
<1>4. PICK g : Walks(g, d, n - 1)
  BY <1>2, <1>3
<1> DEFINE h == [i \in 0..n |-> IF i = n THEN Step(g[n - 1]) ELSE g[i]]
<1>5. Walks(h, d, n)
  <2>1. \A i \in 0..(n - 1) : g[i] = IF i = 0 THEN {d} ELSE Step(g[i - 1])
    BY <1>2, <1>4 DEF Walks
  <2>2. ASSUME NEW i \in 0..n
        PROVE  h[i] = IF i = 0 THEN {d} ELSE Step(h[i - 1])
    <3>1. CASE i = n
      BY <1>2, <1>3, <3>1
    <3>2. CASE i # n
      <4>1. i \in 0..(n - 1) /\ h[i] = g[i]
        BY <1>2, <3>2
      <4>2. i # 0 => i - 1 \in 0..n /\ i - 1 # n /\ h[i - 1] = g[i - 1]
        BY <1>2, <3>2
      <4> HIDE DEF h
      <4> QED
        BY <2>1, <4>1, <4>2
    <3> QED
      BY <3>1, <3>2
  <2> HIDE DEF Bad
  <2> QED
    BY <2>2 DEF Walks
<1> QED
  BY <1>5

Closed(S, es) == \A x \in S, y \in Tasks : <<x, y>> \in es => y \in S

LEMMA StepHas ==
    ASSUME edges \subseteq Tasks \X Tasks, NEW S \in SUBSET Tasks
    PROVE  /\ Step(S) \in SUBSET Tasks /\ S \subseteq Step(S)
           /\ \A x \in S, y \in Tasks : <<x, y>> \in edges => y \in Step(S)
           /\ \A y \in Step(S) : y \in S \/ \E x \in S : <<x, y>> \in edges
           /\ Closed(S, edges) => Step(S) = S
<1>1. \A y : y \in Step(S) <=> y \in S \/ \E x \in S : y \in Preds(x)
  BY DEF Step
<1>2. \A x, y : y \in Preds(x) <=> y \in Tasks /\ <<x, y>> \in edges
  BY DEF Preds
<1>3. \A y \in Step(S) : y \in Tasks /\ (y \in S \/ \E x \in S : <<x, y>> \in edges)
  BY <1>1, <1>2
<1>4. S \subseteq Step(S) /\ \A x \in S, y \in Tasks : <<x, y>> \in edges => y \in Step(S)
  BY <1>1, <1>2
<1>5. Closed(S, edges) => Step(S) = S
  BY <1>3, <1>4 DEF Closed
<1> QED
  BY <1>3, <1>4, <1>5

LEMMA WalkIs ==
    ASSUME NEW d
    PROVE  /\ Walk(d)[0] = {d}
           /\ \A n \in 1..N : Walk(d)[n] = Step(Walk(d)[n - 1])
<1>1. Walks(Walk(d), d, N)
  BY WalkExists, NNat DEF Walk
<1>2. \A n \in 0..N : Walk(d)[n] = IF n = 0 THEN {d} ELSE Step(Walk(d)[n - 1])
  BY <1>1 DEF Walks
<1>3. 0 \in 0..N /\ \A n \in 1..N : n \in 0..N /\ n # 0
  BY NNat
<1> QED
  BY <1>2, <1>3

Apart(es, D, t) == \E S \in SUBSET Tasks : D \subseteq S /\ t \notin S /\ Closed(S, es)

\* The walk stays in a closed set.
LEMMA WalkStays ==
    ASSUME edges \subseteq Tasks \X Tasks, NEW S \in SUBSET Tasks, Closed(S, edges), NEW d \in S
    PROVE  \A n \in 0..N : Walk(d)[n] \subseteq S
<1> DEFINE Out == {n \in Nat : n <= N /\ ~(Walk(d)[n] \subseteq S)}
<1>1. SUFFICES ASSUME Out # {} PROVE FALSE
  BY NNat
<1>2. PICK n \in Out : \A k \in Out : n <= k
  <2>1. Out \in SUBSET Nat
    OBVIOUS
  <2> HIDE DEF Out
  <2> QED
    BY <1>1, <2>1, LeastNatural
<1>3. n # 0
  BY WalkIs
<1>4. n - 1 \notin Out /\ n \in 1..N
  BY <1>2, <1>3, NNat
<1>5. Walk(d)[n - 1] \in SUBSET S
  BY <1>4, NNat
<1>6. Walk(d)[n] = Step(Walk(d)[n - 1])
  BY <1>4, WalkIs
<1>7. Step(Walk(d)[n - 1]) \subseteq S
  <2>1. PICK A \in SUBSET S : A = Walk(d)[n - 1]
    BY <1>5
  <2>2. /\ Step(A) \in SUBSET Tasks
        /\ \A y \in Step(A) : y \in A \/ \E x \in A : <<x, y>> \in edges
    BY StepHas
  <2> QED
    BY <2>1, <2>2 DEF Closed
<1> QED
  BY <1>2, <1>6, <1>7

LEMMA ApartUnreached ==
    ASSUME edges \subseteq Tasks \X Tasks, NEW d \in Tasks, NEW t, Apart(edges, {d}, t)
    PROVE  ~Reaches(d, t)
<1>1. PICK S \in SUBSET Tasks : d \in S /\ t \notin S /\ Closed(S, edges)
  BY DEF Apart
<1>2. Walk(d)[N] \subseteq S
  BY <1>1, WalkStays, NNat
<1> QED
  BY <1>1, <1>2, WalkReaches

LEMMA TasksClosed == edges \subseteq Tasks \X Tasks => Closed(Tasks, edges)
  BY DEF Closed

\* From a closed set the walk goes nowhere.
LEMMA WalkRests ==
    ASSUME edges \subseteq Tasks \X Tasks, NEW d \in Tasks, NEW m \in 0..N, Closed(Walk(d)[m], edges)
    PROVE  Walk(d)[N] = Walk(d)[m]
<1> DEFINE On == {n \in Nat : m <= n /\ n <= N /\ Walk(d)[n] # Walk(d)[m]}
<1>1. SUFFICES ASSUME On # {} PROVE FALSE
  BY NNat
<1>2. PICK n \in On : \A k \in On : n <= k
  <2>1. On \in SUBSET Nat
    OBVIOUS
  <2> HIDE DEF On
  <2> QED
    BY <1>1, <2>1, LeastNatural
<1>3. n # m
  OBVIOUS
<1>4. n - 1 \notin On /\ n \in 1..N /\ m <= n - 1
  BY <1>2, <1>3, NNat
<1>5. Walk(d)[n - 1] = Walk(d)[m]
  BY <1>4, NNat
<1>6. Walk(d)[n] = Step(Walk(d)[m])
  BY <1>4, <1>5, WalkIs
<1>7. Walk(d)[m] \in SUBSET Tasks
  BY WalkStays, TasksClosed
<1>8. Step(Walk(d)[m]) = Walk(d)[m]
  BY <1>7, StepHas
<1> QED
  BY <1>2, <1>6, <1>8

\* The walk ends in a closed set, since each step before adds a task.
LEMMA WalkClosed ==
    ASSUME edges \subseteq Tasks \X Tasks, NEW d \in Tasks
    PROVE  Walk(d)[N] \in SUBSET Tasks /\ d \in Walk(d)[N] /\ Closed(Walk(d)[N], edges)
<1>0. \A n \in 0..N : Walk(d)[n] \in SUBSET Tasks
  BY WalkStays, TasksClosed
<1>1. \A n \in 0..N : IsFiniteSet(Walk(d)[n]) /\ Cardinality(Walk(d)[n]) \in Nat /\ Cardinality(Walk(d)[n]) <= N
  BY <1>0, TasksAssumption, FS_Subset, FS_CardinalityType DEF N
<1>2. ASSUME ~Closed(Walk(d)[N], edges)
      PROVE  FALSE
  <2>1. \A n \in 0..N : ~Closed(Walk(d)[n], edges)
    BY <1>2, WalkRests
  <2> DEFINE Few == {n \in Nat : n <= N /\ Cardinality(Walk(d)[n]) < n + 1}
  <2>2. N \in Few
    BY <1>1, NNat
  <2>3. PICK n \in Few : \A k \in Few : n <= k
    <3>1. Few \in SUBSET Nat /\ Few # {}
      BY <2>2
    <3> HIDE DEF Few
    <3> QED
      BY <3>1, LeastNatural
  <2>4. n # 0
    <3>1. Cardinality(Walk(d)[0]) = 1
      BY WalkIs, FS_Singleton
    <3> QED
      BY <2>3, <3>1
  <2>5. n - 1 \notin Few /\ n \in 1..N /\ n - 1 \in 0..N /\ n \in 0..N
    BY <2>3, <2>4, NNat
  <2>6. Cardinality(Walk(d)[n - 1]) >= n
    BY <1>1, <2>5
  <2>7. Walk(d)[n] = Step(Walk(d)[n - 1])
    BY <2>5, WalkIs
  <2>8. Walk(d)[n - 1] \subseteq Walk(d)[n] /\ Walk(d)[n - 1] # Walk(d)[n]
    BY <1>0, <2>1, <2>5, <2>7, StepHas DEF Closed
  <2>9. Cardinality(Walk(d)[n - 1]) < Cardinality(Walk(d)[n])
    <3>1. /\ Cardinality(Walk(d)[n - 1]) <= Cardinality(Walk(d)[n])
          /\ Cardinality(Walk(d)[n]) # Cardinality(Walk(d)[n - 1])
      BY <1>1, <2>5, <2>8, FS_Subset
    <3> QED
      BY <1>1, <2>5, <3>1
  <2> QED
    BY <1>1, <2>3, <2>5, <2>6, <2>9
<1>3. d \in Walk(d)[N]
  <2> DEFINE Lost == {n \in Nat : n <= N /\ d \notin Walk(d)[n]}
  <2>1. SUFFICES ASSUME Lost # {} PROVE FALSE
    BY NNat
  <2>2. PICK n \in Lost : \A k \in Lost : n <= k
    <3>1. Lost \in SUBSET Nat
      OBVIOUS
    <3> HIDE DEF Lost
    <3> QED
      BY <2>1, <3>1, LeastNatural
  <2>3. n # 0
    BY WalkIs
  <2>4. n - 1 \notin Lost /\ n \in 1..N /\ n - 1 \in 0..N
    BY <2>2, <2>3, NNat
  <2> QED
    BY <1>0, <2>2, <2>4, WalkIs, StepHas
<1> QED
  BY <1>0, <1>2, <1>3, NNat

LEMMA UnreachedApart ==
    ASSUME edges \subseteq Tasks \X Tasks, NEW d \in Tasks, NEW t, ~Reaches(d, t)
    PROVE  Apart(edges, {d}, t)
<1>1. t \notin Walk(d)[N]
  BY WalkReaches
<1> QED
  BY <1>1, WalkClosed DEF Apart

\* One edit of t, on a check that still holds, closes no cycle.
LEMMA ApartExtends ==
    ASSUME NEW es, NEW fs, NEW t, NEW D, Apart(es, D, t),
           \A x, y \in Tasks : <<x, y>> \in fs => <<x, y>> \in es \/ (x = t /\ y \in D),
           \A x, y \in Tasks : <<x, y>> \in es => Apart(es, {y}, x)
    PROVE  \A x, y \in Tasks : <<x, y>> \in fs => Apart(fs, {y}, x)
<1>1. PICK U \in SUBSET Tasks : D \subseteq U /\ t \notin U /\ Closed(U, es)
  BY DEF Apart
<1>2. ASSUME NEW x \in Tasks, NEW y \in Tasks, <<x, y>> \in fs
      PROVE  Apart(fs, {y}, x)
  <2>1. CASE x = t /\ y \in D
    <3>1. Closed(U, fs)
      BY <1>1 DEF Closed
    <3> QED
      BY <1>1, <2>1, <3>1 DEF Apart
  <2>2. CASE <<x, y>> \in es
    <3>1. PICK S \in SUBSET Tasks : y \in S /\ x \notin S /\ Closed(S, es)
      BY <2>2 DEF Apart
    <3>2. CASE x \in U
      <4>1. Closed(S \cap U, fs)
        BY <1>1, <3>1 DEF Closed
      <4>2. y \in U
        BY <1>1, <2>2, <3>2 DEF Closed
      <4> QED
        BY <3>1, <4>1, <4>2 DEF Apart
    <3>3. CASE x \notin U
      <4>1. Closed(S \cup U, fs)
        BY <1>1, <3>1 DEF Closed
      <4> QED
        BY <3>1, <3>3, <4>1 DEF Apart
    <3> QED
      BY <3>2, <3>3
  <2> QED
    BY <1>2, <2>1, <2>2
<1> QED
  BY <1>2

\* What depends on nothing around it is in no cycle.
LEMMA GroundedApart ==
    ASSUME NEW es, \A S \in SUBSET Tasks : S # {} => \E t \in S : \A d \in S : <<t, d>> \notin es
    PROVE  \A x, y \in Tasks : <<x, y>> \in es => Apart(es, {y}, x)
<1>1. SUFFICES ASSUME NEW x \in Tasks, NEW y \in Tasks, <<x, y>> \in es, ~Apart(es, {y}, x)
               PROVE  FALSE
  OBVIOUS
<1> DEFINE U == UNION {S \in SUBSET Tasks : x \notin S /\ Closed(S, es)}
           R == {z \in Tasks : \A S \in SUBSET Tasks : y \in S /\ Closed(S, es) => z \in S}
<1>2. U \in SUBSET Tasks /\ x \notin U /\ Closed(U, es)
  BY DEF Closed
<1>3. y \notin U
  BY <1>1, <1>2 DEF Apart
<1>4. R \in SUBSET Tasks /\ y \in R /\ Closed(R, es)
  BY DEF Closed
<1>5. x \in R
  BY <1>1 DEF Apart
<1>6. \A S \in SUBSET Tasks : x \notin S /\ Closed(S, es) => S \subseteq U
  OBVIOUS
<1> HIDE DEF U, R
<1>7. PICK z \in R \ U : \A d \in R \ U : <<z, d>> \notin es
  BY <1>2, <1>4, <1>5
<1>8. z # x
  BY <1>1, <1>3, <1>4, <1>7
<1>9. Closed(U \cup {z}, es)
  BY <1>2, <1>4, <1>7 DEF Closed
<1> QED
  BY <1>2, <1>4, <1>6, <1>7, <1>8, <1>9

LEMMA ApartLess ==
    ASSUME NEW es, NEW fs, fs \subseteq es, NEW D, NEW t, Apart(es, D, t)
    PROVE  Apart(fs, D, t)
  BY DEF Apart, Closed

LEMMA ApartUnion ==
    ASSUME NEW es, NEW D \in SUBSET Tasks, NEW t, \A d \in D : Apart(es, {d}, t)
    PROVE  Apart(es, D, t)
<1> DEFINE U == UNION {S \in SUBSET Tasks : t \notin S /\ Closed(S, es)}
<1>1. U \in SUBSET Tasks /\ t \notin U /\ Closed(U, es)
  BY DEF Closed
<1>2. \A S \in SUBSET Tasks : t \notin S /\ Closed(S, es) => S \subseteq U
  OBVIOUS
<1> HIDE DEF U
<1>3. D \subseteq U
  BY <1>2 DEF Apart
<1> QED
  BY <1>1, <1>3 DEF Apart

-----------------------------------------------------------------------------
(* Dependencies: no cycle without two edits at once.                         *)

Acyclic(es) == \A x, y \in Tasks : <<x, y>> \in es => Apart(es, {y}, x)
Rewiring(state) == state.pc \in {"insert", "replace"}

\* Edges are between rows that have been created; what a check found out holds of the
\* edges it read; and as long as no check was out of date there is no cycle.
DepInv ==
  /\ \A x, y \in Tasks : <<x, y>> \in edges => Known(x) /\ Known(y)
  /\ \A c \in Calls : Rewiring(call[c]) =>
       /\ Known(call[c].task)
       /\ Apart(call[c].read, call[c].on, call[c].task)
  /\ ~raced => Acyclic(edges)

LEMMA InitDep == Init => DepInv
<1> SUFFICES ASSUME Init PROVE DepInv
  OBVIOUS
<1>1. PICK w \in Worlds : row = w.row /\ edges = w.edges
  BY DEF Init
<1>2. \A x, y \in Tasks : <<x, y>> \in edges => Known(x) /\ Known(y)
  BY <1>1, EdgesAssumption DEF Known
<1>3. Acyclic(edges)
  BY <1>1, EdgesAssumption, GroundedApart DEF Acyclic
<1>4. \A c \in Calls : ~Rewiring(call[c])
  BY DEF Init, Idle, Rewiring
<1> QED
  BY <1>2, <1>3, <1>4 DEF DepInv

\* Edges at most go, and a call that rewires has been there, or has just checked.
LEMMA DepKept ==
    ASSUME TypeOK, DepInv, \A u \in Tasks : Known(u) => Known(u)', edges' \subseteq edges, raced' = raced,
           \A c \in Calls : Rewiring(call'[c]) =>
             \/ call'[c] = call[c]
             \/ /\ call'[c].task \in Tasks /\ Known(call'[c].task)
                /\ Apart(call'[c].read, call'[c].on, call'[c].task)
    PROVE  DepInv'
<1>1. \A x, y \in Tasks : <<x, y>> \in edges' => Known(x)' /\ Known(y)'
  BY DEF DepInv
<1>2. ASSUME NEW c \in Calls, Rewiring(call'[c])
      PROVE  /\ Known(call[c].task)'
             /\ Apart(call'[c].read, call'[c].on, call'[c].task)
  <2>1. PICK u : u = call'[c].task
    OBVIOUS
  <2>2. u \in Tasks /\ Known(u) /\ Apart(call'[c].read, call'[c].on, u)
    BY <1>2, <2>1, CallShape DEF DepInv, Rewiring, TypeOK
  <2>3. Known(u)'
    BY <2>2
  <2> QED
    BY <2>1, <2>2, <2>3 DEF Known
<1>3. ~raced' => Acyclic(edges)'
  BY ApartLess DEF DepInv, Acyclic
<1> QED
  BY <1>1, <1>2, <1>3 DEF DepInv, Rewiring, Apart, Closed

\* Edges of t to D come, on a check that still holds.
LEMMA DepExtends ==
    ASSUME TypeOK, DepInv, \A u \in Tasks : Known(u) => Known(u)',
           NEW t \in Tasks, NEW D \in SUBSET Tasks, edges' \subseteq edges \cup ({t} \X D),
           Known(t)', \A d \in D : Known(d)',
           ~raced' => ~raced /\ Apart(edges, D, t),
           \A c \in Calls : Rewiring(call'[c]) => call'[c] = call[c]
    PROVE  DepInv'
<1>0. \A x, y \in Tasks : <<x, y>> \in edges' => <<x, y>> \in edges \/ (x = t /\ y \in D)
  OBVIOUS
<1>1. \A x, y \in Tasks : <<x, y>> \in edges' => Known(x)' /\ Known(y)'
  BY <1>0 DEF DepInv
<1>2. ASSUME NEW c \in Calls, Rewiring(call'[c])
      PROVE  /\ Known(call[c].task)'
             /\ Apart(call'[c].read, call'[c].on, call'[c].task)
  <2>1. PICK u : u = call'[c].task
    OBVIOUS
  <2>2. u \in Tasks /\ Known(u) /\ Apart(call'[c].read, call'[c].on, u)
    BY <1>2, <2>1, CallShape DEF DepInv, Rewiring, TypeOK
  <2>3. Known(u)'
    BY <2>2
  <2> QED
    BY <2>1, <2>2, <2>3 DEF Known
<1>3. ~raced' => Acyclic(edges')
  BY <1>0, ApartExtends, SMTT(15), ZenonT(40) DEF DepInv, Acyclic
<1> QED
  BY <1>1, <1>2, <1>3 DEF DepInv, Rewiring, Apart, Closed, Acyclic

LEMMA BeginKept ==
    ASSUME TypeOK, DepInv, [Next]_vars, NEW c \in Calls, NEW state, Begin(c, state),
           edges' \subseteq edges, raced' = raced,
           Rewiring(state) => state.task \in Tasks /\ Known(state.task) /\ Apart(state.read, state.on, state.task)
    PROVE  DepInv'
<1>1. \A u \in Tasks : Known(u) => Known(u)'
  BY StaysKnown
<1>2. call' = [call EXCEPT ![c] = state] /\ call \in [Calls -> CallStates]
  BY DEF Begin, TypeOK
<1>3. ASSUME NEW b \in Calls, Rewiring(call'[b])
      PROVE  \/ call'[b] = call[b]
             \/ /\ call'[b].task \in Tasks /\ Known(call'[b].task)
                /\ Apart(call'[b].read, call'[b].on, call'[b].task)
  <2>1. CASE b = c
    <3>1. call'[b] = state
      BY <1>2, <2>1
    <3> QED
      BY <1>3, <3>1
  <2>2. CASE b # c
    BY <1>2, <2>2
  <2> QED
    BY <2>1, <2>2
<1> QED
  BY <1>1, <1>3, DepKept

\* Calls that begin or end without rewiring.
LEMMA CallRests ==
    ASSUME TypeOK, NEW c \in Calls, End(c) \/ Begin(c, Idle)
    PROVE  \A b \in Calls : Rewiring(call'[b]) => call'[b] = call[b]
  BY DEF End, Begin, Idle, Rewiring, TypeOK

LEMMA CreateDep ==
    ASSUME TypeOK, DepInv, [Next]_vars, NEW c \in Calls, NEW t \in Tasks, CreateTask(c, t)
    PROVE  DepInv'
<1>1. \A u \in Tasks : Known(u) => Known(u)'
  BY StaysKnown
<1>2. raced' = raced /\ \A b \in Calls : Rewiring(call'[b]) => call'[b] = call[b]
  BY CallRests DEF CreateTask, ghosts
<1>3. CASE edges' = edges
  BY <1>1, <1>2, <1>3, DepKept
<1>4. ASSUME NEW d \in Tasks, Exists(d), edges' = edges \cup {<<t, d>>}
      PROVE  DepInv'
  <2>1. ~Known(t) /\ Known(d) /\ t # d
    BY <1>4 DEF CreateTask, Absent, Exists, Known
  <2>2. Known(t)'
    <3>1. PICK status \in {"ready", "on_hold"}, pickup \in {0, now + 1}, gate \in {"none", "pending"} :
            row' = [row EXCEPT ![t] = [status |-> status, pickup |-> pickup, gate |-> gate]]
      BY DEF CreateTask
    <3> QED
      BY <3>1 DEF Known, TypeOK
  <2>3. Apart(edges, {d}, t)
    <3>1. Closed(Tasks \ {t}, edges)
      BY <2>1 DEF Closed, DepInv, TypeOK
    <3> QED
      BY <2>1, <3>1 DEF Apart
  <2>4. edges' \subseteq edges \cup ({t} \X {d})
    BY <1>4
  <2>5. \A x \in {d} : Known(x)'
    BY <1>1, <2>1
  <2>6. {d} \in SUBSET Tasks
    OBVIOUS
  <2> QED
    BY <1>1, <1>2, <2>2, <2>3, <2>4, <2>5, <2>6, DepExtends
<1> QED
  BY <1>3, <1>4 DEF CreateTask

LEMMA CheckDep ==
    ASSUME TypeOK, DepInv, [Next]_vars, NEW c \in Calls, NEW t \in Tasks,
           \/ \E d \in Tasks : AddDependencyCheck(c, t, d)
           \/ \E on \in SUBSET Tasks : SetDependenciesCheck(c, t, on)
    PROVE  DepInv'
<1>1. edges \subseteq Tasks \X Tasks
  BY DEF TypeOK
<1>2. ASSUME NEW d \in Tasks, AddDependencyCheck(c, t, d)
      PROVE  DepInv'
  <2> DEFINE state == [pc |-> "insert", task |-> t, on |-> {d}, read |-> edges]
  <2>1. Known(t) /\ Apart(edges, {d}, t)
    BY <1>1, <1>2, UnreachedApart DEF AddDependencyCheck, Exists, Known
  <2>2. Begin(c, state) /\ edges' \subseteq edges /\ raced' = raced
    BY <1>2 DEF AddDependencyCheck, rows, ghosts
  <2>3. state.task = t /\ state.read = edges /\ state.on = {d}
    OBVIOUS
  <2> HIDE DEF state
  <2> QED
    BY <2>1, <2>2, <2>3, BeginKept
<1>3. ASSUME NEW on \in SUBSET Tasks, SetDependenciesCheck(c, t, on)
      PROVE  DepInv'
  <2> DEFINE state == [pc |-> "replace", task |-> t, on |-> on, read |-> edges]
  <2>1. \A d \in on : Apart(edges, {d}, t)
    BY <1>1, <1>3, UnreachedApart DEF SetDependenciesCheck
  <2>2. Known(t) /\ Apart(edges, on, t)
    BY <1>3, <2>1, ApartUnion DEF SetDependenciesCheck, Exists, Known
  <2>3. Begin(c, state) /\ edges' \subseteq edges /\ raced' = raced
    BY <1>3 DEF SetDependenciesCheck, rows, ghosts
  <2>4. state.task = t /\ state.read = edges /\ state.on = on
    OBVIOUS
  <2> HIDE DEF state
  <2> QED
    BY <2>2, <2>3, <2>4, BeginKept
<1> QED
  BY <1>2, <1>3

LEMMA WriteDep ==
    ASSUME TypeOK, DepInv, [Next]_vars, NEW c \in Calls,
           AddDependencyInsert(c) \/ SetDependenciesReplace(c)
    PROVE  DepInv'
<1>1. \A u \in Tasks : Known(u) => Known(u)'
  BY StaysKnown
<1>2. \A b \in Calls : Rewiring(call'[b]) => call'[b] = call[b]
  BY CallRests DEF AddDependencyInsert, SetDependenciesReplace
<1>3. PICK t, on, read : t = call[c].task /\ on = call[c].on /\ read = call[c].read
  OBVIOUS
<1>4. call[c].pc \in {"insert", "replace"}
  BY DEF AddDependencyInsert, SetDependenciesReplace
<1>5. t \in Tasks /\ on \in SUBSET Tasks /\ Known(t) /\ Apart(read, on, t)
  BY <1>3, <1>4, CallShape DEF TypeOK, DepInv, Rewiring
<1>6. CASE edges' = edges /\ raced' = raced
  BY <1>1, <1>2, <1>6, DepKept
<1>7. CASE /\ edges' \subseteq edges \cup ({t} \X on)
           /\ raced' = (raced \/ ~(edges \subseteq read))
           /\ \A d \in on : Exists(d)
  <2>1. \A d \in on : Known(d)'
    BY <1>1, <1>5, <1>7 DEF Exists, Known
  <2>2. ~raced' => ~raced /\ Apart(edges, on, t)
    BY <1>5, <1>7, ApartLess
  <2>3. Known(t)'
    BY <1>1, <1>5
  <2> QED
    BY <1>1, <1>2, <1>5, <1>7, <2>1, <2>2, <2>3, DepExtends
<1>8. CASE AddDependencyInsert(c)
  BY <1>3, <1>6, <1>7, <1>8 DEF AddDependencyInsert
<1>9. CASE SetDependenciesReplace(c)
  BY <1>3, <1>6, <1>7, <1>9 DEF SetDependenciesReplace
<1> QED
  BY <1>8, <1>9

LEMMA RequestDep ==
    ASSUME TypeOK, DepInv, [Next]_vars, NEW c \in Calls, Request(c)
    PROVE  DepInv'
<1>1. \A u \in Tasks : Known(u) => Known(u)'
  BY StaysKnown
<1>2. ASSUME edges' \subseteq edges, raced' = raced, End(c) \/ Begin(c, Idle)
      PROVE  DepInv'
  <2>1. \A b \in Calls : Rewiring(call'[b]) => call'[b] = call[b]
    BY <1>2, CallRests
  <2> QED
    BY <1>1, <1>2, <2>1, DepKept
<1>3. ASSUME NEW state, Begin(c, state), state.pc \notin {"insert", "replace"}, edges' = edges, raced' = raced
      PROVE  DepInv'
  BY <1>3, BeginKept DEF Rewiring
<1>4. ASSUME NEW t \in Tasks, PatchTask(c, t)
      PROVE  DepInv'
  BY <1>2, <1>4 DEF PatchTask
<1>5. ASSUME NEW t \in Tasks, DeleteTask(c, t)
      PROVE  DepInv'
  BY <1>2, <1>5 DEF DeleteTask
<1>6. ASSUME NEW t \in Tasks, RequestTaskRetry(c, t)
      PROVE  DepInv'
  BY <1>2, <1>6 DEF RequestTaskRetry, ghosts
<1>7. ASSUME NEW t \in Tasks, GateRead(c, t)
      PROVE  DepInv'
  <2>1. PICK gate \in GateOutcomes(row[t].gate) : Begin(c, [pc |-> "gate", task |-> t, to |-> gate])
    BY <1>7 DEF GateRead
  <2> QED
    BY <1>3, <1>7, <2>1 DEF GateRead, rows, ghosts
<1>8. ASSUME NEW t \in Tasks, NEW i \in Items, ItemLoad(c, t, i)
      PROVE  DepInv'
  <2> DEFINE state == [pc |-> IF i \in crit[t] THEN "delete" ELSE "add", task |-> t, item |-> i,
                       found |-> row[t].status]
  <2>1. Begin(c, state) /\ edges' = edges /\ raced' = raced
    BY <1>8 DEF ItemLoad, rows, ghosts
  <2>2. state.pc \notin {"insert", "replace"}
    OBVIOUS
  <2> HIDE DEF state
  <2> QED
    BY <1>3, <2>1, <2>2
<1>9. ASSUME NEW t \in Tasks, NEW i \in Items, ItemUndo(c, t, i)
      PROVE  DepInv'
  BY <1>2, <1>9 DEF ItemUndo
<1>10. CASE GateWrite(c)
  BY <1>2, <1>10 DEF GateWrite
<1>11. ASSUME NEW e \in edges, RemoveDependency(c, e)
       PROVE  DepInv'
  BY <1>2, <1>11 DEF RemoveDependency
<1>12. CASE ItemAdd(c)
  BY <1>2, <1>12 DEF ItemAdd
<1>13. CASE ItemDelete(c)
  BY <1>2, <1>13 DEF ItemDelete, ghosts
<1> QED
  BY <1>4, <1>5, <1>6, <1>7, <1>8, <1>9, <1>10, <1>11, <1>12, <1>13, CreateDep, CheckDep, WriteDep
  DEF Request

LEMMA NextDep ==
    ASSUME TypeOK, DepInv, [Next]_vars
    PROVE  DepInv'
<1>1. \A u \in Tasks : Known(u) => Known(u)'
  BY StaysKnown
<1>2. ASSUME UNCHANGED <<edges, raced, call>>
      PROVE  DepInv'
  BY <1>1, <1>2, DepKept
<1>3. ASSUME NEW a \in Actors, AfterCommit(a)
      PROVE  DepInv'
  BY <1>2, <1>3 DEF AfterCommit, ListDependents, NotifyDependent, EachNotified, Decide, rows, ghosts
<1>4. CASE SlotStep
  <2>1. CASE \E t \in Tasks : Receive(t)
    BY <1>2, <2>1 DEF Receive, rows, ghosts
  <2>2. CASE Reload \/ Check \/ Defer \/ Pickup
    BY <1>2, <2>2 DEF Reload, Check, Defer, Pickup, rows, ghosts
  <2>3. CASE List \/ Verdict \/ Marked \/ Close \/ Settle
    BY <1>2, <2>3 DEF List, Verdict, Marked, Close, Settle, rows, ghosts
  <2>4. CASE Mark
    BY <1>2, <2>4 DEF Mark, rows, ghosts
  <2> QED
    BY <1>4, <2>1, <2>2, <2>3, <2>4 DEF SlotStep
<1>5. CASE Restart
  <2>1. edges' \subseteq edges /\ raced' = raced /\ \A c \in Calls : ~Rewiring(call'[c])
    BY <1>5 DEF Restart, rows, Idle, Rewiring
  <2> QED
    BY <1>1, <2>1, DepKept
<1>6. CASE Background
  BY <1>2, <1>5, <1>6 DEF Background, Tick, Fire, TryNotify, OfferListed, ListPass, rows, ghosts
<1>7. CASE UNCHANGED vars
  BY <1>2, <1>7 DEF vars, rows, ghosts
<1> QED
  BY <1>3, <1>4, <1>6, <1>7, RequestDep DEF Next

-----------------------------------------------------------------------------
(* The invariant holds.                                                     *)

LEMMA InitIInv == Init => IInv
<1> SUFFICES ASSUME Init PROVE IInv
  OBVIOUS
<1>1. TypeOK
  BY InitTypes
<1>2. /\ post = [a \in Actors |-> NoPost] /\ call = [c \in Calls |-> Idle] /\ worker = Idle
      /\ queue = {} /\ pass = NoPass /\ wake = Hydrated /\ missed = {u \in Tasks : Dequeuable(u)}
  BY DEF Init
<1>3. \A a \in Actors : post[a].stage = "none" /\ post[a].task = NoTask /\ post[a].left = {}
  BY <1>2 DEF NoPost
<1>4. worker.pc = "idle" /\ \A c \in Calls : call[c].pc = "idle"
  BY <1>2 DEF Idle
<1>5. PostInv
  BY <1>3, <1>4, SlotIsAnActor DEF PostInv
<1>6. KnownInv
  BY <1>2, <1>3, <1>4 DEF KnownInv, NoPass
<1>7. CritInv /\ AdmitInv
  BY <1>4 DEF CritInv, AdmitInv
<1>8. ReadyInv
  BY <1>2 DEF ReadyInv, Spoken, Held
<1>9. TimedInv
  <2>1. ASSUME NEW u \in Tasks, row[u].status = "ready", ~Due(row[u])
        PROVE  Timed(u)
    <3>1. wake[u] = row[u].pickup /\ row[u].pickup \in Nat
      BY <1>1, <1>2, <2>1, RowTypes DEF Hydrated
    <3> QED
      BY <3>1 DEF Timed
  <2> QED
    BY <2>1 DEF TimedInv
<1>10. LatestInv
  BY <1>3 DEF LatestInv, Stale
<1> QED
  BY <1>1, <1>5, <1>6, <1>7, <1>8, <1>9, <1>10 DEF IInv

LEMMA StoreInductive == Spec => []IInv
<1>1. Init => IInv
  BY InitIInv
<1>2. IInv /\ [Next]_vars => IInv'
  BY NextTypes, NextPosts, NextKnown, NextCrit, NextAdmit, NextTells DEF IInv, TellInv
<1> QED
  BY <1>1, <1>2, PTL DEF Spec

LEMMA DependenciesInductive == Spec => []DepInv
<1>1. Init => DepInv
  BY InitDep
<1>2. TypeOK /\ DepInv /\ [Next]_vars => DepInv'
  BY NextDep
<1>3. IInv => TypeOK
  BY DEF IInv
<1> QED
  BY <1>1, <1>2, <1>3, StoreInductive, PTL DEF Spec

-----------------------------------------------------------------------------
(* Theorems.                                                                *)

\* Rows, requests, what is to be told, timers and the slot keep their shapes; the store
\* and pkgs/tasks/domain let no other status, gate or time in.
THEOREM StoreTypeCorrect == Spec => []TypeOK
<1>1. IInv => TypeOK
  BY DEF IInv
<1> QED
  BY <1>1, StoreInductive, PTL

\* facade_tasks.go, DecideNotifyAfterReadyTransition, notifyUnblockedDependents: however
\* commits, decisions, dependency edits, timers and the loop interleave, a task that may
\* run and that nobody is handling is in the queue, has a timer, or was missed for one of
\* the reasons the model names.
THEOREM NobodyIsLeftBehind == Spec => []NobodyIsForgotten
<1>1. IInv => NobodyIsForgotten
  <2>1. ASSUME IInv, NEW u \in Tasks, Dequeuable(u), AtRest(u)
        PROVE  u \in queue \/ wake[u] # 0 \/ u \in missed
    <3>1. Spoken(u)
      BY <2>1 DEF IInv, ReadyInv
    <3>2. \A a \in Actors : ~Fresh(a, u) /\ ~Lists(a, u)
      BY <2>1 DEF AtRest, Fresh, Lists
    <3>3. ~Handles(u) /\ u \notin firing
      BY <2>1 DEF AtRest, Handles
    <3> QED
      BY <3>1, <3>2, <3>3 DEF Spoken, Held
  <2> QED
    BY <2>1 DEF NobodyIsForgotten
<1> QED
  BY <1>1, StoreInductive, PTL

\* checklist.Add, Delete, SetDone and SetDoneWithEvidence, and the check of the store before
\* done: what keeps a verified run from becoming done came, or came undone, behind its back.
THEOREM OnlyLateCriteriaStop == Spec => []OnlyLateCriteriaRefuse
<1>1. IInv => OnlyLateCriteriaRefuse
  BY DEF IInv, CritInv, OnlyLateCriteriaRefuse
<1> QED
  BY <1>1, StoreInductive, PTL

\* Admission: at the step that starts a run each of the four predicates has been seen to
\* hold since the id left the queue.
THEOREM StartsWereAdmissible == Spec => StartWasAdmissible
<1>1. IInv => (worker.pc = "pickup" /\ worker' # Idle
                 => seen = {"status", "pickup", "gate", "dependencies"})
  BY DEF IInv, AdmitInv, Predicates
<1>2. IInv /\ [Next]_vars
        => [worker.pc = "pickup" /\ worker' # Idle
              => seen = {"status", "pickup", "gate", "dependencies"}]_vars
  BY <1>1
<1> QED
  BY <1>2, StoreInductive, PTL DEF Spec, StartWasAdmissible

\* wouldCreateDependencyCycle, AddDependency and SetDependencies: whatever requests overlap,
\* the walk of the check finds every cycle there would be, and dependencies form one only
\* when an edge was written between the check of another and its write.
THEOREM CyclesTakeTwoEdits == Spec => []CyclesNeedTwoEdits
<1>1. IInv => TypeOK
  BY DEF IInv
<1>2. TypeOK /\ DepInv => CyclesNeedTwoEdits
  <2>1. ASSUME TypeOK, DepInv, NEW e \in edges, Reaches(e[2], e[1]), raced # TRUE
        PROVE  FALSE
    <3>1. PICK x \in Tasks, y \in Tasks : e = <<x, y>>
      BY <2>1 DEF TypeOK
    <3>2. ~raced
      BY <2>1 DEF TypeOK
    <3>3. Apart(edges, {y}, x)
      BY <3>1, <3>2, <2>1 DEF DepInv, Acyclic
    <3>4. ~Reaches(y, x)
      BY <2>1, <3>3, ApartUnreached DEF TypeOK
    <3> QED
      BY <2>1, <3>1, <3>4
  <2> QED
    BY <2>1 DEF CyclesNeedTwoEdits, TypeOK
<1> QED
  BY <1>1, <1>2, StoreInductive, DependenciesInductive, PTL
=============================================================================

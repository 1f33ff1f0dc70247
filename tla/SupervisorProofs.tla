-------------------------- MODULE SupervisorProofs ---------------------------
(* Proofs about Supervisor for every set of callers, settings, tasks and     *)
(* slots and every bound.  The invariant has three parts that touch          *)
(* different variables: what the callers of applySettings and the drain own, *)
(* where the operator's cancels have gone, and who will settle each running  *)
(* task and close its phase and its cycle.                                   *)
EXTENDS Supervisor, FiniteSets, FiniteSetTheorems, SequenceTheorems, TLAPS

AnySettings == Settings \cup {Paused}

CallPlace == {"idle", "lock", "load", "decide", "clear", "awaitClear", "sweep", "build",
              "publish", "awaitNext", "stopPrev", "awaitPrev", "done", "error"}
Place == {"rest", "picked", "resume", "prepare", "execute", "passed", "broken", "startVerify",
          "verify", "terminate", "settle", "abort", "sdPhase", "sdCycle", "sdTask"}
Reasons == Place \cup {"refused"}

CallRow == [at : CallPlace, cfg : AnySettings, prev : Nat, next : Nat, bad : BOOLEAN]
PoolRow == [cfg : AnySettings, state : {"live", "cancelled", "exited"}]
SlotRow == [at : Place, task : Tasks \cup {NoTask}, out : {"done", "failed"}, flag : BOOLEAN]
TaskRow == [status : {"ready", "running", "done", "failed"},
            cycle : {"none", "running", "closed"}, phase : SUBSET Workers]

TypeInv ==
    /\ saved \in AnySettings /\ applyMu \in Callers \cup {Nobody}
    /\ call \in [Callers -> CallRow]
    /\ current \in Nat /\ drained \in BOOLEAN
    /\ drain \in [at : {"idle", "stop", "await", "done"}, inst : Nat]
    /\ pool \in Seq(PoolRow) /\ Len(pool) <= MaxPools
    /\ slot \in [Workers -> SlotRow]
    /\ task \in [Tasks -> TaskRow]
    /\ cancel \in [inst : Nat, todo : SUBSET Slots, fire : Slots \cup {NoSlot}]
    /\ cancels \in Nat /\ cut \in [Slots -> Nat] /\ retries \in Nat
    /\ left \in [Tasks -> SUBSET Reasons]

-----------------------------------------------------------------------------
(* Who owns a pool, and which settings are in force.                         *)

Holds(c) == call[c].at \notin {"idle", "lock", "done", "error"}

\* The call has read current and not replaced it yet.
HasRead(c) == call[c].at \in {"decide", "clear", "awaitClear", "sweep", "build", "publish"}

CallOK(c) ==
    /\ Holds(c) => applyMu = c
    /\ call[c].prev \in 0..Len(pool)
    /\ HasRead(c) => drained \/ current = call[c].prev
    /\ In(c, "publish") =>
          call[c].next \in DOMAIN pool /\ pool[call[c].next].cfg = call[c].cfg
    /\ In(c, "awaitClear") /\ call[c].prev # None => pool[call[c].prev].state # "live"
    /\ In(c, "awaitNext") => drained

DrainOK ==
    /\ current \in 0..Len(pool) /\ drain.inst \in 0..Len(pool)
    /\ drained => current = None
    /\ ~drained => drain.at = "idle"

\* Nobody is about to read the saved settings, and nobody has failed to.
AllRead == ~drained /\ \A c \in Callers : call[c].at \notin {"lock", "load", "error"}

SavedInv ==
    AllRead =>
        /\ \A c \in Callers : HasRead(c) => call[c].cfg = saved
        /\ current # None /\ (\A c \in Callers : ~HasRead(c)) => pool[current].cfg = saved

OwnerInv == (\A c \in Callers : CallOK(c)) /\ DrainOK /\ LivePoolHasAnOwner /\ SavedInv

-----------------------------------------------------------------------------
(* Where the operator's cancels are, for each slot: not there yet, about to  *)
(* be fired, in a flag, spent on a run, or lost.                             *)

Flags(s) == {i \in 1..MaxPools : slot[<<i, s>>].flag}
Due(s) == IF s \in cancel.todo \/ cancel.fire = s THEN 1 ELSE 0

CancelInv ==
    /\ cancel.todo # {} \/ cancel.fire # NoSlot => cancel.inst \in DOMAIN pool
    /\ cancel.fire \notin cancel.todo
    /\ \A s \in Slots : cut[s] + Cardinality(Flags(s)) + Due(s) <= cancels

-----------------------------------------------------------------------------
(* Runs.                                                                     *)

\* A slot that is in a run has a task, the pool of the slot has been started,
\* and no other slot of that pool has the task.
SlotsOK ==
    /\ \A w \in Workers : IF slot[w].at = "rest" THEN slot[w].task = NoTask
                          ELSE slot[w].task \in Tasks /\ w[1] \in DOMAIN pool
    /\ \A v, w \in Workers : v[1] = w[1] /\ slot[v].task = slot[w].task =>
          v = w \/ slot[w].task = NoTask

\* A run that settles its task in its next step, or leaves it for ever.
Settles(w, t) == slot[w].task = t /\ slot[w].at \in {"picked", "settle", "sdTask"}

NeverListed == {"picked", "settle", "refused"}

SettledInv ==
    \A t \in Tasks :
        task[t].status = "running" /\ task[t].cycle # "running" /\ left[t] \cap NeverListed = {} =>
            \E w \in Workers : Settles(w, t)

\* Where a phase is open and its worker will close it, or leave it open.
Inside == {"prepare", "execute", "passed", "broken", "verify", "abort", "sdPhase"}
IsIn(w, t) == slot[w].task = t /\ slot[w].at \in Inside

PhaseInv ==
    \A t \in Tasks :
        task[t].phase # {} /\ left[t] \cap {"verify", "abort"} = {} =>
            \E w \in task[t].phase : IsIn(w, t)

\* As long as there has been one pool, a run finds its cycle as it left it.
RunOK(w) ==
    /\ slot[w].at # "resume"
    /\ At(w, "picked") => Mine(w).status = "running" /\ Mine(w).cycle # "running"
    /\ slot[w].at \in Inside => Mine(w).cycle = "running" /\ Mine(w).phase \subseteq {w}
    /\ slot[w].at \in {"startVerify", "terminate", "sdCycle"} => CanTerminate(Mine(w))
    /\ slot[w].at \in {"settle", "sdTask"} => Mine(w).cycle = "closed"

LeftOpen == {"verify", "abort", "resume", "startVerify", "terminate"}

CycleOK(t) ==
    /\ task[t].status # "running" => task[t].cycle # "running"
    /\ task[t].cycle = "running" /\ left[t] \cap LeftOpen = {} =>
          \E w \in Workers : slot[w].task = t
    /\ (\A i \in DOMAIN pool : pool[i].state = "live") => left[t] \subseteq {"refused"}

FirstPoolInv ==
    Len(pool) <= 1 => (\A w \in Workers : RunOK(w)) /\ (\A t \in Tasks : CycleOK(t))

RunInv == SlotsOK /\ SettledInv /\ PhaseInv /\ FirstPoolInv

IInv == TypeInv /\ OwnerInv /\ CancelInv /\ RunInv

-----------------------------------------------------------------------------
(* What a step of a run does, row by row.                                    *)

LEMMA Pools ==
    ASSUME TypeInv
    PROVE  /\ Len(pool) \in Nat /\ DOMAIN pool = 1..Len(pool) /\ MaxPools \in Nat
           /\ \A i \in DOMAIN pool : pool[i] \in PoolRow /\ i \in 1..MaxPools
  BY BoundAssumption DEF TypeInv

LEMMA PoolBecomes ==
    ASSUME TypeInv, NEW i \in DOMAIN pool, NEW new \in PoolRow,
           pool' = [pool EXCEPT ![i] = new]
    PROVE  /\ pool' \in Seq(PoolRow) /\ Len(pool') = Len(pool) /\ DOMAIN pool' = DOMAIN pool
           /\ pool'[i] = new /\ \A j \in DOMAIN pool : j # i => pool'[j] = pool[j]
<1>1. pool \in Seq(PoolRow) /\ i \in 1..Len(pool) /\ DOMAIN pool = 1..Len(pool)
  BY DEF TypeInv
<1>2. /\ pool' \in Seq(PoolRow) /\ Len(pool') = Len(pool)
      /\ \A j \in 1..Len(pool) : pool'[j] = IF j = i THEN new ELSE pool[j]
  BY <1>1, ExceptSeq
<1> QED
  BY <1>1, <1>2

SlotTo(w, new) ==
    /\ slot' \in [Workers -> SlotRow] /\ slot'[w] = new
    /\ \A v \in Workers : v # w => slot'[v] = slot[v]

TaskTo(u, row) ==
    /\ task' \in [Tasks -> TaskRow] /\ task'[u] = row
    /\ \A t \in Tasks : t # u => task'[t] = task[t]

LeftTo(u, why) ==
    /\ left' \in [Tasks -> SUBSET Reasons] /\ left'[u] = why
    /\ \A t \in Tasks : t # u => left'[t] = left[t]

LEMMA GotoTo ==
    ASSUME TypeInv, NEW w \in Workers, NEW place \in Place, Goto(w, place)
    PROVE  /\ SlotTo(w, [slot[w] EXCEPT !.at = place])
           /\ slot'[w].at = place /\ slot'[w].task = slot[w].task /\ slot'[w].flag = slot[w].flag
<1>1. slot[w] \in SlotRow
  BY DEF TypeInv
<1>2. [slot[w] EXCEPT !.at = place] \in SlotRow
  BY <1>1 DEF SlotRow
<1>3. slot' = [slot EXCEPT ![w] = [slot[w] EXCEPT !.at = place]]
  BY DEF Goto
<1> QED
  BY <1>1, <1>2, <1>3 DEF TypeInv, SlotTo, SlotRow

LEMMA RestTo ==
    ASSUME TypeInv, NEW w \in Workers, Rest(w)
    PROVE  /\ SlotTo(w, [slot[w] EXCEPT !.at = "rest", !.task = NoTask, !.out = "failed"])
           /\ slot'[w].at = "rest" /\ slot'[w].task = NoTask /\ slot'[w].flag = slot[w].flag
<1> DEFINE new == [slot[w] EXCEPT !.at = "rest", !.task = NoTask, !.out = "failed"]
<1>1. slot[w] \in SlotRow
  BY DEF TypeInv
<1>2. new \in SlotRow /\ new.at = "rest" /\ new.task = NoTask /\ new.flag = slot[w].flag
  BY <1>1 DEF SlotRow, Place
<1>3. slot' = [slot EXCEPT ![w] = new]
  BY DEF Rest
<1> HIDE DEF new
<1>4. SlotTo(w, new)
  BY <1>2, <1>3 DEF TypeInv, SlotTo
<1>5. slot'[w] = new
  BY <1>4 DEF SlotTo
<1> QED
  BY <1>2, <1>4, <1>5 DEF new

LEMMA RowTo ==
    ASSUME TypeInv, NEW w \in Workers, NEW u \in Tasks, slot[w].task = u,
           NEW row \in TaskRow, Row(w, row)
    PROVE  TaskTo(u, row) /\ task'[u] = row
  BY DEF TypeInv, Row, TaskTo

LEMMA SameRowTo ==
    ASSUME TypeInv, NEW u \in Tasks, UNCHANGED task
    PROVE  TaskTo(u, task[u]) /\ task'[u] = task[u]
  BY DEF TypeInv, TaskTo

LEMMA SameLeftTo ==
    ASSUME TypeInv, NEW u \in Tasks, UNCHANGED left
    PROVE  LeftTo(u, left[u]) /\ left'[u] = left[u]
  BY DEF TypeInv, LeftTo

LEMMA GivesUpTo ==
    ASSUME TypeInv, NEW w \in Workers, NEW u \in Tasks, slot[w].task = u,
           NEW place \in Reasons, GivesUp(w, place)
    PROVE  LeftTo(u, left[u] \cup {place}) /\ left'[u] = left[u] \cup {place}
<1>1. left[u] \in SUBSET Reasons /\ left[u] \cup {place} \in SUBSET Reasons
  BY DEF TypeInv
<1>2. left' = [left EXCEPT ![u] = left[u] \cup {place}]
  BY DEF GivesUp
<1> QED
  BY <1>1, <1>2 DEF TypeInv, LeftTo

\* What a run that gives up on a dead context leaves behind.
Why(w, u) == IF Dead(w) THEN left[u] \cup {slot[w].at} ELSE left[u]

LEMMA GivesUpIfDeadTo ==
    ASSUME TypeInv, NEW w \in Workers, NEW u \in Tasks, slot[w].task = u, GivesUpIfDead(w)
    PROVE  /\ LeftTo(u, Why(w, u)) /\ left'[u] = Why(w, u) /\ left[u] \subseteq Why(w, u)
           /\ Dead(w) => slot[w].at \in Why(w, u)
           /\ ~Dead(w) => Why(w, u) = left[u]
<1>1. slot[w].at \in Reasons
  BY DEF TypeInv, SlotRow, Reasons
<1>2. CASE Dead(w)
  <2>1. GivesUp(w, slot[w].at)
    BY <1>2 DEF GivesUpIfDead
  <2>2. /\ LeftTo(u, left[u] \cup {slot[w].at})
        /\ left'[u] = left[u] \cup {slot[w].at}
    <3>1. PICK place \in Reasons : place = slot[w].at
      BY <1>1
    <3>2. GivesUp(w, place)
      BY <2>1, <3>1
    <3>3. LeftTo(u, left[u] \cup {place}) /\ left'[u] = left[u] \cup {place}
      BY <3>2, GivesUpTo
    <3> QED
      BY <3>1, <3>3
  <2> QED
    BY <1>2, <2>2 DEF Why
<1>3. CASE ~Dead(w)
  BY <1>3, SameLeftTo DEF GivesUpIfDead, Why
<1> QED
  BY <1>2, <1>3

\* A step of run w, about task u, leaves the rest of the system alone.
RunMove(w, u) ==
    /\ u \in Tasks /\ UNCHANGED <<calls, sup, pool, cancel, cancels, retries>>
    /\ slot' \in [Workers -> SlotRow] /\ \A v \in Workers : v # w => slot'[v] = slot[v]
    /\ task' \in [Tasks -> TaskRow] /\ \A t \in Tasks : t # u => task'[t] = task[t]
    /\ left' \in [Tasks -> SUBSET Reasons] /\ \A t \in Tasks : t # u => left'[t] = left[t]

\* A cancel flag is at most taken, and then for one run.
FlagMove(w) ==
    \/ cut' = cut /\ (slot'[w].flag => slot[w].flag)
    \/ cut' = [cut EXCEPT ![w[2]] = @ + 1] /\ slot[w].flag /\ ~slot'[w].flag

\* The slot has or had the task, and no other slot of the pool has it.
SlotMove(w, u) ==
    /\ IF slot[w].at = "rest" THEN slot[w].task = NoTask ELSE slot[w].task = u
    /\ IF slot'[w].at = "rest" THEN slot'[w].task = NoTask ELSE slot'[w].task = u
    /\ u \in {slot[w].task, slot'[w].task}
    /\ w[1] \in DOMAIN pool
    /\ \A v \in Workers : v[1] = w[1] /\ v # w => slot[v].task # u

SettleMove(w, u) ==
    \/ task'[u].status # "running" \/ task'[u].cycle = "running"
    \/ left'[u] \cap NeverListed # {}
    \/ Settles(w, u)'
    \/ /\ ~Settles(w, u) /\ left[u] \subseteq left'[u]
       /\ task'[u].status = task[u].status /\ task'[u].cycle = task[u].cycle

PhaseMove(w, u) ==
    \/ task'[u].phase = {} \/ left'[u] \cap {"verify", "abort"} # {}
    \/ w \in task'[u].phase /\ IsIn(w, u)'
    \/ /\ task'[u].phase = task[u].phase /\ left[u] \subseteq left'[u]
       /\ ~(w \in task[u].phase /\ IsIn(w, u))

FirstPoolMove(w, u) == Len(pool) <= 1 => RunOK(w)' /\ CycleOK(u)'

Ran(w, u) ==
    /\ RunMove(w, u) /\ FlagMove(w) /\ SlotMove(w, u)
    /\ SettleMove(w, u) /\ PhaseMove(w, u) /\ FirstPoolMove(w, u)

\* What is known of a run before its step.
LEMMA InRun ==
    ASSUME IInv, NEW w \in Workers, NEW u, slot[w].task = u, slot[w].at # "rest"
    PROVE  /\ TypeInv /\ slot[w] \in SlotRow /\ u \in Tasks /\ u # NoTask
           /\ Mine(w) = task[u] /\ Mine(w) \in TaskRow /\ left[u] \in SUBSET Reasons
           /\ w[1] \in DOMAIN pool
           /\ \A v \in Workers : v[1] = w[1] /\ v # w => slot[v].task # u
           /\ Len(pool) <= 1 => RunOK(w) /\ CycleOK(u)
<1>1. TypeInv /\ SlotsOK /\ FirstPoolInv /\ slot[w] \in SlotRow
  BY DEF IInv, RunInv, TypeInv
<1>2. u \in Tasks /\ w[1] \in DOMAIN pool
  BY <1>1 DEF SlotsOK
<1>3. u # NoTask
  BY <1>2, NamesAssumption
<1>4. task[u] \in TaskRow /\ left[u] \in SUBSET Reasons
  BY <1>1, <1>2 DEF TypeInv
<1> QED
  BY <1>1, <1>2, <1>3, <1>4 DEF SlotsOK, FirstPoolInv, Mine

\* The rows a run writes.  Where it closes its phase, the phase is closed or
\* was another worker's.
LEMMA CompletedRow ==
    ASSUME NEW w \in Workers, NEW u, Mine(w) = task[u], Mine(w) \in TaskRow
    PROVE  /\ Completed(w) \in TaskRow /\ Completed(w).status = task[u].status
           /\ Completed(w).cycle = task[u].cycle
           /\ \/ Completed(w).phase = {}
              \/ Completed(w).phase = task[u].phase /\ w \notin task[u].phase
           /\ task[u].phase \subseteq {w} => Completed(w).phase = {}
           /\ IsMine(w) => Completed(w).phase = {}
<1>1. CASE IsMine(w)
  <2>1. Completed(w) = [task[u] EXCEPT !.phase = {}] /\ {} \in SUBSET Workers
    BY <1>1 DEF Completed
  <2> QED
    BY <2>1 DEF TaskRow
<1>2. CASE ~IsMine(w)
  <2>1. Completed(w) = task[u] /\ w \notin task[u].phase
    BY <1>2 DEF Completed, IsMine
  <2> QED
    BY <1>2, <2>1
<1> QED
  BY <1>1, <1>2

LEMMA TerminatedRow ==
    ASSUME NEW row \in TaskRow
    PROVE  /\ Terminated(row) \in TaskRow /\ Terminated(row).status = row.status
           /\ Terminated(row).phase = row.phase
           /\ CanTerminate(row) => Terminated(row).cycle = "closed"
  BY DEF Terminated, TaskRow

LEMMA OpenedRow ==
    ASSUME NEW w \in Workers, Mine(w) \in TaskRow
    PROVE  /\ [Mine(w) EXCEPT !.phase = {w}] \in TaskRow
           /\ [Mine(w) EXCEPT !.phase = {w}].phase = {w}
           /\ [Mine(w) EXCEPT !.phase = {w}].cycle = Mine(w).cycle
           /\ [Mine(w) EXCEPT !.phase = {w}].status = Mine(w).status
           /\ [Mine(w) EXCEPT !.cycle = "running", !.phase = {w}] \in TaskRow
           /\ [Mine(w) EXCEPT !.cycle = "running", !.phase = {w}].phase = {w}
           /\ [Mine(w) EXCEPT !.cycle = "running", !.phase = {w}].cycle = "running"
           /\ [Mine(w) EXCEPT !.cycle = "running", !.phase = {w}].status = Mine(w).status
<1>1. {w} \in SUBSET Workers
  OBVIOUS
<1> QED
  BY <1>1 DEF TaskRow

LEMMA Others ==
    ASSUME NEW w, NEW u \in Tasks, NEW new, NEW row, NEW why,
           SlotTo(w, new), TaskTo(u, row), LeftTo(u, why), UNCHANGED Outside
    PROVE  RunMove(w, u) /\ cut' = cut
  BY DEF SlotTo, TaskTo, LeftTo, RunMove, Outside

\* A run that ends here.
LEMMA RestRuns ==
    ASSUME IInv, NEW w \in Workers, NEW u, slot[w].task = u, slot[w].at # "rest",
           Rest(w), UNCHANGED Outside,
           NEW row, TaskTo(u, row), NEW why, LeftTo(u, why), SettleMove(w, u), PhaseMove(w, u),
           Len(pool) <= 1 =>
              /\ row.cycle # "running" \/ (row.status = "running" /\ why \cap LeftOpen # {})
              /\ Dead(w) \/ why \subseteq {"refused"}
    PROVE  Ran(w, u)
<1>1. /\ TypeInv /\ u \in Tasks /\ u # NoTask /\ w[1] \in DOMAIN pool
      /\ \A v \in Workers : v[1] = w[1] /\ v # w => slot[v].task # u
  BY InRun
<1>2. /\ SlotTo(w, [slot[w] EXCEPT !.at = "rest", !.task = NoTask, !.out = "failed"])
      /\ slot'[w].at = "rest" /\ slot'[w].task = NoTask /\ slot'[w].flag = slot[w].flag
  BY <1>1, RestTo
<1>3. task'[u] = row /\ left'[u] = why
  BY DEF TaskTo, LeftTo
<1>4. RunMove(w, u) /\ cut' = cut
  BY <1>1, <1>2, Others
<1>5. FlagMove(w) /\ SlotMove(w, u)
  BY <1>1, <1>2, <1>4 DEF FlagMove, SlotMove
<1>6. FirstPoolMove(w, u)
  <2>1. RunOK(w)'
    BY <1>2 DEF RunOK, At, Inside
  <2>2. pool' = pool
    BY <1>4 DEF RunMove
  <2>3. Len(pool) <= 1 => CycleOK(u)'
    BY <1>1, <1>3, <2>2 DEF CycleOK, Dead
  <2> QED
    BY <2>1, <2>3 DEF FirstPoolMove
<1> QED
  BY <1>4, <1>5, <1>6 DEF Ran

\* A run that goes on.
LEMMA GoesOn ==
    ASSUME IInv, NEW w \in Workers, NEW u, slot[w].task = u, slot[w].at # "rest",
           NEW new, SlotTo(w, new), UNCHANGED Outside,
           slot'[w].at # "rest", slot'[w].task = u, slot'[w].flag = slot[w].flag,
           NEW row, TaskTo(u, row), NEW why, LeftTo(u, why), SettleMove(w, u), PhaseMove(w, u),
           Len(pool) <= 1 =>
              /\ RunOK(w)'
              /\ row.status # "running" => row.cycle # "running"
              /\ Dead(w) \/ why \subseteq {"refused"}
    PROVE  Ran(w, u)
<1>1. /\ TypeInv /\ u \in Tasks /\ u # NoTask /\ w[1] \in DOMAIN pool
      /\ \A v \in Workers : v[1] = w[1] /\ v # w => slot[v].task # u
  BY InRun
<1>2. task'[u] = row /\ left'[u] = why
  BY DEF TaskTo, LeftTo
<1>3. RunMove(w, u) /\ cut' = cut
  BY <1>1, Others
<1>4. FlagMove(w) /\ SlotMove(w, u)
  BY <1>1, <1>3 DEF FlagMove, SlotMove
<1>5. FirstPoolMove(w, u)
  <2>1. pool' = pool
    BY <1>3 DEF RunMove
  <2>2. Len(pool) <= 1 => CycleOK(u)'
    BY <1>1, <1>2, <2>1 DEF CycleOK, Dead
  <2> QED
    BY <2>2 DEF FirstPoolMove
<1> QED
  BY <1>3, <1>4, <1>5 DEF Ran

\* While the first pool lives, no run has given up.
LEMMA LeftOfLive ==
    ASSUME IInv, NEW w \in Workers, NEW u, slot[w].task = u, slot[w].at # "rest",
           Len(pool) <= 1
    PROVE  Dead(w) \/ left[u] \subseteq {"refused"}
<1>1. w[1] \in DOMAIN pool /\ CycleOK(u) /\ TypeInv
  BY InRun
<1>2. DOMAIN pool = {w[1]}
  BY <1>1, Pools
<1> QED
  BY <1>1, <1>2 DEF CycleOK, Dead

-----------------------------------------------------------------------------
(* The steps of a run.                                                       *)

LEMMA TakeRuns ==
    ASSUME IInv, NEW w \in Workers, NEW u \in Tasks, w[1] \in DOMAIN pool, w[2] \in Slots,
           Take(w, u)
    PROVE  Ran(w, u)
<1>1. /\ TypeInv /\ SlotsOK /\ FirstPoolInv /\ slot[w] \in SlotRow /\ task[u] \in TaskRow
      /\ left[u] \in SUBSET Reasons /\ slot[w].at = "rest" /\ ~Dead(w)
      /\ UNCHANGED Outside /\ UNCHANGED left
  BY DEF IInv, RunInv, TypeInv, Take, At
<1>2. slot[w].task = NoTask /\ u # NoTask
  BY <1>1, NamesAssumption DEF SlotsOK
<1>3. \A v \in Workers : v[1] = w[1] => slot[v].task # u
  <2>1. \A s \in Slots : slot[<<w[1], s>>].task # u
    BY DEF Take
  <2> QED
    BY <2>1 DEF Workers
<1>4. LeftTo(u, left[u])
  BY <1>1, SameLeftTo
<1>5. CASE /\ task[u].status = "ready"
           /\ task' = [task EXCEPT ![u].status = "running"]
           /\ slot' = [slot EXCEPT ![w].at = "picked", ![w].task = u]
  <2> DEFINE row == [task[u] EXCEPT !.status = "running"]
             new == [slot[w] EXCEPT !.at = "picked", !.task = u]
  <2>1. /\ row \in TaskRow /\ row.status = "running" /\ row.cycle = task[u].cycle
        /\ row.phase = task[u].phase
    BY <1>1 DEF TaskRow
  <2>2. /\ new \in SlotRow /\ new.at = "picked" /\ new.task = u /\ new.flag = slot[w].flag
    BY <1>1 DEF SlotRow, Place
  <2>3. task' = [task EXCEPT ![u] = row] /\ slot' = [slot EXCEPT ![w] = new]
    BY <1>5
  <2> HIDE DEF row, new
  <2>4. TaskTo(u, row) /\ SlotTo(w, new) /\ slot'[w] = new /\ task'[u] = row
    BY <1>1, <2>1, <2>2, <2>3 DEF TypeInv, TaskTo, SlotTo
  <2>5. RunMove(w, u) /\ FlagMove(w)
    BY <1>1, <1>4, <2>2, <2>4, Others DEF FlagMove
  <2>6. SlotMove(w, u)
    BY <1>1, <1>2, <1>3, <2>2, <2>4 DEF SlotMove
  <2>7. SettleMove(w, u)
    BY <2>2, <2>4 DEF SettleMove, Settles
  <2>8. PhaseMove(w, u)
    BY <1>1, <2>1, <2>4 DEF PhaseMove, IsIn, Inside
  <2>9. FirstPoolMove(w, u)
    <3>1. SUFFICES ASSUME Len(pool) <= 1 PROVE RunOK(w)' /\ CycleOK(u)'
      BY DEF FirstPoolMove
    <3>2. CycleOK(u) /\ task[u].cycle # "running"
      BY <1>1, <1>5, <3>1 DEF FirstPoolInv, CycleOK
    <3>3. RunOK(w)'
      BY <2>1, <2>2, <2>4, <3>2 DEF RunOK, At, Mine, Inside
    <3>4. CycleOK(u)'
      BY <1>1, <2>1, <2>4, <3>2 DEF CycleOK, Outside
    <3> QED
      BY <3>3, <3>4
  <2> QED
    BY <2>5, <2>6, <2>7, <2>8, <2>9 DEF Ran
<1>6. CASE /\ task[u].status = "running" /\ task[u].cycle = "running"
           /\ slot' = [slot EXCEPT ![w].at = "resume", ![w].task = u]
           /\ UNCHANGED task
  <2> DEFINE new == [slot[w] EXCEPT !.at = "resume", !.task = u]
  <2>1. /\ new \in SlotRow /\ new.at = "resume" /\ new.task = u /\ new.flag = slot[w].flag
    BY <1>1 DEF SlotRow, Place
  <2>2. slot' = [slot EXCEPT ![w] = new]
    BY <1>6
  <2> HIDE DEF new
  <2>3. TaskTo(u, task[u]) /\ SlotTo(w, new) /\ slot'[w] = new /\ task'[u] = task[u]
    BY <1>1, <1>6, <2>1, <2>2 DEF TypeInv, TaskTo, SlotTo
  <2>4. RunMove(w, u) /\ FlagMove(w)
    BY <1>1, <1>4, <2>1, <2>3, Others DEF FlagMove
  <2>5. SlotMove(w, u)
    BY <1>1, <1>2, <1>3, <2>1, <2>3 DEF SlotMove
  <2>6. SettleMove(w, u)
    BY <1>6 DEF SettleMove
  <2>7. PhaseMove(w, u)
    BY <1>1, <1>6 DEF PhaseMove, IsIn, Inside
  <2>8. ~(Len(pool) <= 1)
    <3>1. SUFFICES ASSUME Len(pool) <= 1 PROVE FALSE
      OBVIOUS
    <3>2. CycleOK(u) /\ DOMAIN pool = {w[1]}
      BY <1>1, <3>1, Pools DEF FirstPoolInv
    <3>3. left[u] \cap LeftOpen = {}
      BY <1>1, <3>2 DEF CycleOK, Dead, LeftOpen
    <3>4. PICK v \in Workers : slot[v].task = u
      BY <1>6, <3>2, <3>3 DEF CycleOK
    <3>5. v[1] \in DOMAIN pool
      BY <1>1, <1>2, <3>4 DEF SlotsOK
    <3> QED
      BY <1>3, <3>2, <3>4, <3>5
  <2> QED
    BY <2>4, <2>5, <2>6, <2>7, <2>8 DEF Ran, FirstPoolMove
<1> QED
  BY <1>5, <1>6 DEF Take

LEMMA BeginRuns ==
    ASSUME IInv, NEW w \in Workers, NEW u, slot[w].task = u, Begin(w)
    PROVE  Ran(w, u)
<1>1. slot[w].at = "picked" /\ slot[w].at # "rest" /\ UNCHANGED Outside
  BY DEF Begin, At
<1>2. /\ TypeInv /\ slot[w] \in SlotRow /\ u \in Tasks /\ u # NoTask
      /\ Mine(w) = task[u] /\ Mine(w) \in TaskRow /\ left[u] \in SUBSET Reasons
      /\ Len(pool) <= 1 => RunOK(w) /\ CycleOK(u)
  BY <1>1, InRun
<1>3. Len(pool) <= 1 => /\ Mine(w).status = "running" /\ Mine(w).cycle # "running"
                        /\ Dead(w) \/ left[u] \subseteq {"refused"}
  BY <1>1, <1>2, LeftOfLive DEF RunOK, At
<1>4. CASE Dead(w) /\ Rest(w) /\ UNCHANGED task /\ GivesUp(w, "picked")
  <2>1. TaskTo(u, task[u]) /\ LeftTo(u, left[u] \cup {"picked"})
    BY <1>2, <1>4, SameRowTo, GivesUpTo DEF Reasons, Place
  <2>2. SettleMove(w, u)
    BY <2>1 DEF SettleMove, LeftTo, NeverListed
  <2>3. PhaseMove(w, u)
    BY <1>1, <2>1 DEF PhaseMove, TaskTo, LeftTo, IsIn, Inside
  <2> QED
    BY <1>1, <1>2, <1>3, <1>4, <2>1, <2>2, <2>3, RestRuns
<1>5. CASE /\ ~Dead(w) /\ Mine(w).cycle = "running"
           /\ Rest(w) /\ Row(w, [Mine(w) EXCEPT !.status = "failed"]) /\ UNCHANGED left
  <2> DEFINE row == [Mine(w) EXCEPT !.status = "failed"]
  <2>1. row \in TaskRow /\ row.status = "failed" /\ row.phase = task[u].phase
    BY <1>2 DEF TaskRow
  <2>2. Row(w, row)
    BY <1>5
  <2> HIDE DEF row
  <2>3. TaskTo(u, row) /\ task'[u] = row /\ LeftTo(u, left[u]) /\ left'[u] = left[u]
    BY <1>2, <1>5, <2>1, <2>2, RowTo, SameLeftTo
  <2>4. SettleMove(w, u)
    BY <2>1, <2>3 DEF SettleMove
  <2>5. PhaseMove(w, u)
    BY <1>1, <2>1, <2>3 DEF PhaseMove, IsIn, Inside
  <2> QED
    BY <1>1, <1>2, <1>3, <1>5, <2>3, <2>4, <2>5, RestRuns
<1>6. CASE /\ ~Dead(w) /\ Mine(w).cycle # "running"
           /\ Goto(w, "prepare")
           /\ Row(w, [Mine(w) EXCEPT !.cycle = "running", !.phase = {w}])
           /\ left' = [left EXCEPT ![slot[w].task] = {}]
  <2> DEFINE row == [Mine(w) EXCEPT !.cycle = "running", !.phase = {w}]
             new == [slot[w] EXCEPT !.at = "prepare"]
  <2>1. /\ row \in TaskRow /\ row.phase = {w} /\ row.cycle = "running"
        /\ row.status = Mine(w).status
    BY <1>2, OpenedRow
  <2>2. /\ SlotTo(w, new)
        /\ slot'[w].at = "prepare" /\ slot'[w].task = u /\ slot'[w].flag = slot[w].flag
    BY <1>2, <1>6, GotoTo DEF Place
  <2>3. LeftTo(u, {})
    BY <1>2, <1>6 DEF TypeInv, LeftTo
  <2>4. Row(w, row)
    BY <1>6
  <2> HIDE DEF row, new
  <2>5. TaskTo(u, row) /\ task'[u] = row
    BY <1>2, <2>1, <2>4, RowTo
  <2>6. SettleMove(w, u) /\ PhaseMove(w, u)
    BY <2>1, <2>2, <2>5 DEF SettleMove, PhaseMove, IsIn, Inside
  <2>7. RunOK(w)'
    BY <2>1, <2>2, <2>5 DEF RunOK, At, Mine, Inside
  <2> QED
    BY <1>1, <1>2, <1>3, <2>1, <2>2, <2>3, <2>5, <2>6, <2>7, GoesOn
<1> QED
  BY <1>4, <1>5, <1>6 DEF Begin

LEMMA ResumeRuns ==
    ASSUME IInv, NEW w \in Workers, NEW u, slot[w].task = u, Resume(w)
    PROVE  Ran(w, u)
<1>1. /\ slot[w].at = "resume" /\ slot[w].at # "rest" /\ UNCHANGED Outside /\ GivesUpIfDead(w)
  BY DEF Resume, At
<1>2. /\ TypeInv /\ slot[w] \in SlotRow /\ u \in Tasks /\ u # NoTask
      /\ Mine(w) = task[u] /\ Mine(w) \in TaskRow /\ left[u] \in SUBSET Reasons
      /\ ~(Len(pool) <= 1)
  BY <1>1, InRun DEF RunOK
<1>3. LeftTo(u, Why(w, u)) /\ left'[u] = Why(w, u) /\ left[u] \subseteq Why(w, u)
  BY <1>1, <1>2, GivesUpIfDeadTo
<1>4. ~Settles(w, u) /\ ~IsIn(w, u)
  BY <1>1 DEF Settles, IsIn, Inside
<1>5. CASE Dead(w)
  <2>1. Rest(w) /\ TaskTo(u, task[u]) /\ task'[u] = task[u]
    BY <1>2, <1>5, SameRowTo DEF Resume, TaskTo
  <2>2. SettleMove(w, u) /\ PhaseMove(w, u)
    BY <1>3, <1>4, <2>1 DEF SettleMove, PhaseMove
  <2> QED
    BY <1>1, <1>2, <1>3, <2>1, <2>2, RestRuns
<1>6. CASE ~Dead(w) /\ CanTerminate(Mine(w))
  <2>1. PICK place \in {"prepare", "verify"} :
           Goto(w, place) /\ Row(w, [Mine(w) EXCEPT !.phase = {w}])
    BY <1>6 DEF Resume
  <2> DEFINE row == [Mine(w) EXCEPT !.phase = {w}]
             new == [slot[w] EXCEPT !.at = place]
  <2>2. /\ row \in TaskRow /\ row.phase = {w} /\ row.cycle = "running"
    BY <1>2, <1>6, OpenedRow DEF CanTerminate
  <2>3. /\ SlotTo(w, new)
        /\ slot'[w].at = place /\ slot'[w].task = u /\ slot'[w].flag = slot[w].flag
    BY <1>2, <2>1, GotoTo DEF Place
  <2>4. Row(w, row)
    BY <2>1
  <2> HIDE DEF row, new
  <2>5. TaskTo(u, row) /\ task'[u] = row
    BY <1>2, <2>2, <2>4, RowTo
  <2>6. SettleMove(w, u) /\ PhaseMove(w, u) /\ slot'[w].at # "rest"
    BY <2>2, <2>3, <2>5 DEF SettleMove, PhaseMove, IsIn, Inside
  <2> QED
    BY <1>1, <1>2, <1>3, <2>3, <2>5, <2>6, GoesOn
<1>7. CASE ~Dead(w) /\ ~CanTerminate(Mine(w))
  <2> DEFINE row == [Mine(w) EXCEPT !.status = "failed"]
  <2>1. Rest(w) /\ Row(w, row)
    BY <1>7 DEF Resume
  <2>2. row \in TaskRow /\ row.status = "failed" /\ row.phase = task[u].phase
    BY <1>2 DEF TaskRow
  <2> HIDE DEF row
  <2>3. TaskTo(u, row) /\ task'[u] = row
    BY <1>2, <2>1, <2>2, RowTo
  <2>4. SettleMove(w, u) /\ PhaseMove(w, u)
    BY <1>3, <1>4, <2>2, <2>3 DEF SettleMove, PhaseMove
  <2> QED
    BY <1>1, <1>2, <1>3, <2>1, <2>3, <2>4, RestRuns
<1> QED
  BY <1>5, <1>6, <1>7

LEMMA InvokeRunnerRuns ==
    ASSUME IInv, NEW w \in Workers, NEW u, slot[w].task = u, InvokeRunner(w)
    PROVE  Ran(w, u)
<1>1. slot[w].at = "prepare" /\ slot[w].at # "rest" /\ UNCHANGED Outside /\ UNCHANGED <<task, left>>
  BY DEF InvokeRunner, At
<1>2. /\ TypeInv /\ u \in Tasks /\ Mine(w) = task[u] /\ left[u] \in SUBSET Reasons
      /\ Len(pool) <= 1 => RunOK(w) /\ CycleOK(u)
  BY <1>1, InRun
<1>3. Len(pool) <= 1 => /\ Mine(w).cycle = "running" /\ Mine(w).phase \subseteq {w}
                        /\ Dead(w) \/ left[u] \subseteq {"refused"}
                        /\ Mine(w).status = "running"
  BY <1>1, <1>2, LeftOfLive DEF RunOK, CycleOK, Inside
<1>4. PICK place \in {"execute", "abort"} : Goto(w, place)
  BY DEF InvokeRunner
<1> DEFINE new == [slot[w] EXCEPT !.at = place]
<1>5. /\ SlotTo(w, new) /\ slot'[w].at = place /\ slot'[w].task = u
      /\ slot'[w].flag = slot[w].flag
  BY <1>2, <1>4, GotoTo DEF Place
<1>6. /\ TaskTo(u, task[u]) /\ task'[u] = task[u]
      /\ LeftTo(u, left[u]) /\ left'[u] = left[u]
  BY <1>1, <1>2, SameRowTo, SameLeftTo
<1> HIDE DEF new
<1>7. SettleMove(w, u) /\ PhaseMove(w, u)
  BY <1>1, <1>5, <1>6 DEF SettleMove, PhaseMove, Settles, IsIn, Inside
<1>8. Len(pool) <= 1 => RunOK(w)'
  BY <1>2, <1>3, <1>5, <1>6 DEF RunOK, At, Mine, Inside
<1> QED
  BY <1>1, <1>2, <1>3, <1>5, <1>6, <1>7, <1>8, GoesOn

LEMMA ExecuteReturnsRuns ==
    ASSUME IInv, NEW w \in Workers, NEW u, slot[w].task = u, ExecuteReturns(w)
    PROVE  Ran(w, u)
<1>1. /\ slot[w].at = "execute" /\ slot[w].at # "rest" /\ UNCHANGED <<task, left>>
      /\ UNCHANGED <<calls, sup, pool, cancel, cancels, retries>>
  BY DEF ExecuteReturns, At
<1>2. /\ TypeInv /\ slot[w] \in SlotRow /\ u \in Tasks /\ u # NoTask /\ w[1] \in DOMAIN pool
      /\ Mine(w) = task[u] /\ left[u] \in SUBSET Reasons
      /\ \A v \in Workers : v[1] = w[1] /\ v # w => slot[v].task # u
      /\ Len(pool) <= 1 => RunOK(w) /\ CycleOK(u)
  BY <1>1, InRun
<1>3. PICK place \in {"sdPhase", "passed", "broken"} :
         slot' = [slot EXCEPT ![w].at = place, ![w].flag = FALSE]
  BY DEF ExecuteReturns, ConsumeOperatorCancel
<1> DEFINE new == [slot[w] EXCEPT !.at = place, !.flag = FALSE]
<1>4. new \in SlotRow /\ new.at = place /\ new.task = u /\ new.flag = FALSE
  BY <1>2 DEF SlotRow, Place
<1>5. slot' = [slot EXCEPT ![w] = new]
  BY <1>3
<1> HIDE DEF new
<1>6. SlotTo(w, new) /\ slot'[w] = new
  BY <1>2, <1>4, <1>5 DEF TypeInv, SlotTo
<1>7. /\ TaskTo(u, task[u]) /\ task'[u] = task[u]
      /\ LeftTo(u, left[u]) /\ left'[u] = left[u]
  BY <1>1, <1>2, SameRowTo, SameLeftTo
<1>8. RunMove(w, u)
  BY <1>1, <1>2, <1>6, <1>7 DEF RunMove, SlotTo, TaskTo, LeftTo
<1>9. FlagMove(w)
  BY <1>4, <1>6 DEF FlagMove, ExecuteReturns
<1>10. SlotMove(w, u)
  BY <1>1, <1>2, <1>4, <1>6 DEF SlotMove
<1>11. SettleMove(w, u) /\ PhaseMove(w, u)
  BY <1>1, <1>4, <1>6, <1>7 DEF SettleMove, PhaseMove, Settles, IsIn, Inside
<1>12. FirstPoolMove(w, u)
  <2> SUFFICES ASSUME Len(pool) <= 1 PROVE RunOK(w)' /\ CycleOK(u)'
    BY DEF FirstPoolMove
  <2>1. RunOK(w) /\ CycleOK(u)
    BY <1>2
  <2>2. Mine(w).cycle = "running" /\ Mine(w).phase \subseteq {w}
    BY <1>1, <2>1 DEF RunOK, Inside
  <2>3. RunOK(w)'
    BY <1>2, <1>4, <1>6, <1>7, <2>2 DEF RunOK, At, Mine, Inside
  <2>4. CycleOK(u)'
    BY <1>1, <1>4, <1>6, <1>7, <2>1 DEF CycleOK
  <2> QED
    BY <2>3, <2>4
<1> QED
  BY <1>8, <1>9, <1>10, <1>11, <1>12 DEF Ran

LEMMA CompleteExecuteRuns ==
    ASSUME IInv, NEW w \in Workers, NEW u, slot[w].task = u, CompleteExecute(w)
    PROVE  Ran(w, u)
<1>1. /\ slot[w].at \in {"passed", "broken"} /\ slot[w].at # "rest"
      /\ UNCHANGED Outside /\ UNCHANGED left
  BY DEF CompleteExecute, At
<1>2. /\ TypeInv /\ u \in Tasks /\ Mine(w) = task[u] /\ Mine(w) \in TaskRow
      /\ left[u] \in SUBSET Reasons
      /\ Len(pool) <= 1 => RunOK(w) /\ CycleOK(u)
  BY <1>1, InRun
<1>3. Len(pool) <= 1 => /\ Mine(w).cycle = "running" /\ Mine(w).phase \subseteq {w}
                        /\ Dead(w) \/ left[u] \subseteq {"refused"}
                        /\ Mine(w).status = "running"
  BY <1>1, <1>2, LeftOfLive DEF RunOK, CycleOK, Inside
<1>4. LeftTo(u, left[u]) /\ left'[u] = left[u]
  BY <1>1, <1>2, SameLeftTo
<1>5. CASE Dead(w) \/ ~IsMine(w)
  <2> DEFINE new == [slot[w] EXCEPT !.at = "abort"]
  <2>1. /\ SlotTo(w, new) /\ slot'[w].at = "abort" /\ slot'[w].task = u
        /\ slot'[w].flag = slot[w].flag
    BY <1>2, <1>5, GotoTo DEF Place, CompleteExecute
  <2>2. TaskTo(u, task[u]) /\ task'[u] = task[u]
    BY <1>2, <1>5, SameRowTo DEF CompleteExecute
  <2> HIDE DEF new
  <2>3. SettleMove(w, u) /\ PhaseMove(w, u)
    BY <1>1, <1>4, <2>1, <2>2 DEF SettleMove, PhaseMove, Settles, IsIn, Inside
  <2>4. Len(pool) <= 1 => RunOK(w)'
    BY <1>2, <1>3, <2>1, <2>2 DEF RunOK, At, Mine, Inside
  <2> QED
    BY <1>1, <1>2, <1>3, <1>4, <2>1, <2>2, <2>3, <2>4, GoesOn
<1>6. CASE ~(Dead(w) \/ ~IsMine(w))
  <2>1. PICK place \in {"startVerify", "terminate"} : Goto(w, place)
    BY <1>6 DEF CompleteExecute
  <2> DEFINE new == [slot[w] EXCEPT !.at = place]
             row == Completed(w)
  <2>2. Row(w, row)
    BY <1>6 DEF CompleteExecute
  <2>3. /\ SlotTo(w, new) /\ slot'[w].at = place /\ slot'[w].task = u
        /\ slot'[w].flag = slot[w].flag
    BY <1>2, <2>1, GotoTo DEF Place
  <2>4. /\ row \in TaskRow /\ row.phase = {} /\ row.status = task[u].status
        /\ row.cycle = task[u].cycle
    BY <1>2, <1>6, CompletedRow
  <2> HIDE DEF new, row
  <2>5. TaskTo(u, row) /\ task'[u] = row
    BY <1>2, <2>2, <2>4, RowTo
  <2>6. SettleMove(w, u) /\ PhaseMove(w, u)
    BY <1>1, <1>2, <1>4, <2>3, <2>4, <2>5 DEF SettleMove, PhaseMove, Settles, IsIn, Inside
  <2>7. Len(pool) <= 1 => RunOK(w)'
    BY <1>2, <1>3, <2>3, <2>4, <2>5 DEF RunOK, At, Mine, Inside, CanTerminate
  <2> QED
    BY <1>1, <1>2, <1>3, <1>4, <2>3, <2>4, <2>5, <2>6, <2>7, GoesOn
<1> QED
  BY <1>5, <1>6

LEMMA StartVerifyRuns ==
    ASSUME IInv, NEW w \in Workers, NEW u, slot[w].task = u, StartVerify(w)
    PROVE  Ran(w, u)
<1>1. /\ slot[w].at = "startVerify" /\ slot[w].at # "rest"
      /\ UNCHANGED Outside /\ GivesUpIfDead(w)
  BY DEF StartVerify, At
<1>2. /\ TypeInv /\ u \in Tasks /\ Mine(w) = task[u] /\ Mine(w) \in TaskRow
      /\ left[u] \in SUBSET Reasons
      /\ Len(pool) <= 1 => RunOK(w) /\ CycleOK(u)
  BY <1>1, InRun
<1>3. Len(pool) <= 1 => /\ CanTerminate(Mine(w)) /\ Mine(w).status = "running"
                        /\ Dead(w) \/ left[u] \subseteq {"refused"}
  BY <1>1, <1>2, LeftOfLive DEF RunOK, CycleOK, CanTerminate
<1>4. /\ LeftTo(u, Why(w, u)) /\ left'[u] = Why(w, u) /\ left[u] \subseteq Why(w, u)
      /\ Dead(w) => "startVerify" \in Why(w, u)
      /\ ~Dead(w) => Why(w, u) = left[u]
  BY <1>1, <1>2, GivesUpIfDeadTo
<1>5. ~Settles(w, u) /\ ~IsIn(w, u)
  BY <1>1 DEF Settles, IsIn, Inside
<1>6. CASE Dead(w)
  <2>1. Rest(w) /\ TaskTo(u, task[u]) /\ task'[u] = task[u]
    BY <1>2, <1>6, SameRowTo DEF StartVerify
  <2>2. SettleMove(w, u) /\ PhaseMove(w, u)
    BY <1>4, <1>5, <2>1 DEF SettleMove, PhaseMove
  <2>3. Why(w, u) \cap LeftOpen # {}
    BY <1>4, <1>6 DEF LeftOpen
  <2> QED
    BY <1>1, <1>2, <1>3, <1>4, <1>6, <2>1, <2>2, <2>3, RestRuns
<1>7. CASE ~Dead(w) /\ CanTerminate(Mine(w))
  <2> DEFINE row == [Mine(w) EXCEPT !.phase = {w}]
             new == [slot[w] EXCEPT !.at = "verify"]
  <2>1. Row(w, row) /\ Goto(w, "verify")
    BY <1>7 DEF StartVerify
  <2>2. row \in TaskRow /\ row.phase = {w} /\ row.cycle = "running" /\ row.status = Mine(w).status
    BY <1>2, <1>7, OpenedRow DEF CanTerminate
  <2>3. /\ SlotTo(w, new) /\ slot'[w].at = "verify" /\ slot'[w].task = u
        /\ slot'[w].flag = slot[w].flag
    BY <1>2, <2>1, GotoTo DEF Place
  <2> HIDE DEF row, new
  <2>4. TaskTo(u, row) /\ task'[u] = row
    BY <1>2, <2>1, <2>2, RowTo
  <2>5. SettleMove(w, u) /\ PhaseMove(w, u)
    BY <2>2, <2>3, <2>4 DEF SettleMove, PhaseMove, IsIn, Inside
  <2>6. RunOK(w)'
    BY <2>2, <2>3, <2>4 DEF RunOK, At, Mine, Inside
  <2> QED
    BY <1>1, <1>2, <1>3, <1>4, <1>7, <2>2, <2>3, <2>4, <2>5, <2>6, GoesOn
<1>8. CASE ~Dead(w) /\ ~CanTerminate(Mine(w))
  <2> DEFINE new == [slot[w] EXCEPT !.at = "terminate"]
  <2>1. /\ Goto(w, "terminate") /\ TaskTo(u, task[u]) /\ task'[u] = task[u]
    BY <1>2, <1>8, SameRowTo DEF StartVerify
  <2>2. /\ SlotTo(w, new) /\ slot'[w].at = "terminate" /\ slot'[w].task = u
        /\ slot'[w].flag = slot[w].flag
    BY <1>2, <2>1, GotoTo DEF Place
  <2> HIDE DEF new
  <2>3. SettleMove(w, u) /\ PhaseMove(w, u)
    BY <1>4, <1>5, <2>1 DEF SettleMove, PhaseMove
  <2> QED
    BY <1>1, <1>2, <1>3, <1>4, <1>8, <2>1, <2>2, <2>3, GoesOn
<1> QED
  BY <1>6, <1>7, <1>8

LEMMA VerifyReturnsRuns ==
    ASSUME IInv, NEW w \in Workers, NEW u, slot[w].task = u, VerifyReturns(w)
    PROVE  Ran(w, u)
<1>1. /\ slot[w].at = "verify" /\ slot[w].at # "rest"
      /\ UNCHANGED Outside /\ GivesUpIfDead(w)
  BY DEF VerifyReturns, At
<1>2. /\ TypeInv /\ slot[w] \in SlotRow /\ u \in Tasks /\ Mine(w) = task[u]
      /\ Mine(w) \in TaskRow /\ left[u] \in SUBSET Reasons
      /\ Len(pool) <= 1 => RunOK(w) /\ CycleOK(u)
  BY <1>1, InRun
<1>3. Len(pool) <= 1 => /\ Mine(w).cycle = "running" /\ Mine(w).phase \subseteq {w}
                        /\ Mine(w).status = "running"
                        /\ Dead(w) \/ left[u] \subseteq {"refused"}
  BY <1>1, <1>2, LeftOfLive DEF RunOK, CycleOK, Inside
<1>4. /\ LeftTo(u, Why(w, u)) /\ left'[u] = Why(w, u) /\ left[u] \subseteq Why(w, u)
      /\ Dead(w) => "verify" \in Why(w, u)
      /\ ~Dead(w) => Why(w, u) = left[u]
  BY <1>1, <1>2, GivesUpIfDeadTo
<1>5. ~Settles(w, u)
  BY <1>1 DEF Settles
<1>6. CASE Dead(w)
  <2>1. Rest(w) /\ TaskTo(u, task[u]) /\ task'[u] = task[u]
    BY <1>2, <1>6, SameRowTo DEF VerifyReturns
  <2>2. SettleMove(w, u) /\ PhaseMove(w, u)
    BY <1>4, <1>5, <1>6, <2>1 DEF SettleMove, PhaseMove
  <2>3. Why(w, u) \cap LeftOpen # {}
    BY <1>4, <1>6 DEF LeftOpen
  <2> QED
    BY <1>1, <1>2, <1>3, <1>4, <1>6, <2>1, <2>2, <2>3, RestRuns
<1>7. CASE ~Dead(w)
  <2>1. PICK out \in {"done", "failed"} :
           slot' = [slot EXCEPT ![w].at = "terminate", ![w].out = out]
    BY <1>7 DEF VerifyReturns
  <2> DEFINE row == Completed(w)
             new == [slot[w] EXCEPT !.at = "terminate", !.out = out]
  <2>2. /\ new \in SlotRow /\ new.at = "terminate" /\ new.task = u /\ new.flag = slot[w].flag
    BY <1>2 DEF SlotRow, Place
  <2>3. slot' = [slot EXCEPT ![w] = new] /\ Row(w, row)
    BY <1>7, <2>1 DEF VerifyReturns
  <2>4. /\ row \in TaskRow /\ row.status = task[u].status /\ row.cycle = task[u].cycle
        /\ row.phase = {} \/ (row.phase = task[u].phase /\ w \notin task[u].phase)
        /\ task[u].phase \subseteq {w} => row.phase = {}
    BY <1>2, CompletedRow
  <2> HIDE DEF row, new
  <2>5. /\ SlotTo(w, new) /\ slot'[w] = new /\ slot'[w].at # "rest"
        /\ slot'[w].task = u /\ slot'[w].flag = slot[w].flag
    BY <1>2, <2>2, <2>3 DEF TypeInv, SlotTo
  <2>6. TaskTo(u, row) /\ task'[u] = row
    BY <1>2, <2>3, <2>4, RowTo
  <2>7. SettleMove(w, u) /\ PhaseMove(w, u)
    BY <1>4, <1>5, <2>4, <2>6 DEF SettleMove, PhaseMove
  <2>8. Len(pool) <= 1 => RunOK(w)'
    BY <1>2, <1>3, <2>2, <2>4, <2>5, <2>6 DEF RunOK, At, Mine, Inside, CanTerminate
  <2> QED
    BY <1>1, <1>2, <1>3, <1>4, <1>7, <2>4, <2>5, <2>6, <2>7, <2>8, GoesOn
<1> QED
  BY <1>6, <1>7

LEMMA TerminateRuns ==
    ASSUME IInv, NEW w \in Workers, NEW u, slot[w].task = u, Terminate(w)
    PROVE  Ran(w, u)
<1>1. /\ slot[w].at = "terminate" /\ slot[w].at # "rest"
      /\ UNCHANGED Outside /\ GivesUpIfDead(w)
  BY DEF Terminate, At
<1>2. /\ TypeInv /\ u \in Tasks /\ Mine(w) = task[u] /\ Mine(w) \in TaskRow
      /\ left[u] \in SUBSET Reasons
      /\ Len(pool) <= 1 => RunOK(w) /\ CycleOK(u)
  BY <1>1, InRun
<1>3. Len(pool) <= 1 => /\ CanTerminate(Mine(w)) /\ Mine(w).status = "running"
                        /\ Dead(w) \/ left[u] \subseteq {"refused"}
  BY <1>1, <1>2, LeftOfLive DEF RunOK, CycleOK, CanTerminate
<1>4. /\ LeftTo(u, Why(w, u)) /\ left'[u] = Why(w, u) /\ left[u] \subseteq Why(w, u)
      /\ Dead(w) => "terminate" \in Why(w, u)
      /\ ~Dead(w) => Why(w, u) = left[u]
  BY <1>1, <1>2, GivesUpIfDeadTo
<1>5. ~Settles(w, u) /\ ~IsIn(w, u)
  BY <1>1 DEF Settles, IsIn, Inside
<1>6. CASE Dead(w) \/ ~CanTerminate(Mine(w))
  <2>1. Rest(w) /\ TaskTo(u, task[u]) /\ task'[u] = task[u]
    BY <1>2, <1>6, SameRowTo DEF Terminate
  <2>2. SettleMove(w, u) /\ PhaseMove(w, u)
    BY <1>4, <1>5, <2>1 DEF SettleMove, PhaseMove
  <2>3. Len(pool) <= 1 => Dead(w) /\ Why(w, u) \cap LeftOpen # {}
    BY <1>3, <1>4, <1>6 DEF LeftOpen
  <2> QED
    BY <1>1, <1>2, <1>3, <1>4, <2>1, <2>2, <2>3, RestRuns
<1>7. CASE ~(Dead(w) \/ ~CanTerminate(Mine(w)))
  <2> DEFINE row == Terminated(Mine(w))
             new == [slot[w] EXCEPT !.at = "settle"]
  <2>1. Row(w, row) /\ Goto(w, "settle")
    BY <1>7 DEF Terminate
  <2>2. row \in TaskRow /\ row.phase = task[u].phase /\ row.cycle = "closed"
    BY <1>2, <1>7, TerminatedRow
  <2>3. /\ SlotTo(w, new) /\ slot'[w].at = "settle" /\ slot'[w].task = u
        /\ slot'[w].flag = slot[w].flag
    BY <1>2, <2>1, GotoTo DEF Place
  <2> HIDE DEF row, new
  <2>4. TaskTo(u, row) /\ task'[u] = row
    BY <1>2, <2>1, <2>2, RowTo
  <2>5. SettleMove(w, u) /\ PhaseMove(w, u)
    BY <1>4, <1>5, <2>2, <2>3, <2>4 DEF SettleMove, PhaseMove, Settles
  <2>6. RunOK(w)'
    BY <2>2, <2>3, <2>4 DEF RunOK, At, Mine, Inside
  <2> QED
    BY <1>1, <1>2, <1>3, <1>4, <1>7, <2>2, <2>3, <2>4, <2>5, <2>6, GoesOn
<1> QED
  BY <1>6, <1>7

LEMMA SettleRuns ==
    ASSUME IInv, NEW w \in Workers, NEW u, slot[w].task = u, Settle(w)
    PROVE  Ran(w, u)
<1>1. slot[w].at = "settle" /\ slot[w].at # "rest" /\ UNCHANGED Outside /\ Rest(w)
  BY DEF Settle, At
<1>2. /\ TypeInv /\ slot[w] \in SlotRow /\ u \in Tasks /\ Mine(w) = task[u]
      /\ Mine(w) \in TaskRow /\ left[u] \in SUBSET Reasons
      /\ Len(pool) <= 1 => RunOK(w)
  BY <1>1, InRun
<1>3. Len(pool) <= 1 => /\ Mine(w).cycle = "closed"
                        /\ Dead(w) \/ left[u] \subseteq {"refused"}
  BY <1>1, <1>2, LeftOfLive DEF RunOK, At
<1>4. ~IsIn(w, u)
  BY <1>1 DEF IsIn, Inside
<1>5. CASE /\ ~Dead(w) /\ Row(w, [Mine(w) EXCEPT !.status = slot[w].out])
           /\ UNCHANGED left
  <2> DEFINE row == [Mine(w) EXCEPT !.status = slot[w].out]
  <2>1. /\ row \in TaskRow /\ row.status # "running" /\ row.cycle = Mine(w).cycle
        /\ row.phase = task[u].phase
    BY <1>2 DEF TaskRow, SlotRow
  <2>2. Row(w, row)
    BY <1>5
  <2> HIDE DEF row
  <2>3. TaskTo(u, row) /\ task'[u] = row /\ LeftTo(u, left[u]) /\ left'[u] = left[u]
    BY <1>2, <1>5, <2>1, <2>2, RowTo, SameLeftTo
  <2>4. SettleMove(w, u) /\ PhaseMove(w, u)
    BY <1>4, <2>1, <2>3 DEF SettleMove, PhaseMove
  <2> QED
    BY <1>1, <1>2, <1>3, <2>1, <2>3, <2>4, RestRuns
<1>6. ASSUME NEW why \in {"refused", "settle"}, UNCHANGED task, GivesUp(w, why),
             Dead(w) \/ why = "refused"
      PROVE  Ran(w, u)
  <2>0. why \in Reasons
    BY DEF Reasons, Place
  <2>1. TaskTo(u, task[u]) /\ task'[u] = task[u]
    BY <1>2, <1>6, SameRowTo
  <2>2. /\ LeftTo(u, left[u] \cup {why}) /\ left'[u] = left[u] \cup {why}
    BY <1>2, <1>6, <2>0, GivesUpTo
  <2>3. SettleMove(w, u) /\ PhaseMove(w, u)
    BY <1>4, <2>1, <2>2 DEF SettleMove, PhaseMove, NeverListed
  <2> QED
    BY <1>1, <1>2, <1>3, <1>6, <2>1, <2>2, <2>3, RestRuns
<1> QED
  BY <1>5, <1>6 DEF Settle

LEMMA AbortRuns ==
    ASSUME IInv, NEW w \in Workers, NEW u, slot[w].task = u, Abort(w)
    PROVE  Ran(w, u)
<1>1. /\ slot[w].at = "abort" /\ slot[w].at # "rest" /\ UNCHANGED Outside /\ Rest(w)
      /\ GivesUpIfDead(w)
  BY DEF Abort, At
<1>2. /\ TypeInv /\ u \in Tasks /\ Mine(w) = task[u] /\ Mine(w) \in TaskRow
      /\ left[u] \in SUBSET Reasons
      /\ Len(pool) <= 1 => RunOK(w) /\ CycleOK(u)
  BY <1>1, InRun
<1>3. Len(pool) <= 1 => /\ Mine(w).cycle = "running" /\ Mine(w).phase \subseteq {w}
                        /\ Mine(w).status = "running"
                        /\ Dead(w) \/ left[u] \subseteq {"refused"}
  BY <1>1, <1>2, LeftOfLive DEF RunOK, CycleOK, Inside
<1>4. /\ LeftTo(u, Why(w, u)) /\ left'[u] = Why(w, u) /\ left[u] \subseteq Why(w, u)
      /\ Dead(w) => "abort" \in Why(w, u)
      /\ ~Dead(w) => Why(w, u) = left[u]
  BY <1>1, <1>2, GivesUpIfDeadTo
<1>5. CASE Dead(w)
  <2>1. TaskTo(u, task[u]) /\ task'[u] = task[u] /\ ~Settles(w, u)
    BY <1>1, <1>2, <1>5, SameRowTo DEF Abort, Settles
  <2>2. SettleMove(w, u) /\ PhaseMove(w, u)
    BY <1>4, <1>5, <2>1 DEF SettleMove, PhaseMove
  <2>3. Why(w, u) \cap LeftOpen # {}
    BY <1>4, <1>5 DEF LeftOpen
  <2> QED
    BY <1>1, <1>2, <1>3, <1>4, <1>5, <2>1, <2>2, <2>3, RestRuns
<1>6. CASE ~Dead(w)
  <2> DEFINE closed == Completed(w)
             ended == Terminated(closed)
             row == [ended EXCEPT !.status = "failed"]
  <2>1. /\ closed \in TaskRow /\ closed.cycle = task[u].cycle
        /\ closed.phase = {} \/ (closed.phase = task[u].phase /\ w \notin task[u].phase)
        /\ task[u].phase \subseteq {w} => closed.phase = {}
    BY <1>2, CompletedRow
  <2>2. Row(w, row)
    BY <1>6 DEF Abort
  <2> HIDE DEF closed
  <2>3. /\ ended \in TaskRow /\ ended.phase = closed.phase
        /\ CanTerminate(closed) => ended.cycle = "closed"
    BY <2>1, TerminatedRow
  <2> HIDE DEF ended
  <2>4. /\ row \in TaskRow /\ row.status = "failed" /\ row.cycle = ended.cycle
        /\ row.phase = ended.phase
    BY <2>3 DEF TaskRow
  <2> HIDE DEF row
  <2>5. TaskTo(u, row) /\ task'[u] = row
    BY <1>2, <2>2, <2>4, RowTo
  <2>6. SettleMove(w, u) /\ PhaseMove(w, u)
    BY <1>4, <2>1, <2>3, <2>4, <2>5 DEF SettleMove, PhaseMove
  <2>7. Len(pool) <= 1 => row.cycle = "closed"
    BY <1>2, <1>3, <2>1, <2>3, <2>4 DEF CanTerminate
  <2> QED
    BY <1>1, <1>2, <1>3, <1>4, <1>6, <2>5, <2>6, <2>7, RestRuns
<1> QED
  BY <1>5, <1>6

LEMMA ShutdownPhaseRuns ==
    ASSUME IInv, NEW w \in Workers, NEW u, slot[w].task = u, ShutdownPhase(w)
    PROVE  Ran(w, u)
<1> DEFINE row == Completed(w)
           new == [slot[w] EXCEPT !.at = "sdCycle"]
<1>1. /\ slot[w].at = "sdPhase" /\ slot[w].at # "rest" /\ UNCHANGED Outside /\ UNCHANGED left
      /\ Goto(w, "sdCycle") /\ Row(w, row)
  BY DEF ShutdownPhase, At
<1>2. /\ TypeInv /\ u \in Tasks /\ Mine(w) = task[u] /\ Mine(w) \in TaskRow
      /\ left[u] \in SUBSET Reasons
      /\ Len(pool) <= 1 => RunOK(w) /\ CycleOK(u)
  BY <1>1, InRun
<1>3. Len(pool) <= 1 => /\ Mine(w).cycle = "running" /\ Mine(w).phase \subseteq {w}
                        /\ Mine(w).status = "running"
                        /\ Dead(w) \/ left[u] \subseteq {"refused"}
  BY <1>1, <1>2, LeftOfLive DEF RunOK, CycleOK, Inside
<1>4. LeftTo(u, left[u]) /\ left'[u] = left[u]
  BY <1>1, <1>2, SameLeftTo
<1>5. /\ row \in TaskRow /\ row.status = task[u].status /\ row.cycle = task[u].cycle
      /\ row.phase = {} \/ (row.phase = task[u].phase /\ w \notin task[u].phase)
      /\ task[u].phase \subseteq {w} => row.phase = {}
  BY <1>2, CompletedRow
<1>6. /\ SlotTo(w, new) /\ slot'[w].at = "sdCycle" /\ slot'[w].task = u
      /\ slot'[w].flag = slot[w].flag
  BY <1>1, <1>2, GotoTo DEF Place
<1> HIDE DEF row, new
<1>7. TaskTo(u, row) /\ task'[u] = row
  BY <1>1, <1>2, <1>5, RowTo
<1>8. SettleMove(w, u) /\ PhaseMove(w, u)
  BY <1>1, <1>4, <1>5, <1>7 DEF SettleMove, PhaseMove, Settles
<1>9. Len(pool) <= 1 => RunOK(w)'
  BY <1>2, <1>3, <1>5, <1>6, <1>7 DEF RunOK, At, Mine, Inside, CanTerminate
<1> QED
  BY <1>1, <1>2, <1>3, <1>4, <1>5, <1>6, <1>7, <1>8, <1>9, GoesOn

LEMMA ShutdownCycleRuns ==
    ASSUME IInv, NEW w \in Workers, NEW u, slot[w].task = u, ShutdownCycle(w)
    PROVE  Ran(w, u)
<1> DEFINE row == Terminated(Mine(w))
           new == [slot[w] EXCEPT !.at = "sdTask"]
<1>1. /\ slot[w].at = "sdCycle" /\ slot[w].at # "rest" /\ UNCHANGED Outside /\ UNCHANGED left
      /\ Goto(w, "sdTask") /\ Row(w, row)
  BY DEF ShutdownCycle, At
<1>2. /\ TypeInv /\ u \in Tasks /\ Mine(w) = task[u] /\ Mine(w) \in TaskRow
      /\ left[u] \in SUBSET Reasons
      /\ Len(pool) <= 1 => RunOK(w)
  BY <1>1, InRun
<1>3. Len(pool) <= 1 => /\ CanTerminate(Mine(w))
                        /\ Dead(w) \/ left[u] \subseteq {"refused"}
  BY <1>1, <1>2, LeftOfLive DEF RunOK
<1>4. LeftTo(u, left[u]) /\ left'[u] = left[u]
  BY <1>1, <1>2, SameLeftTo
<1>5. /\ row \in TaskRow /\ row.phase = task[u].phase
      /\ CanTerminate(Mine(w)) => row.cycle = "closed"
  BY <1>2, TerminatedRow
<1>6. /\ SlotTo(w, new) /\ slot'[w].at = "sdTask" /\ slot'[w].task = u
      /\ slot'[w].flag = slot[w].flag
  BY <1>1, <1>2, GotoTo DEF Place
<1> HIDE DEF row, new
<1>7. TaskTo(u, row) /\ task'[u] = row
  BY <1>1, <1>2, <1>5, RowTo
<1>8. SettleMove(w, u) /\ PhaseMove(w, u)
  BY <1>1, <1>4, <1>5, <1>6, <1>7 DEF SettleMove, PhaseMove, Settles, IsIn, Inside
<1>9. Len(pool) <= 1 => RunOK(w)'
  BY <1>3, <1>5, <1>6, <1>7 DEF RunOK, At, Mine, Inside
<1> QED
  BY <1>1, <1>2, <1>3, <1>4, <1>5, <1>6, <1>7, <1>8, <1>9, GoesOn

LEMMA ShutdownTaskRuns ==
    ASSUME IInv, NEW w \in Workers, NEW u, slot[w].task = u, ShutdownTask(w)
    PROVE  Ran(w, u)
<1> DEFINE row == [Mine(w) EXCEPT !.status = "failed"]
<1>1. /\ slot[w].at = "sdTask" /\ slot[w].at # "rest" /\ UNCHANGED Outside /\ UNCHANGED left
      /\ Rest(w) /\ Row(w, row)
  BY DEF ShutdownTask, At
<1>2. /\ TypeInv /\ u \in Tasks /\ Mine(w) = task[u] /\ Mine(w) \in TaskRow
      /\ left[u] \in SUBSET Reasons
      /\ Len(pool) <= 1 => RunOK(w)
  BY <1>1, InRun
<1>3. Len(pool) <= 1 => /\ Mine(w).cycle = "closed"
                        /\ Dead(w) \/ left[u] \subseteq {"refused"}
  BY <1>1, <1>2, LeftOfLive DEF RunOK
<1>4. LeftTo(u, left[u]) /\ left'[u] = left[u]
  BY <1>1, <1>2, SameLeftTo
<1>5. /\ row \in TaskRow /\ row.status = "failed" /\ row.cycle = task[u].cycle
      /\ row.phase = task[u].phase
  BY <1>2 DEF TaskRow
<1> HIDE DEF row
<1>6. TaskTo(u, row) /\ task'[u] = row
  BY <1>1, <1>2, <1>5, RowTo
<1>7. SettleMove(w, u) /\ PhaseMove(w, u)
  BY <1>1, <1>4, <1>5, <1>6 DEF SettleMove, PhaseMove, IsIn, Inside
<1> QED
  BY <1>1, <1>2, <1>3, <1>4, <1>5, <1>6, <1>7, RestRuns

LEMMA RunSteps ==
    ASSUME IInv, NEW i \in DOMAIN pool, NEW s \in Slots, RunStep(<<i, s>>)
    PROVE  /\ <<i, s>> \in Workers /\ \E u \in Tasks : Ran(<<i, s>>, u)
<1> DEFINE w == <<i, s>>
<1>1. w \in Workers /\ w[1] = i /\ w[2] = s
  BY Pools DEF Workers, IInv
<1> HIDE DEF w
<1>2. ASSUME NEW t \in Tasks, Take(w, t) PROVE \E u \in Tasks : Ran(w, u)
  <2>1. w[1] \in DOMAIN pool /\ w[2] \in Slots
    BY <1>1
  <2>2. Ran(w, t)
    BY <1>1, <1>2, <2>1, TakeRuns
  <2> QED
    BY <2>2
<1>3. ASSUME ~\E t \in Tasks : Take(w, t) PROVE \E u \in Tasks : Ran(w, u)
  <2>1. PICK u : slot[w].task = u
    OBVIOUS
  <2>2. RunStep(w)
    BY DEF w
  <2>3. Ran(w, u)
    BY <1>1, <1>3, <2>1, <2>2, BeginRuns, ResumeRuns, InvokeRunnerRuns, ExecuteReturnsRuns,
       CompleteExecuteRuns, StartVerifyRuns, VerifyReturnsRuns, TerminateRuns, SettleRuns,
       AbortRuns, ShutdownPhaseRuns, ShutdownCycleRuns, ShutdownTaskRuns DEF RunStep
  <2>4. u \in Tasks
    BY <2>3 DEF Ran, RunMove
  <2> QED
    BY <2>3, <2>4
<1> QED
  BY <1>1, <1>2, <1>3 DEF w

-----------------------------------------------------------------------------
(* What a step of a run does keeps the invariant.                            *)

LEMMA RanTypeInv ==
    ASSUME IInv, NEW w \in Workers, NEW u, Ran(w, u)
    PROVE  TypeInv'
<1>1. w[2] \in Slots /\ TypeInv /\ RunMove(w, u) /\ FlagMove(w)
  BY DEF Workers, IInv, Ran
<1>2. cut \in [Slots -> Nat] /\ cut[w[2]] + 1 \in Nat
  BY <1>1 DEF TypeInv
<1>3. cut' = cut \/ cut' = [cut EXCEPT ![w[2]] = cut[w[2]] + 1]
  BY <1>1 DEF FlagMove
<1>4. cut' \in [Slots -> Nat]
  BY <1>2, <1>3
<1> QED
  BY <1>1, <1>4 DEF TypeInv, RunMove, calls, sup

LEMMA FlagsFinite ==
    ASSUME TypeInv, NEW s \in Slots
    PROVE  /\ IsFiniteSet(Flags(s)) /\ Cardinality(Flags(s)) \in Nat
           /\ cut[s] \in Nat /\ cancels \in Nat /\ Due(s) \in {0, 1}
<1>1. IsFiniteSet(1..MaxPools) /\ Flags(s) \subseteq 1..MaxPools
  BY Pools, FS_Interval DEF Flags
<1>2. IsFiniteSet(Flags(s))
  BY <1>1, FS_Subset
<1> QED
  BY <1>2, FS_CardinalityType DEF TypeInv, Due

LEMMA RanCancelInv ==
    ASSUME IInv, NEW w \in Workers, NEW u, Ran(w, u)
    PROVE  CancelInv'
<1>1. /\ TypeInv /\ CancelInv /\ RunMove(w, u) /\ FlagMove(w)
      /\ w[1] \in 1..MaxPools /\ w[2] \in Slots /\ w = <<w[1], w[2]>>
      /\ UNCHANGED <<pool, cancel, cancels>>
  BY DEF IInv, Ran, Workers, RunMove
<1>2. ASSUME NEW s \in Slots PROVE (cut[s] + Cardinality(Flags(s)) + Due(s) <= cancels)'
  <2>1. /\ IsFiniteSet(Flags(s)) /\ Cardinality(Flags(s)) \in Nat
        /\ cut[s] \in Nat /\ cancels \in Nat /\ Due(s) \in {0, 1} /\ Due(s)' = Due(s)
        /\ cut[s] + Cardinality(Flags(s)) + Due(s) <= cancels
    BY <1>1, FlagsFinite DEF CancelInv, Due
  <2>2. ASSUME NEW i \in 1..MaxPools, <<i, s>> # w
        PROVE  slot'[<<i, s>>] = slot[<<i, s>>]
    BY <1>1, <2>2 DEF RunMove, Workers
  <2>3. CASE s # w[2]
    <3>1. Flags(s)' = Flags(s)
      BY <2>2, <2>3 DEF Flags
    <3>2. cut'[s] = cut[s]
      BY <1>1, <2>3 DEF FlagMove, TypeInv
    <3> QED
      BY <1>1, <2>1, <3>1, <3>2
  <2>4. CASE s = w[2] /\ cut' = cut /\ (slot'[w].flag => slot[w].flag)
    <3>1. Flags(s)' \subseteq Flags(s)
      BY <1>1, <2>2, <2>4 DEF Flags
    <3>2. Cardinality(Flags(s)') <= Cardinality(Flags(s)) /\ Cardinality(Flags(s)') \in Nat
      BY <2>1, <3>1, FS_Subset, FS_CardinalityType
    <3> QED
      BY <1>1, <2>1, <2>4, <3>2
  <2>5. CASE /\ s = w[2] /\ cut' = [cut EXCEPT ![w[2]] = @ + 1]
             /\ slot[w].flag /\ ~slot'[w].flag
    <3>1. w[1] \in Flags(s) /\ Flags(s)' = Flags(s) \ {w[1]}
      BY <1>1, <2>2, <2>5 DEF Flags
    <3>2. Cardinality(Flags(s)') = Cardinality(Flags(s)) - 1
      BY <2>1, <3>1, FS_RemoveElement
    <3>3. cut'[s] = cut[s] + 1
      BY <1>1, <2>5 DEF TypeInv
    <3> QED
      BY <1>1, <2>1, <3>2, <3>3
  <2> QED
    BY <1>1, <2>3, <2>4, <2>5 DEF FlagMove
<1> QED
  BY <1>1, <1>2 DEF CancelInv

LEMMA RanRunInv ==
    ASSUME IInv, NEW w \in Workers, NEW u, Ran(w, u)
    PROVE  RunInv'
<1>1. /\ TypeInv /\ SlotsOK /\ SettledInv /\ PhaseInv /\ FirstPoolInv
      /\ RunMove(w, u) /\ SlotMove(w, u) /\ SettleMove(w, u) /\ PhaseMove(w, u)
      /\ FirstPoolMove(w, u) /\ u \in Tasks /\ u # NoTask /\ UNCHANGED pool
  BY NamesAssumption DEF IInv, RunInv, Ran, RunMove
<1>2. /\ slot[w].task \in {u, NoTask} /\ slot'[w].task \in {u, NoTask}
      /\ slot[w].at # "rest" => slot[w].task = u
  BY <1>1 DEF SlotMove
<1>3. \A v \in Workers : v # w => slot'[v] = slot[v]
  BY <1>1 DEF RunMove
<1>4. \A t \in Tasks : t # u => task'[t] = task[t] /\ left'[t] = left[t] /\ slot[w].task # t
  BY <1>1, <1>2, NamesAssumption DEF RunMove
<1>5. SlotsOK'
  <2>1. ASSUME NEW v \in Workers
        PROVE  (IF slot[v].at = "rest" THEN slot[v].task = NoTask
                ELSE slot[v].task \in Tasks /\ v[1] \in DOMAIN pool)'
    BY <1>1, <1>3 DEF SlotsOK, SlotMove
  <2>2. ASSUME NEW v \in Workers, NEW x \in Workers, v[1] = x[1],
               slot'[v].task = slot'[x].task, v # x
        PROVE  slot'[x].task = NoTask
    <3>1. CASE v = w
      <4>1. slot[x].task # u /\ slot'[x] = slot[x]
        BY <1>1, <1>3, <2>2, <3>1 DEF SlotMove
      <4> QED
        BY <1>2, <2>2, <3>1, <4>1
    <3>2. CASE x = w
      <4>1. slot[v].task # u /\ slot'[v] = slot[v]
        BY <1>1, <1>3, <2>2, <3>2 DEF SlotMove
      <4> QED
        BY <1>2, <2>2, <3>2, <4>1
    <3>3. CASE v # w /\ x # w
      BY <1>1, <1>3, <2>2, <3>3 DEF SlotsOK
    <3> QED
      BY <3>1, <3>2, <3>3
  <2> QED
    BY <2>1, <2>2 DEF SlotsOK
<1>6. SettledInv'
  <2> SUFFICES ASSUME NEW t \in Tasks, task'[t].status = "running", task'[t].cycle # "running",
                      left'[t] \cap NeverListed = {}
               PROVE  \E v \in Workers : Settles(v, t)'
    BY DEF SettledInv
  <2>1. \A v \in Workers : v # w /\ Settles(v, t) => Settles(v, t)'
    BY <1>3 DEF Settles
  <2>2. CASE t # u
    <3>1. \E v \in Workers : Settles(v, t)
      BY <1>1, <1>4, <2>2 DEF SettledInv
    <3>2. ~Settles(w, t)
      BY <1>4, <2>2 DEF Settles
    <3> QED
      BY <2>1, <3>1, <3>2
  <2>3. CASE t = u
    <3>1. CASE Settles(w, u)'
      BY <2>3, <3>1
    <3>2. CASE /\ ~Settles(w, u) /\ left[u] \subseteq left'[u]
               /\ task'[u].status = task[u].status /\ task'[u].cycle = task[u].cycle
      <4>1. left[u] \cap NeverListed = {}
        BY <2>3, <3>2
      <4>2. \E v \in Workers : Settles(v, t)
        BY <1>1, <2>3, <3>2, <4>1 DEF SettledInv
      <4> QED
        BY <2>1, <2>3, <3>2, <4>2
    <3> QED
      BY <1>1, <2>3, <3>1, <3>2 DEF SettleMove
  <2> QED
    BY <2>2, <2>3
<1>7. PhaseInv'
  <2> SUFFICES ASSUME NEW t \in Tasks, task'[t].phase # {}, left'[t] \cap {"verify", "abort"} = {}
               PROVE  \E v \in task'[t].phase : IsIn(v, t)'
    BY DEF PhaseInv
  <2>1. \A v \in Workers : v # w /\ IsIn(v, t) => IsIn(v, t)'
    BY <1>3 DEF IsIn
  <2>2. task[t].phase \subseteq Workers
    BY <1>1 DEF TypeInv, TaskRow
  <2>3. CASE t # u
    <3>1. PICK v \in task[t].phase : IsIn(v, t)
      BY <1>1, <1>4, <2>3 DEF PhaseInv
    <3>2. ~IsIn(w, t)
      BY <1>4, <2>3 DEF IsIn
    <3> QED
      BY <1>4, <2>1, <2>2, <2>3, <3>1, <3>2
  <2>4. CASE t = u
    <3>1. CASE w \in task'[u].phase /\ IsIn(w, u)'
      BY <2>4, <3>1
    <3>2. CASE /\ task'[u].phase = task[u].phase /\ left[u] \subseteq left'[u]
               /\ ~(w \in task[u].phase /\ IsIn(w, u))
      <4>1. left[u] \cap {"verify", "abort"} = {}
        BY <2>4, <3>2
      <4>2. PICK v \in task[u].phase : IsIn(v, u)
        BY <1>1, <2>4, <3>2, <4>1 DEF PhaseInv
      <4> QED
        BY <2>1, <2>2, <2>4, <3>2, <4>2
    <3> QED
      BY <1>1, <2>4, <3>1, <3>2 DEF PhaseMove
  <2> QED
    BY <2>3, <2>4
<1>8. FirstPoolInv'
  <2> SUFFICES ASSUME Len(pool) <= 1
               PROVE  (\A v \in Workers : RunOK(v)') /\ (\A t \in Tasks : CycleOK(t)')
    BY <1>1 DEF FirstPoolInv
  <2>1. RunOK(w)' /\ CycleOK(u)'
    BY <1>1 DEF FirstPoolMove
  <2>2. ASSUME NEW v \in Workers, v # w PROVE RunOK(v)'
    <3>1. RunOK(v) /\ slot'[v] = slot[v]
      BY <1>1, <1>3, <2>2 DEF FirstPoolInv
    <3>2. CASE slot[v].at = "rest"
      BY <3>1, <3>2 DEF RunOK, At, Inside
    <3>3. CASE slot[v].at # "rest"
      <4>1. v[1] \in DOMAIN pool /\ slot[v].task \in Tasks
        BY <1>1, <3>3 DEF SlotsOK
      <4>2. v[1] = w[1]
        BY <1>1, <4>1, Pools DEF SlotMove
      <4>3. slot[v].task # u
        BY <1>1, <2>2, <4>2 DEF SlotMove
      <4>4. task'[slot[v].task] = task[slot[v].task]
        BY <1>4, <4>1, <4>3
      <4> QED
        BY <3>1, <4>4 DEF RunOK, At, Mine, CanTerminate
    <3> QED
      BY <3>2, <3>3
  <2>3. ASSUME NEW t \in Tasks, t # u PROVE CycleOK(t)'
    <3>1. CycleOK(t) /\ task'[t] = task[t] /\ left'[t] = left[t] /\ slot[w].task # t
      BY <1>1, <1>4, <2>3 DEF FirstPoolInv
    <3> QED
      BY <1>1, <1>3, <3>1 DEF CycleOK
  <2> QED
    BY <2>1, <2>2, <2>3
<1> QED
  BY <1>5, <1>6, <1>7, <1>8 DEF RunInv

-----------------------------------------------------------------------------
(* Steps that leave runs alone: a pool changes by its state only, a slot by  *)
(* its flag, a task by the sweep or a retry.                                 *)

PoolsStay ==
    /\ pool' \in Seq(PoolRow) /\ Len(pool') = Len(pool) /\ DOMAIN pool' = DOMAIN pool
    /\ \A j \in DOMAIN pool : /\ pool'[j].cfg = pool[j].cfg
                              /\ pool'[j].state = "live" => pool[j].state = "live"

LEMMA SamePools ==
    ASSUME TypeInv, UNCHANGED pool
    PROVE  PoolsStay
  BY DEF TypeInv, PoolsStay

LEMMA EndedPools ==
    ASSUME TypeInv, NEW i \in DOMAIN pool, NEW state \in {"cancelled", "exited"},
           pool' = [pool EXCEPT ![i].state = state]
    PROVE  PoolsStay /\ pool'[i].state # "live"
<1> DEFINE new == [pool[i] EXCEPT !.state = state]
<1>1. pool' = [pool EXCEPT ![i] = new] /\ pool[i] \in PoolRow
  BY Pools
<1>2. new \in PoolRow /\ new.state = state /\ new.cfg = pool[i].cfg
  BY <1>1 DEF PoolRow
<1> HIDE DEF new
<1> QED
  BY <1>1, <1>2, PoolBecomes DEF PoolsStay

LEMMA CancelledPools ==
    ASSUME TypeInv, NEW i \in 0..Len(pool), pool' = Cancelled(i)
    PROVE  PoolsStay /\ (i # None => pool'[i].state # "live")
<1>1. CASE i # None /\ pool[i].state = "live"
  <2>1. i \in DOMAIN pool /\ pool' = [pool EXCEPT ![i].state = "cancelled"]
    BY <1>1, Pools DEF None, Cancelled
  <2> QED
    BY <2>1, EndedPools
<1>2. CASE ~(i # None /\ pool[i].state = "live")
  BY <1>2, SamePools DEF Cancelled
<1> QED
  BY <1>1, <1>2

SlotsStay ==
    /\ slot' \in [Workers -> SlotRow]
    /\ \A w \in Workers : slot'[w].at = slot[w].at /\ slot'[w].task = slot[w].task

TasksStay ==
    /\ task' \in [Tasks -> TaskRow]
    /\ \A t \in Tasks :
          /\ \/ task'[t].status = task[t].status
             \/ task[t].status = "failed" /\ task'[t].status = "ready" /\ task[t].cycle = "closed"
          /\ task'[t].cycle = task[t].cycle
          /\ task'[t].phase \in {task[t].phase, {}}

LEMMA SameRuns ==
    ASSUME TypeInv, UNCHANGED runs
    PROVE  SlotsStay /\ TasksStay
  BY DEF TypeInv, SlotsStay, TasksStay, runs

LEMMA StaySlotsInv ==
    ASSUME IInv, DOMAIN pool \subseteq DOMAIN pool', SlotsStay, TasksStay, UNCHANGED left
    PROVE  SlotsOK' /\ SettledInv' /\ PhaseInv'
<1>1. SlotsOK /\ SettledInv /\ PhaseInv /\ TypeInv
  BY DEF IInv, RunInv
<1>2. SlotsOK'
  BY <1>1 DEF SlotsOK, SlotsStay
<1>3. ASSUME NEW t \in Tasks, task'[t].status = "running", task'[t].cycle # "running",
             left'[t] \cap NeverListed = {}
      PROVE  \E w \in Workers : Settles(w, t)'
  <2>1. \E w \in Workers : Settles(w, t)
    BY <1>1, <1>3 DEF SettledInv, TasksStay
  <2> QED
    BY <2>1 DEF Settles, SlotsStay
<1>4. ASSUME NEW t \in Tasks, task'[t].phase # {}, left'[t] \cap {"verify", "abort"} = {}
      PROVE  \E w \in task'[t].phase : IsIn(w, t)'
  <2>1. task'[t].phase = task[t].phase /\ task[t].phase \subseteq Workers
    BY <1>1, <1>4 DEF TasksStay, TypeInv, TaskRow
  <2>2. PICK w \in task[t].phase : IsIn(w, t)
    BY <1>1, <1>4, <2>1 DEF PhaseInv
  <2> QED
    BY <2>1, <2>2 DEF IsIn, SlotsStay
<1> QED
  BY <1>2, <1>3, <1>4 DEF SettledInv, PhaseInv

LEMMA StayRunInv ==
    ASSUME IInv, PoolsStay, SlotsStay, TasksStay, UNCHANGED left
    PROVE  RunInv'
<1>1. SlotsOK /\ FirstPoolInv
  BY DEF IInv, RunInv
<1>2. SlotsOK' /\ SettledInv' /\ PhaseInv'
  BY StaySlotsInv DEF PoolsStay
<1>3. ASSUME Len(pool') <= 1, NEW w \in Workers PROVE RunOK(w)'
  <2>1. RunOK(w) /\ slot'[w].at = slot[w].at /\ slot'[w].task = slot[w].task
    BY <1>1, <1>3 DEF FirstPoolInv, PoolsStay, SlotsStay
  <2>2. CASE slot[w].at = "rest"
    BY <2>1, <2>2 DEF RunOK, At, Inside
  <2>3. CASE slot[w].at # "rest"
    <3> DEFINE t == slot[w].task
    <3>1. t \in Tasks
      BY <1>1, <2>3 DEF SlotsOK
    <3>2. /\ task'[t].status = task[t].status \/ task[t].status = "failed"
          /\ task'[t].cycle = task[t].cycle /\ task'[t].phase \in {task[t].phase, {}}
      BY <3>1 DEF TasksStay
    <3> QED
      BY <2>1, <3>2 DEF RunOK, At, Mine, CanTerminate
  <2> QED
    BY <2>2, <2>3
<1>4. ASSUME Len(pool') <= 1, NEW t \in Tasks PROVE CycleOK(t)'
  <2>1. CycleOK(t)
    BY <1>1, <1>4 DEF FirstPoolInv, PoolsStay
  <2>2. (\A i \in DOMAIN pool' : pool'[i].state = "live") =>
            \A i \in DOMAIN pool : pool[i].state = "live"
    BY DEF PoolsStay
  <2> QED
    BY <2>1, <2>2 DEF CycleOK, TasksStay, SlotsStay
<1> QED
  BY <1>2, <1>3, <1>4 DEF RunInv, FirstPoolInv

LEMMA StayCancelInv ==
    ASSUME IInv, DOMAIN pool \subseteq DOMAIN pool', UNCHANGED <<slot, cancel, cancels, cut>>
    PROVE  CancelInv'
<1>1. CancelInv /\ \A s \in Slots : Flags(s)' = Flags(s) /\ Due(s)' = Due(s)
  BY DEF IInv, Flags, Due
<1> QED
  BY <1>1 DEF CancelInv

\* Ownership when no caller and no drain moves.
LEMMA StayOwnerInv ==
    ASSUME IInv, PoolsStay, UNCHANGED <<calls, sup>>
    PROVE  OwnerInv'
<1>1. /\ TypeInv /\ OwnerInv /\ Len(pool') = Len(pool) /\ DOMAIN pool' = DOMAIN pool
      /\ \A j \in DOMAIN pool : pool'[j].cfg = pool[j].cfg
                                /\ (pool'[j].state = "live" => pool[j].state = "live")
      /\ UNCHANGED <<saved, applyMu, call, current, drained, drain>>
  BY DEF IInv, PoolsStay, calls, sup
<1>2. Len(pool) \in Nat /\ DOMAIN pool = 1..Len(pool)
  BY <1>1, Pools
<1>3. ASSUME NEW c \in Callers PROVE CallOK(c)'
  <2>1. CallOK(c)
    BY <1>1 DEF OwnerInv
  <2> QED
    BY <1>1, <1>2, <2>1 DEF CallOK, Holds, HasRead, In, None
<1>4. DrainOK'
  BY <1>1 DEF OwnerInv, DrainOK
<1>5. LivePoolHasAnOwner'
  BY <1>1 DEF OwnerInv, LivePoolHasAnOwner, In
<1>6. SavedInv'
  <2>1. current # None => current \in DOMAIN pool
    BY <1>1, <1>2 DEF OwnerInv, DrainOK, None
  <2> QED
    BY <1>1, <2>1 DEF OwnerInv, SavedInv, AllRead, HasRead
<1> QED
  BY <1>3, <1>4, <1>5, <1>6 DEF OwnerInv

LEMMA RunKeeps ==
    ASSUME IInv, NEW i \in DOMAIN pool, NEW s \in Slots, RunStep(<<i, s>>)
    PROVE  IInv'
<1>1. PICK w \in Workers, u \in Tasks : Ran(w, u)
  BY RunSteps
<1>2. PoolsStay /\ UNCHANGED <<calls, sup>>
  BY <1>1, SamePools DEF Ran, RunMove, IInv
<1> QED
  BY <1>1, <1>2, RanTypeInv, RanCancelInv, RanRunInv, StayOwnerInv DEF IInv

LEMMA ExitKeeps ==
    ASSUME IInv, NEW i \in DOMAIN pool, Exit(i)
    PROVE  IInv'
<1>1. /\ TypeInv /\ UNCHANGED <<calls, sup, runs, oper>>
      /\ UNCHANGED <<slot, task, cancel, cancels, cut, retries, left>>
      /\ pool' = [pool EXCEPT ![i].state = "exited"]
  BY DEF IInv, Exit, runs, oper
<1>2. PoolsStay /\ SlotsStay /\ TasksStay
  BY <1>1, EndedPools, SameRuns
<1>3. TypeInv'
  BY <1>1, <1>2 DEF TypeInv, PoolsStay, calls, sup
<1> QED
  BY <1>1, <1>2, <1>3, StayOwnerInv, StayCancelInv, StayRunInv DEF IInv, PoolsStay

LEMMA RetryKeeps ==
    ASSUME IInv, NEW t \in Tasks, Retry(t)
    PROVE  IInv'
<1> DEFINE row == [task[t] EXCEPT !.status = "ready"]
<1>1. /\ TypeInv /\ task[t] \in TaskRow /\ UNCHANGED <<calls, sup, pool, slot>>
      /\ UNCHANGED <<cancel, cancels, cut, left>> /\ retries' \in Nat
      /\ task[t].status = "failed" /\ task[t].cycle = "closed"
      /\ task' = [task EXCEPT ![t] = row]
  BY DEF IInv, TypeInv, Retry
<1>2. /\ row \in TaskRow /\ row.status = "ready" /\ row.cycle = task[t].cycle
      /\ row.phase = task[t].phase
  BY <1>1 DEF TaskRow
<1> HIDE DEF row
<1>3. PoolsStay /\ SlotsStay /\ TasksStay
  BY <1>1, <1>2, SamePools DEF TypeInv, TasksStay, SlotsStay
<1>4. TypeInv'
  BY <1>1, <1>3 DEF TypeInv, TasksStay, calls, sup
<1> QED
  BY <1>1, <1>3, <1>4, StayOwnerInv, StayCancelInv, StayRunInv DEF IInv

-----------------------------------------------------------------------------
(* The operator's cancel.                                                    *)

\* What is left to show when only the cancel or a flag moves.
LEMMA CancelKeeps ==
    ASSUME IInv, UNCHANGED <<calls, sup, pool, task, cut, retries, left>>, SlotsStay,
           cancel' \in [inst : Nat, todo : SUBSET Slots, fire : Slots \cup {NoSlot}],
           cancels' \in Nat, CancelInv'
    PROVE  IInv'
<1>1. TypeInv /\ PoolsStay
  BY SamePools DEF IInv
<1>2. TasksStay
  BY <1>1 DEF TypeInv, TasksStay
<1>3. TypeInv'
  BY <1>1 DEF TypeInv, SlotsStay, calls, sup
<1> QED
  BY <1>1, <1>2, <1>3, StayOwnerInv, StayRunInv DEF IInv

LEMMA CancelCurrentRunKeeps ==
    ASSUME IInv, CancelCurrentRun
    PROVE  IInv'
<1>1. /\ TypeInv /\ CancelInv /\ UNCHANGED <<calls, sup, pool, runs, cut, retries, left>>
      /\ cancel = NoCancel /\ current # None /\ cancels' = cancels + 1
      /\ cancel' = [inst |-> current, todo |-> Slots, fire |-> NoSlot]
  BY DEF IInv, CancelCurrentRun
<1>2. SlotsStay /\ UNCHANGED <<slot, task>>
  BY <1>1, SameRuns DEF runs
<1>3. current \in DOMAIN pool
  BY <1>1, Pools DEF IInv, OwnerInv, DrainOK, None
<1>4. ASSUME NEW s \in Slots PROVE (cut[s] + Cardinality(Flags(s)) + Due(s) <= cancels)'
  <2>1. /\ Cardinality(Flags(s)) \in Nat /\ cut[s] \in Nat /\ cancels \in Nat
        /\ Due(s) = 0 /\ cut[s] + Cardinality(Flags(s)) + Due(s) <= cancels
    BY <1>1, FlagsFinite, NamesAssumption DEF CancelInv, Due, NoCancel
  <2>2. Flags(s)' = Flags(s) /\ Due(s)' = 1
    BY <1>1, <1>2 DEF Flags, Due
  <2> QED
    BY <1>1, <2>1, <2>2
<1>5. CancelInv'
  BY <1>1, <1>3, <1>4, NamesAssumption DEF CancelInv
<1> QED
  BY <1>1, <1>2, <1>5, CancelKeeps DEF TypeInv

LEMMA CancelReadsKeeps ==
    ASSUME IInv, NEW s \in Slots, CancelReads(s)
    PROVE  IInv'
<1>1. /\ TypeInv /\ CancelInv /\ s \in cancel.todo /\ cancel.fire = NoSlot
      /\ UNCHANGED <<calls, sup, pool, runs, cancels, cut, retries, left>>
      /\ cancel \in [inst : Nat, todo : SUBSET Slots, fire : Slots \cup {NoSlot}]
  BY DEF IInv, CancelReads, TypeInv
<1>2. SlotsStay /\ UNCHANGED <<slot, task>>
  BY <1>1, SameRuns DEF runs
<1>3. /\ cancel' \in [inst : Nat, todo : SUBSET Slots, fire : Slots \cup {NoSlot}]
      /\ cancel'.todo = cancel.todo \ {s} /\ cancel'.fire \in {s, NoSlot}
      /\ cancel'.todo # {} \/ cancel'.fire # NoSlot => cancel'.inst = cancel.inst
  <2>1. CASE cancel' = [cancel EXCEPT !.todo = @ \ {s}, !.fire = s]
    BY <1>1, <2>1
  <2>2. CASE cancel.todo = {s} /\ cancel' = NoCancel
    BY <1>1, <2>2 DEF NoCancel, None
  <2>3. CASE cancel' = [cancel EXCEPT !.todo = @ \ {s}]
    BY <1>1, <2>3
  <2> QED
    BY <2>1, <2>2, <2>3 DEF CancelReads
<1>4. ASSUME NEW r \in Slots PROVE (cut[r] + Cardinality(Flags(r)) + Due(r) <= cancels)'
  <2>1. /\ Cardinality(Flags(r)) \in Nat /\ cut[r] \in Nat /\ cancels \in Nat
        /\ Due(r) \in {0, 1} /\ cut[r] + Cardinality(Flags(r)) + Due(r) <= cancels
    BY <1>1, FlagsFinite DEF CancelInv
  <2>2. Flags(r)' = Flags(r) /\ (Due(r)' = Due(r) \/ Due(r)' = 0)
    BY <1>1, <1>2, <1>3, NamesAssumption DEF Flags, Due
  <2> QED
    BY <1>1, <2>1, <2>2
<1>5. CancelInv'
  BY <1>1, <1>3, <1>4, NamesAssumption DEF CancelInv
<1> QED
  BY <1>1, <1>2, <1>3, <1>5, CancelKeeps DEF TypeInv

LEMMA CancelFiresKeeps ==
    ASSUME IInv, NEW s \in Slots, CancelFires(s)
    PROVE  IInv'
<1> DEFINE w == <<cancel.inst, s>>
           new == [slot[w] EXCEPT !.flag = TRUE]
<1>1. /\ TypeInv /\ CancelInv /\ cancel.fire = s /\ s # NoSlot
      /\ UNCHANGED <<calls, sup, pool, task, cancels, cut, retries, left>>
      /\ cancel \in [inst : Nat, todo : SUBSET Slots, fire : Slots \cup {NoSlot}]
      /\ slot' = [slot EXCEPT ![w] = new]
  BY NamesAssumption DEF IInv, CancelFires, TypeInv
<1>2. cancel.inst \in 1..MaxPools /\ w \in Workers /\ s \notin cancel.todo
  BY <1>1, Pools DEF CancelInv, Workers
<1>3. slot[w] \in SlotRow
  BY <1>1, <1>2 DEF TypeInv
<1>4. new \in SlotRow /\ new.flag = TRUE /\ new.at = slot[w].at /\ new.task = slot[w].task
  BY <1>3 DEF SlotRow
<1> HIDE DEF new
<1>5. SlotsStay /\ slot'[w] = new /\ \A v \in Workers : v # w => slot'[v] = slot[v]
  BY <1>1, <1>2, <1>4 DEF TypeInv, SlotsStay
<1>6. /\ cancel' \in [inst : Nat, todo : SUBSET Slots, fire : Slots \cup {NoSlot}]
      /\ cancel'.todo = cancel.todo /\ cancel'.fire = NoSlot
      /\ cancel'.todo # {} => cancel'.inst = cancel.inst
  <2>1. CASE cancel.todo = {} /\ cancel' = NoCancel
    BY <1>1, <2>1 DEF NoCancel, None
  <2>2. CASE cancel.todo # {} /\ cancel' = [cancel EXCEPT !.fire = NoSlot]
    BY <1>1, <2>2
  <2> QED
    BY <2>1, <2>2 DEF CancelFires
<1>7. ASSUME NEW r \in Slots PROVE (cut[r] + Cardinality(Flags(r)) + Due(r) <= cancels)'
  <2>1. /\ IsFiniteSet(Flags(r)) /\ Cardinality(Flags(r)) \in Nat
        /\ cut[r] \in Nat /\ cancels \in Nat
        /\ Due(r) \in {0, 1} /\ cut[r] + Cardinality(Flags(r)) + Due(r) <= cancels
    BY <1>1, FlagsFinite DEF CancelInv
  <2>2. \A i \in 1..MaxPools : <<i, r>> # w => slot'[<<i, r>>] = slot[<<i, r>>]
    BY <1>5 DEF Workers
  <2>3. CASE r # s
    <3>1. Flags(r)' = Flags(r)
      BY <2>2, <2>3 DEF Flags
    <3>2. Due(r)' = Due(r)
      BY <1>1, <1>6, <2>3, NamesAssumption DEF Due
    <3> QED
      BY <1>1, <2>1, <3>1, <3>2
  <2>4. CASE r = s
    <3>1. Flags(r)' = Flags(r) \cup {cancel.inst}
      BY <1>2, <1>4, <1>5, <2>2, <2>4 DEF Flags
    <3>2. Due(r) = 1 /\ Due(r)' = 0
      BY <1>1, <1>2, <1>6, <2>4 DEF Due
    <3>3. \/ Cardinality(Flags(r)') = Cardinality(Flags(r))
          \/ Cardinality(Flags(r)') = Cardinality(Flags(r)) + 1
      BY <2>1, <3>1, FS_AddElement
    <3> QED
      BY <1>1, <2>1, <3>2, <3>3
  <2> QED
    BY <2>3, <2>4
<1>8. CancelInv'
  BY <1>1, <1>6, <1>7, NamesAssumption DEF CancelInv
<1> QED
  BY <1>1, <1>5, <1>6, <1>8, CancelKeeps DEF TypeInv
-----------------------------------------------------------------------------
(* The drain.                                                                *)

LEMMA DrainStartKeeps ==
    ASSUME IInv, DrainStart
    PROVE  IInv'
<1>1. /\ TypeInv /\ OwnerInv /\ UNCHANGED <<calls, pool, runs, oper>>
      /\ UNCHANGED <<saved, applyMu, call, cancel, cancels, cut, left, slot, task>>
      /\ ~drained /\ drained' = TRUE /\ current' = None
      /\ drain' = [at |-> "stop", inst |-> current]
      /\ Len(pool) \in Nat /\ DOMAIN pool = 1..Len(pool)
  BY Pools DEF IInv, DrainStart, calls, oper, runs
<1>2. PoolsStay /\ SlotsStay /\ TasksStay
  BY <1>1, SamePools, SameRuns
<1>3. TypeInv'
  BY <1>1 DEF TypeInv, oper, runs, None
<1>4. \A c \in Callers : CallOK(c)'
  BY <1>1 DEF OwnerInv, CallOK, Holds, HasRead, In
<1>5. DrainOK'
  BY <1>1 DEF OwnerInv, DrainOK, None
<1>6. LivePoolHasAnOwner'
  BY <1>1 DEF OwnerInv, LivePoolHasAnOwner, DrainOK, In
<1>7. SavedInv'
  BY <1>1 DEF SavedInv, AllRead
<1> QED
  BY <1>1, <1>2, <1>3, <1>4, <1>5, <1>6, <1>7, StayCancelInv, StayRunInv DEF IInv, OwnerInv, PoolsStay

LEMMA DrainStopKeeps ==
    ASSUME IInv, DrainStop
    PROVE  IInv'
<1>1. /\ TypeInv /\ OwnerInv /\ UNCHANGED <<calls, current, drained, runs, oper>>
      /\ UNCHANGED <<saved, applyMu, call, cancel, cancels, cut, left, slot, task>>
      /\ drain.at = "stop" /\ drain' = [drain EXCEPT !.at = "await"]
      /\ pool' = Cancelled(drain.inst) /\ drain.inst \in 0..Len(pool)
      /\ Len(pool) \in Nat /\ DOMAIN pool = 1..Len(pool)
  BY Pools DEF IInv, OwnerInv, DrainOK, DrainStop, calls, oper, runs
<1>2. /\ PoolsStay /\ SlotsStay /\ TasksStay
      /\ drain.inst # None => pool'[drain.inst].state # "live"
  BY <1>1, CancelledPools, SameRuns
<1>3. drain' \in [at : {"idle", "stop", "await", "done"}, inst : Nat]
      /\ drain'.at = "await" /\ drain'.inst = drain.inst
  BY <1>1 DEF TypeInv
<1>4. TypeInv'
  BY <1>1, <1>2, <1>3 DEF TypeInv, PoolsStay, oper, runs
<1>5. ASSUME NEW c \in Callers PROVE CallOK(c)'
  <2>1. CallOK(c)
    BY <1>1 DEF OwnerInv
  <2> QED
    BY <1>1, <1>2, <2>1 DEF CallOK, Holds, HasRead, In, PoolsStay, None
<1>6. DrainOK'
  BY <1>1, <1>2, <1>3 DEF OwnerInv, DrainOK, PoolsStay
<1>7. LivePoolHasAnOwner'
  BY <1>1, <1>2 DEF OwnerInv, LivePoolHasAnOwner, In, PoolsStay, None
<1>8. SavedInv'
  <2>1. current # None => current \in DOMAIN pool
    BY <1>1 DEF OwnerInv, DrainOK, None
  <2> QED
    BY <1>1, <1>2, <2>1 DEF OwnerInv, SavedInv, AllRead, HasRead, PoolsStay
<1> QED
  BY <1>1, <1>2, <1>4, <1>5, <1>6, <1>7, <1>8, StayCancelInv, StayRunInv DEF IInv, OwnerInv, PoolsStay

LEMMA DrainReturnsKeeps ==
    ASSUME IInv, DrainReturns
    PROVE  IInv'
<1>1. /\ TypeInv /\ OwnerInv /\ UNCHANGED <<calls, current, drained, pool, runs, oper>>
      /\ UNCHANGED <<saved, applyMu, call, cancel, cancels, cut, left, slot, task>>
      /\ drain.at = "await" /\ drain' = [at |-> "done", inst |-> None]
      /\ Len(pool) \in Nat
  BY Pools DEF IInv, DrainReturns, calls, oper, runs
<1>2. PoolsStay /\ SlotsStay /\ TasksStay
  BY <1>1, SamePools, SameRuns
<1>3. TypeInv'
  BY <1>1 DEF TypeInv, oper, runs, None
<1>4. \A c \in Callers : CallOK(c)'
  BY <1>1 DEF OwnerInv, CallOK, Holds, HasRead, In
<1>5. DrainOK'
  BY <1>1 DEF OwnerInv, DrainOK, None
<1>6. LivePoolHasAnOwner'
  BY <1>1 DEF OwnerInv, LivePoolHasAnOwner, In
<1>7. SavedInv'
  BY <1>1 DEF OwnerInv, SavedInv, AllRead, HasRead
<1> QED
  BY <1>1, <1>2, <1>3, <1>4, <1>5, <1>6, <1>7, StayCancelInv, StayRunInv DEF IInv, OwnerInv, PoolsStay

-----------------------------------------------------------------------------
(* The callers of applySettings.                                             *)

Moved(c, row) ==
    /\ call' \in [Callers -> CallRow] /\ call'[c] = row
    /\ \A d \in Callers : d # c => call'[d] = call[d]

LEMMA CallMoves ==
    ASSUME TypeInv, NEW c \in Callers, NEW row \in CallRow, call' = [call EXCEPT ![c] = row]
    PROVE  Moved(c, row)
  BY DEF TypeInv, Moved

LEMMA FreshRow ==
    ASSUME NEW place \in CallPlace
    PROVE  /\ Fresh(place) \in CallRow /\ Fresh(place).at = place
           /\ Fresh(place).prev = None
  BY DEF Fresh, CallRow, AnySettings, None

\* applyMu: one caller at a time is past the lock.
LEMMA HolderIsAlone ==
    ASSUME IInv, NEW c \in Callers, Holds(c)
    PROVE  /\ TypeInv /\ CallOK(c) /\ DrainOK /\ LivePoolHasAnOwner /\ SavedInv
           /\ call[c] \in CallRow
           /\ Len(pool) \in Nat /\ DOMAIN pool = 1..Len(pool)
           /\ \A d \in Callers : d # c => ~Holds(d) /\ ~HasRead(d)
<1>1. TypeInv /\ OwnerInv /\ call[c] \in CallRow
  BY DEF IInv, TypeInv
<1>2. \A d \in Callers : d # c => ~Holds(d)
  BY <1>1 DEF OwnerInv, CallOK
<1> QED
  BY <1>1, <1>2, Pools DEF OwnerInv, Holds, HasRead

LEMMA OthersWait ==
    ASSUME IInv, NEW c \in Callers, Holds(c), NEW row, Moved(c, row),
           Len(pool') \in Nat, Len(pool) <= Len(pool'), CallOK(c)'
    PROVE  \A d \in Callers : CallOK(d)'
<1> SUFFICES ASSUME NEW d \in Callers, d # c PROVE CallOK(d)'
  OBVIOUS
<1>1. ~Holds(d) /\ call'[d] = call[d] /\ CallOK(d) /\ Len(pool) \in Nat
  BY HolderIsAlone DEF Moved, IInv, OwnerInv
<1> QED
  BY <1>1 DEF CallOK, Holds, HasRead, In

LEMMA PatchKeeps ==
    ASSUME IInv, NEW c \in Callers, NEW s \in AnySettings, Patch(c, s)
    PROVE  IInv'
<1> DEFINE row == [call[c] EXCEPT !.at = "lock"]
<1>1. /\ TypeInv /\ OwnerInv /\ UNCHANGED <<applyMu, sup, pool, runs, oper>>
      /\ UNCHANGED <<current, drained, drain, cancel, cancels, cut, left, slot, task>>
      /\ call[c] \in CallRow /\ call[c].at = "idle" /\ saved' = s
      /\ call' = [call EXCEPT ![c] = row] /\ Len(pool) \in Nat
  BY Pools DEF IInv, TypeInv, Patch, In, Step, sup, oper, runs
<1>2. row \in CallRow /\ row.at = "lock" /\ row.prev = call[c].prev
  BY <1>1 DEF CallRow, CallPlace
<1> HIDE DEF row
<1>3. Moved(c, row)
  BY <1>1, <1>2, CallMoves
<1>4. PoolsStay /\ SlotsStay /\ TasksStay
  BY <1>1, SamePools, SameRuns
<1>5. TypeInv'
  BY <1>1, <1>3 DEF TypeInv, sup, oper, runs, Moved
<1>6. \A d \in Callers : CallOK(d)'
  BY <1>1, <1>2, <1>3 DEF OwnerInv, CallOK, Holds, HasRead, In, Moved
<1>7. DrainOK'
  BY <1>1 DEF OwnerInv, DrainOK
<1>8. LivePoolHasAnOwner'
  BY <1>1, <1>2, <1>3 DEF OwnerInv, LivePoolHasAnOwner, In, Moved
<1>9. SavedInv'
  BY <1>2, <1>3 DEF SavedInv, AllRead, Moved
<1> QED
  BY <1>1, <1>4, <1>5, <1>6, <1>7, <1>8, <1>9, StayCancelInv, StayRunInv DEF IInv, OwnerInv, PoolsStay

LEMMA LockKeeps ==
    ASSUME IInv, NEW c \in Callers, Lock(c)
    PROVE  IInv'
<1> DEFINE row == [call[c] EXCEPT !.at = "load"]
<1>1. /\ TypeInv /\ OwnerInv /\ UNCHANGED <<saved, sup, pool, runs, oper>>
      /\ UNCHANGED <<current, drained, drain, cancel, cancels, cut, left, slot, task>>
      /\ call[c] \in CallRow /\ call[c].at = "lock" /\ applyMu = Nobody /\ applyMu' = c
      /\ call' = [call EXCEPT ![c] = row] /\ Len(pool) \in Nat
  BY Pools DEF IInv, TypeInv, Lock, In, Step, sup, oper, runs
<1>2. row \in CallRow /\ row.at = "load" /\ row.prev = call[c].prev
  BY <1>1 DEF CallRow, CallPlace
<1> HIDE DEF row
<1>3. Moved(c, row)
  BY <1>1, <1>2, CallMoves
<1>4. PoolsStay /\ SlotsStay /\ TasksStay
  BY <1>1, SamePools, SameRuns
<1>5. TypeInv'
  BY <1>1, <1>3 DEF TypeInv, sup, oper, runs, Moved
<1>6. \A d \in Callers : CallOK(d)'
  BY <1>1, <1>2, <1>3, NamesAssumption DEF OwnerInv, CallOK, Holds, HasRead, In, Moved
<1>7. DrainOK'
  BY <1>1 DEF OwnerInv, DrainOK
<1>8. LivePoolHasAnOwner'
  BY <1>1, <1>2, <1>3 DEF OwnerInv, LivePoolHasAnOwner, In, Moved
<1>9. SavedInv'
  BY <1>2, <1>3 DEF SavedInv, AllRead, Moved
<1> QED
  BY <1>1, <1>4, <1>5, <1>6, <1>7, <1>8, <1>9, StayCancelInv, StayRunInv DEF IInv, OwnerInv, PoolsStay

\* What a step of the caller past the lock has to show.
LEMMA HolderKeeps ==
    ASSUME IInv, NEW c \in Callers, Holds(c), NEW row \in CallRow, Moved(c, row),
           applyMu' \in Callers \cup {Nobody}, UNCHANGED <<saved, drained, drain, slot, oper>>,
           current' \in 0..Len(pool'), drained => current' = None,
           PoolsStay, TasksStay,
           CallOK(c)', LivePoolHasAnOwner', SavedInv'
    PROVE  IInv'
<1>1. /\ TypeInv /\ DrainOK /\ Len(pool) \in Nat /\ Len(pool') = Len(pool)
      /\ UNCHANGED <<slot, cancel, cancels, cut, retries, left>>
      /\ pool' \in Seq(PoolRow) /\ task' \in [Tasks -> TaskRow] /\ current' \in Nat
      /\ SlotsStay
  BY HolderIsAlone DEF PoolsStay, TasksStay, SlotsStay, TypeInv, oper
<1>2. TypeInv'
  BY <1>1 DEF TypeInv, Moved
<1>3. \A d \in Callers : CallOK(d)'
  BY <1>1, OthersWait
<1>4. DrainOK'
  BY <1>1 DEF DrainOK
<1> QED
  BY <1>1, <1>2, <1>3, <1>4, StayCancelInv, StayRunInv DEF IInv, OwnerInv, PoolsStay

\* A call that returns with nothing in its hands.
LEMMA ReturnKeeps ==
    ASSUME IInv, NEW c \in Callers, Holds(c), NEW place \in {"done", "error"},
           call' = [call EXCEPT ![c] = Fresh(place)], applyMu' = Nobody,
           UNCHANGED <<saved, drained, drain, pool, runs, oper>>,
           call[c].at \notin {"publish", "clear", "stopPrev"},
           current' \in {current, None},
           current' # current => ~drained /\ pool[current].state # "live",
           (place = "done" /\ AllRead' /\ current' # None) => pool[current'].cfg = saved
    PROVE  IInv'
<1>1. /\ TypeInv /\ DrainOK /\ LivePoolHasAnOwner /\ Len(pool) \in Nat
      /\ DOMAIN pool = 1..Len(pool) /\ \A d \in Callers : d # c => ~HasRead(d)
  BY HolderIsAlone
<1>2. /\ Fresh(place) \in CallRow /\ Fresh(place).at = place /\ Fresh(place).prev = None
  BY FreshRow DEF CallPlace
<1>3. Moved(c, Fresh(place))
  BY <1>1, <1>2, CallMoves
<1>4. PoolsStay /\ SlotsStay /\ TasksStay
  BY <1>1, SamePools, SameRuns
<1>5. current' \in 0..Len(pool') /\ (drained => current' = None)
  BY <1>1 DEF DrainOK, None
<1>6. CallOK(c)'
  BY <1>1, <1>2, <1>3 DEF Moved, CallOK, Holds, HasRead, In, None
<1>7. LivePoolHasAnOwner'
  BY <1>1, <1>3 DEF LivePoolHasAnOwner, In, Moved
<1>8. SavedInv'
  <2>1. SUFFICES ASSUME AllRead'
                 PROVE  /\ \A d \in Callers : HasRead(d)' => call'[d].cfg = saved'
                        /\ current' # None => pool'[current'].cfg = saved'
    BY DEF SavedInv
  <2>2. place = "done"
    BY <1>2, <1>3, <2>1 DEF AllRead, Moved
  <2>3. \A d \in Callers : ~HasRead(d)'
    BY <1>1, <1>2, <1>3, <2>2 DEF HasRead, Moved
  <2> QED
    BY <2>1, <2>2, <2>3
<1> QED
  BY <1>2, <1>3, <1>4, <1>5, <1>6, <1>7, <1>8, HolderKeeps DEF runs

LEMMA LoadSnapshotKeeps ==
    ASSUME IInv, NEW c \in Callers, LoadSnapshot(c)
    PROVE  IInv'
<1>1. /\ call[c].at = "load" /\ Holds(c) /\ UNCHANGED <<saved, sup, pool, runs, oper>>
      /\ UNCHANGED <<current, drained, drain>>
  BY DEF LoadSnapshot, In, Holds, sup
<1>2. /\ TypeInv /\ DrainOK /\ LivePoolHasAnOwner /\ CallOK(c) /\ call[c] \in CallRow
      /\ Len(pool) \in Nat /\ DOMAIN pool = 1..Len(pool)
      /\ \A d \in Callers : d # c => ~HasRead(d)
  BY <1>1, HolderIsAlone
<1>3. CASE call' = [call EXCEPT ![c] = Fresh("error")] /\ applyMu' = Nobody
  BY <1>1, <1>3, ReturnKeeps
<1>4. CASE /\ ~drained
           /\ call' = [call EXCEPT ![c].at = "decide", ![c].cfg = saved, ![c].prev = current]
           /\ UNCHANGED applyMu
  <2> DEFINE row == [call[c] EXCEPT !.at = "decide", !.cfg = saved, !.prev = current]
  <2>1. call' = [call EXCEPT ![c] = row]
    BY <1>4
  <2>2. row \in CallRow /\ row.at = "decide" /\ row.cfg = saved /\ row.prev = current
    BY <1>2 DEF CallRow, CallPlace, TypeInv
  <2> HIDE DEF row
  <2>3. Moved(c, row)
    BY <1>2, <2>1, <2>2, CallMoves
  <2>4. PoolsStay /\ SlotsStay /\ TasksStay
    BY <1>1, <1>2, SamePools, SameRuns
  <2>5. CallOK(c)'
    BY <1>1, <1>2, <1>4, <2>2, <2>3 DEF Moved, CallOK, DrainOK, Holds, HasRead, In
  <2>6. LivePoolHasAnOwner'
    BY <1>1, <1>2, <2>3 DEF LivePoolHasAnOwner, In, Moved
  <2>7. SavedInv'
    BY <1>1, <1>2, <2>2, <2>3 DEF SavedInv, HasRead, Moved
  <2> QED
    BY <1>1, <1>2, <1>4, <2>2, <2>3, <2>4, <2>5, <2>6, <2>7, HolderKeeps DEF DrainOK, TypeInv, runs
<1> QED
  BY <1>3, <1>4 DEF LoadSnapshot

\* A step of the holder that moves only its own place.
LEMMA PlaceKeeps ==
    ASSUME IInv, NEW c \in Callers, Holds(c), NEW place \in {"clear", "sweep", "build"},
           call[c].at \in {"decide", "sweep", "build"},
           NEW bad \in BOOLEAN,
           call' = [call EXCEPT ![c] = [call[c] EXCEPT !.at = place, !.bad = bad]],
           UNCHANGED <<saved, applyMu, sup, pool, slot, oper>>, TasksStay
    PROVE  IInv'
<1> DEFINE row == [call[c] EXCEPT !.at = place, !.bad = bad]
<1>1. UNCHANGED <<current, drained, drain>>
  BY DEF sup
<1>2. /\ TypeInv /\ DrainOK /\ LivePoolHasAnOwner /\ CallOK(c) /\ SavedInv
      /\ call[c] \in CallRow /\ Len(pool) \in Nat /\ DOMAIN pool = 1..Len(pool)
      /\ \A d \in Callers : d # c => ~HasRead(d)
  BY HolderIsAlone
<1>3. row \in CallRow /\ row.at = place /\ row.cfg = call[c].cfg /\ row.prev = call[c].prev
  BY <1>2 DEF CallRow, CallPlace
<1> HIDE DEF row
<1>4. Moved(c, row)
  BY <1>2, <1>3, CallMoves DEF row
<1>5. PoolsStay
  BY <1>2, SamePools
<1>6. CallOK(c)'
  BY <1>1, <1>2, <1>3, <1>4 DEF Moved, CallOK, Holds, HasRead, In
<1>7. LivePoolHasAnOwner'
  BY <1>1, <1>2, <1>4 DEF LivePoolHasAnOwner, In, Moved
<1>8. SavedInv'
  BY <1>1, <1>2, <1>3, <1>4 DEF SavedInv, AllRead, HasRead, Moved
<1> QED
  BY <1>1, <1>2, <1>3, <1>4, <1>5, <1>6, <1>7, <1>8, HolderKeeps DEF DrainOK, TypeInv, runs

LEMMA DecideKeeps ==
    ASSUME IInv, NEW c \in Callers, Decide(c)
    PROVE  IInv'
<1>1. /\ call[c].at = "decide" /\ Holds(c) /\ UNCHANGED <<saved, sup, pool, runs, oper>>
      /\ UNCHANGED <<current, drained, drain>>
  BY DEF Decide, In, Holds, sup
<1>2. /\ TypeInv /\ DrainOK /\ CallOK(c) /\ SavedInv /\ call[c] \in CallRow
      /\ call[c].bad \in BOOLEAN /\ TasksStay
      /\ \A d \in Callers : d # c => ~HasRead(d)
  BY <1>1, HolderIsAlone, SameRuns DEF CallRow
<1>3. ASSUME NEW place \in {"clear", "sweep"}, Step(c, place), UNCHANGED applyMu
      PROVE  IInv'
  <2>1. call' = [call EXCEPT ![c] = [call[c] EXCEPT !.at = place, !.bad = call[c].bad]]
    BY <1>2, <1>3 DEF Step, CallRow
  <2> QED
    BY <1>1, <1>2, <1>3, <2>1, PlaceKeeps DEF runs
<1>4. CASE Matches(call[c].prev, call[c].cfg) /\ Return(c)
  <2>1. PICK place \in {"done", "error"} : call' = [call EXCEPT ![c] = Fresh(place)]
    BY <1>4 DEF Return
  <2>2. ASSUME AllRead', place = "done", current' # None PROVE pool[current'].cfg = saved
    <3>1. AllRead
      BY <1>1, <1>2, <2>1, <2>2 DEF AllRead, Moved, TypeInv
    <3>2. call[c].cfg = saved /\ current = call[c].prev
      BY <1>1, <1>2, <3>1 DEF SavedInv, HasRead, CallOK, AllRead
    <3> QED
      BY <1>1, <1>4, <3>2 DEF Matches
  <2> QED
    BY <1>1, <1>4, <2>1, <2>2, ReturnKeeps DEF Return
<1> QED
  BY <1>3, <1>4 DEF Decide

\* stopWorkerInstance on prev: the pool a caller stops is one it alone owns.
LEMMA StopKeeps ==
    ASSUME IInv, NEW c \in Callers, Holds(c),
           NEW place \in CallPlace,
           \/ call[c].at = "clear" /\ place = "awaitClear"
           \/ call[c].at = "stopPrev" /\ place = "awaitPrev",
           Step(c, place), pool' = Cancelled(call[c].prev),
           UNCHANGED <<saved, applyMu, sup, runs, oper>>
    PROVE  IInv'
<1> DEFINE row == [call[c] EXCEPT !.at = place]
<1>1. UNCHANGED <<current, drained, drain>>
  BY DEF sup
<1>2. /\ TypeInv /\ DrainOK /\ LivePoolHasAnOwner /\ CallOK(c) /\ SavedInv
      /\ call[c] \in CallRow /\ Len(pool) \in Nat /\ DOMAIN pool = 1..Len(pool)
      /\ \A d \in Callers : d # c => ~HasRead(d)
  BY HolderIsAlone
<1>3. /\ row \in CallRow /\ row.at = place /\ row.cfg = call[c].cfg /\ row.prev = call[c].prev
      /\ call' = [call EXCEPT ![c] = row]
  BY <1>2 DEF CallRow, Step
<1> HIDE DEF row
<1>4. Moved(c, row)
  BY <1>2, <1>3, CallMoves
<1>5. /\ PoolsStay /\ SlotsStay /\ TasksStay
      /\ call[c].prev # None => pool'[call[c].prev].state # "live"
  BY <1>2, CancelledPools, SameRuns DEF CallOK
<1>6. CallOK(c)'
  BY <1>1, <1>2, <1>3, <1>4, <1>5 DEF Moved, CallOK, Holds, HasRead, In, PoolsStay
<1>7. LivePoolHasAnOwner'
  <2>1. SUFFICES ASSUME NEW i \in DOMAIN pool, pool'[i].state = "live"
                 PROVE  \/ current' = i /\ ~drained'
                        \/ drain' = [at |-> "stop", inst |-> i]
                        \/ \E d \in Callers :
                              \/ call'[d].next = i /\ call'[d].at = "publish"
                              \/ call'[d].prev = i /\ call'[d].at \in {"clear", "stopPrev"}
    BY <1>5 DEF LivePoolHasAnOwner, PoolsStay, In
  <2>2. i # call[c].prev /\ pool[i].state = "live" /\ i # None
    BY <1>2, <1>5, <2>1 DEF PoolsStay, None
  <2>3. CASE \E d \in Callers : \/ call[d].next = i /\ In(d, "publish")
                                \/ call[d].prev = i /\ call[d].at \in {"clear", "stopPrev"}
    <3>1. PICK d \in Callers : \/ call[d].next = i /\ In(d, "publish")
                               \/ call[d].prev = i /\ call[d].at \in {"clear", "stopPrev"}
      BY <2>3
    <3>2. d # c
      BY <2>2, <3>1 DEF In
    <3> QED
      BY <1>4, <3>1, <3>2 DEF Moved, In
  <2> QED
    BY <1>1, <1>2, <2>2, <2>3 DEF LivePoolHasAnOwner
<1>8. SavedInv'
  <2>1. current # None => current \in DOMAIN pool
    BY <1>2 DEF DrainOK, None
  <2> QED
    BY <1>1, <1>2, <1>3, <1>4, <1>5, <2>1 DEF SavedInv, AllRead, HasRead, Moved, PoolsStay
<1> QED
  BY <1>1, <1>2, <1>3, <1>4, <1>5, <1>6, <1>7, <1>8, HolderKeeps DEF DrainOK, TypeInv, runs, PoolsStay

LEMMA ClearKeeps ==
    ASSUME IInv, NEW c \in Callers, Clear(c)
    PROVE  IInv'
<1>1. /\ call[c].at = "awaitClear" /\ Holds(c) /\ applyMu' = Nobody
      /\ UNCHANGED <<saved, drained, drain, pool, runs, oper>>
      /\ current' = IF drained THEN current ELSE None
  BY DEF Clear, In, Holds, Return
<1>2. PICK place \in {"done", "error"} : call' = [call EXCEPT ![c] = Fresh(place)]
  BY DEF Clear, Return
<1>3. DrainOK /\ CallOK(c)
  BY <1>1, HolderIsAlone
<1>4. current' = None
  BY <1>1, <1>3 DEF DrainOK
<1>5. current' # current => ~drained /\ pool[current].state # "live"
  BY <1>1, <1>3, <1>4 DEF DrainOK, CallOK, HasRead, In
<1> QED
  BY <1>1, <1>2, <1>4, <1>5, ReturnKeeps

LEMMA SweepKeeps ==
    ASSUME IInv, NEW c \in Callers, Sweep(c)
    PROVE  IInv'
<1>1. /\ call[c].at = "sweep" /\ Holds(c) /\ UNCHANGED <<saved, applyMu, sup, pool, slot, oper>>
      /\ Step(c, "build")
  BY DEF Sweep, In, Holds
<1>2. TypeInv /\ call[c] \in CallRow
  BY <1>1, HolderIsAlone
<1>3. TasksStay
  <2>1. CASE task' = [t \in Tasks |-> [task[t] EXCEPT !.phase = {}]]
    <3>1. \A t \in Tasks : task[t] \in TaskRow
      BY <1>2 DEF TypeInv
    <3>2. \A t \in Tasks : /\ [task[t] EXCEPT !.phase = {}] \in TaskRow
                           /\ [task[t] EXCEPT !.phase = {}].phase = {}
                           /\ [task[t] EXCEPT !.phase = {}].cycle = task[t].cycle
                           /\ [task[t] EXCEPT !.phase = {}].status = task[t].status
      BY <3>1 DEF TaskRow
    <3> QED
      BY <2>1, <3>2 DEF TasksStay
  <2>2. CASE UNCHANGED task
    BY <1>2, <2>2 DEF TypeInv, TasksStay
  <2> QED
    BY <2>1, <2>2 DEF Sweep
<1>4. call[c].bad \in BOOLEAN
      /\ call' = [call EXCEPT ![c] = [call[c] EXCEPT !.at = "build", !.bad = call[c].bad]]
  BY <1>1, <1>2 DEF Step, CallRow
<1> QED
  BY <1>1, <1>3, <1>4, PlaceKeeps

\* A new pool is at rest, and its caller owns it until it is published.
LEMMA BuildKeeps ==
    ASSUME IInv, NEW c \in Callers, Build(c)
    PROVE  IInv'
<1>1. /\ call[c].at = "build" /\ Holds(c) /\ UNCHANGED <<saved, applyMu, sup, runs, oper>>
      /\ UNCHANGED <<current, drained, drain, cancel, cancels, cut, retries, left, slot, task>>
  BY DEF Build, In, Holds, sup, oper, runs
<1>2. /\ TypeInv /\ DrainOK /\ LivePoolHasAnOwner /\ CallOK(c) /\ SavedInv
      /\ call[c] \in CallRow /\ Len(pool) \in Nat /\ DOMAIN pool = 1..Len(pool)
      /\ \A d \in Callers : d # c => ~HasRead(d)
  BY <1>1, HolderIsAlone
<1>3. CASE /\ call' = [call EXCEPT ![c].at = "clear", ![c].bad = TRUE]
           /\ UNCHANGED pool
  <2>1. call' = [call EXCEPT ![c] = [call[c] EXCEPT !.at = "clear", !.bad = TRUE]]
    BY <1>3
  <2> QED
    BY <1>1, <1>2, <1>3, <2>1, PlaceKeeps, SameRuns
<1>4. CASE /\ Len(pool) < MaxPools
           /\ pool' = Append(pool, NewPool(call[c].cfg))
           /\ call' = [call EXCEPT ![c].at = "publish", ![c].next = Len(pool) + 1]
  <2> DEFINE n == Len(pool) + 1
             row == [call[c] EXCEPT !.at = "publish", !.next = n]
             new == NewPool(call[c].cfg)
  <2>0. n \in Nat
    BY <1>2
  <2>1. call' = [call EXCEPT ![c] = row] /\ pool' = Append(pool, new)
    BY <1>4
  <2>2. /\ row \in CallRow /\ row.at = "publish" /\ row.next = n
        /\ row.cfg = call[c].cfg /\ row.prev = call[c].prev
    <3> HIDE DEF n
    <3> QED
      BY <1>2, <2>0 DEF CallRow, CallPlace
  <2>3. new \in PoolRow /\ new.cfg = call[c].cfg
    BY <1>2 DEF NewPool, PoolRow, CallRow
  <2> HIDE DEF row, new
  <2>4. Moved(c, row)
    BY <1>2, <2>1, <2>2, CallMoves
  <2>5. /\ pool' \in Seq(PoolRow) /\ Len(pool') = n /\ pool'[n] = new
        /\ \A j \in DOMAIN pool : pool'[j] = pool[j]
        /\ DOMAIN pool' = DOMAIN pool \cup {n}
    BY <1>2, <2>1, <2>3, AppendProperties DEF TypeInv
  <2>6. TypeInv'
    <3>1. Len(pool') <= MaxPools
      BY <1>2, <1>4, <2>5, Pools
    <3> QED
      BY <1>1, <1>2, <2>4, <2>5, <3>1 DEF TypeInv, Moved
  <2>7. CallOK(c)'
    BY <1>1, <1>2, <2>2, <2>3, <2>4, <2>5 DEF Moved, CallOK, Holds, HasRead, In
  <2>8. \A d \in Callers : CallOK(d)'
    BY <1>1, <1>2, <2>4, <2>5, <2>7, OthersWait
  <2>9. DrainOK'
    BY <1>1, <1>2, <2>5 DEF DrainOK
  <2>10. LivePoolHasAnOwner'
    BY <1>1, <1>2, <2>2, <2>4, <2>5 DEF LivePoolHasAnOwner, In, Moved
  <2>11. SavedInv'
    BY <1>1, <1>2, <2>2, <2>4 DEF SavedInv, AllRead, HasRead, Moved
  <2>12. CancelInv'
    BY <1>1, <2>5, StayCancelInv
  <2>13. RunInv'
    <3>1. SlotsOK' /\ SettledInv' /\ PhaseInv'
      BY <1>1, <1>2, <2>5, SameRuns, StaySlotsInv
    <3>2. ASSUME Len(pool') <= 1
          PROVE  (\A w \in Workers : RunOK(w)') /\ (\A t \in Tasks : CycleOK(t)')
      <4>1. Len(pool) = 0 /\ DOMAIN pool = {}
        BY <1>2, <2>5, <3>2
      <4>2. \A w \in Workers : slot'[w].at = "rest"
        BY <1>1, <4>1 DEF IInv, RunInv, SlotsOK
      <4>3. \A t \in Tasks : CycleOK(t)
        BY <4>1 DEF IInv, RunInv, FirstPoolInv
      <4>4. \A w \in Workers : RunOK(w)'
        BY <4>2 DEF RunOK, At, Inside
      <4>5. \A t \in Tasks : CycleOK(t)'
        BY <1>1, <4>1, <4>3 DEF CycleOK
      <4> QED
        BY <4>4, <4>5
    <3> QED
      BY <3>1, <3>2 DEF RunInv, FirstPoolInv
  <2> QED
    BY <2>6, <2>8, <2>9, <2>10, <2>11, <2>12, <2>13 DEF IInv, OwnerInv
<1> QED
  BY <1>3, <1>4 DEF Build

LEMMA PublishKeeps ==
    ASSUME IInv, NEW c \in Callers, Publish(c)
    PROVE  IInv'
<1>1. /\ call[c].at = "publish" /\ Holds(c)
      /\ UNCHANGED <<saved, applyMu, drained, drain, runs, oper>>
  BY DEF Publish, In, Holds
<1>2. /\ TypeInv /\ DrainOK /\ LivePoolHasAnOwner /\ CallOK(c) /\ SavedInv
      /\ call[c] \in CallRow /\ Len(pool) \in Nat /\ DOMAIN pool = 1..Len(pool)
      /\ \A d \in Callers : d # c => ~HasRead(d)
  BY <1>1, HolderIsAlone
<1>3. /\ call[c].next \in DOMAIN pool /\ pool[call[c].next].cfg = call[c].cfg
      /\ drained \/ current = call[c].prev
  BY <1>1, <1>2 DEF CallOK, In, HasRead
<1>4. CASE drained
  <2> DEFINE row == [call[c] EXCEPT !.at = "awaitNext", !.bad = TRUE]
  <2>1. /\ call' = [call EXCEPT ![c] = row] /\ pool' = Cancelled(call[c].next)
        /\ UNCHANGED current
    BY <1>4 DEF Publish
  <2>2. row \in CallRow /\ row.at = "awaitNext" /\ row.prev = call[c].prev
    BY <1>2 DEF CallRow, CallPlace
  <2> HIDE DEF row
  <2>3. Moved(c, row)
    BY <1>2, <2>1, <2>2, CallMoves
  <2>4. /\ PoolsStay /\ SlotsStay /\ TasksStay
        /\ pool'[call[c].next].state # "live"
    BY <1>1, <1>2, <1>3, <2>1, CancelledPools, SameRuns DEF None
  <2>5. CallOK(c)'
    BY <1>1, <1>2, <1>4, <2>2, <2>3, <2>4 DEF Moved, CallOK, Holds, HasRead, In, PoolsStay
  <2>6. LivePoolHasAnOwner'
    <3>1. \A i \in DOMAIN pool : pool'[i].state = "live" =>
             \/ drain = [at |-> "stop", inst |-> i]
             \/ \E d \in Callers :
                   /\ d # c
                   /\ \/ call[d].next = i /\ In(d, "publish")
                      \/ call[d].prev = i /\ call[d].at \in {"clear", "stopPrev"}
      BY <1>1, <1>2, <1>4, <2>4 DEF LivePoolHasAnOwner, PoolsStay, In
    <3> QED
      BY <1>1, <2>3, <2>4, <3>1 DEF LivePoolHasAnOwner, PoolsStay, In, Moved
  <2>7. SavedInv'
    BY <1>1, <1>4 DEF SavedInv, AllRead
  <2> QED
    BY <1>1, <1>2, <2>1, <2>2, <2>3, <2>4, <2>5, <2>6, <2>7, HolderKeeps
    DEF DrainOK, TypeInv, runs, PoolsStay
<1>5. CASE ~drained
  <2> DEFINE row == [call[c] EXCEPT !.at = "stopPrev"]
  <2>1. call' = [call EXCEPT ![c] = row] /\ current' = call[c].next /\ UNCHANGED pool
    BY <1>5 DEF Publish, Step
  <2>2. row \in CallRow /\ row.at = "stopPrev" /\ row.prev = call[c].prev
    BY <1>2 DEF CallRow, CallPlace
  <2> HIDE DEF row
  <2>3. Moved(c, row)
    BY <1>2, <2>1, <2>2, CallMoves
  <2>4. PoolsStay /\ SlotsStay /\ TasksStay
    BY <1>1, <1>2, <2>1, SamePools, SameRuns
  <2>5. CallOK(c)'
    BY <1>1, <1>2, <2>1, <2>2, <2>3 DEF Moved, CallOK, Holds, HasRead, In
  <2>6. LivePoolHasAnOwner'
    <3>1. \A i \in DOMAIN pool : pool[i].state = "live" =>
             \/ i = call[c].prev \/ i = call[c].next
             \/ drain = [at |-> "stop", inst |-> i]
             \/ \E d \in Callers :
                   /\ d # c
                   /\ \/ call[d].next = i /\ In(d, "publish")
                      \/ call[d].prev = i /\ call[d].at \in {"clear", "stopPrev"}
      BY <1>1, <1>2, <1>3, <1>5 DEF LivePoolHasAnOwner, In
    <3> QED
      BY <1>1, <1>5, <2>1, <2>2, <2>3, <3>1 DEF LivePoolHasAnOwner, In, Moved
  <2>7. SavedInv'
    BY <1>1, <1>2, <1>3, <2>1, <2>2, <2>3 DEF SavedInv, AllRead, HasRead, Moved
  <2> QED
    BY <1>1, <1>2, <1>3, <1>5, <2>1, <2>2, <2>3, <2>4, <2>5, <2>6, <2>7, HolderKeeps
    DEF DrainOK, TypeInv, runs
<1> QED
  BY <1>4, <1>5

\* The two waits at the end of a call.
LEMMA AwaitKeeps ==
    ASSUME IInv, NEW c \in Callers, AwaitNext(c) \/ AwaitPrev(c)
    PROVE  IInv'
<1>1. /\ call[c].at \in {"awaitNext", "awaitPrev"} /\ Holds(c) /\ applyMu' = Nobody
      /\ UNCHANGED <<saved, drained, drain, pool, runs, oper>> /\ current' = current
  BY DEF AwaitNext, AwaitPrev, In, Holds, Return, sup
<1>2. PICK place \in {"done", "error"} : call' = [call EXCEPT ![c] = Fresh(place)]
  BY DEF AwaitNext, AwaitPrev, Return
<1>3. /\ TypeInv /\ DrainOK /\ CallOK(c) /\ SavedInv /\ \A d \in Callers : d # c => ~HasRead(d)
  BY <1>1, HolderIsAlone
<1>4. ASSUME AllRead', current' # None, place = "done" PROVE pool[current'].cfg = saved
  <2>1. ~HasRead(c)
    BY <1>1 DEF HasRead
  <2>2. AllRead
    BY <1>1, <1>2, <1>3, <1>4 DEF AllRead, TypeInv
  <2> QED
    BY <1>1, <1>3, <1>4, <2>1, <2>2 DEF SavedInv
<1>5. call[c].at \notin {"publish", "clear", "stopPrev"}
  BY <1>1
<1> QED
  BY <1>1, <1>2, <1>4, <1>5, ReturnKeeps

-----------------------------------------------------------------------------
(* The invariant.                                                            *)

LEMMA InitIInv == Init => IInv
<1> SUFFICES ASSUME Init PROVE IInv
  OBVIOUS
<1>1. \A c \in Callers : /\ call[c] \in CallRow /\ call[c].at \in {"idle", "lock"}
                         /\ call[c].prev = None
  <2>1. \A c \in Callers : call[c] = Fresh(IF c = Boot THEN "lock" ELSE "idle")
    BY DEF Init
  <2>2. "lock" \in CallPlace /\ "idle" \in CallPlace
    BY DEF CallPlace
  <2>3. \A place \in CallPlace : /\ Fresh(place) \in CallRow /\ Fresh(place).at = place
                                 /\ Fresh(place).prev = None
    BY FreshRow
  <2> QED
    BY <2>1, <2>2, <2>3
<1>2. /\ pool = <<>> /\ pool \in Seq(PoolRow) /\ Len(pool) = 0 /\ DOMAIN pool = {}
      /\ current = 0 /\ drained = FALSE /\ drain = [at |-> "idle", inst |-> 0]
      /\ cancel = [inst |-> 0, todo |-> {}, fire |-> NoSlot]
      /\ cancels = 0 /\ cut = [s \in Slots |-> 0] /\ retries = 0
      /\ left = [t \in Tasks |-> {}]
  BY DEF Init, None, NoCancel
<1>3. \A t \in Tasks : task[t] = [status |-> "ready", cycle |-> "none", phase |-> {}]
  BY DEF Init
<1>4. \A w \in Workers :
         slot[w] = [at |-> "rest", task |-> NoTask, out |-> "failed", flag |-> FALSE]
  BY DEF Init, Idle
<1>5. TypeInv
  <2>1. call \in [Callers -> CallRow]
    BY <1>1 DEF Init
  <2>2. task \in [Tasks -> TaskRow]
    BY DEF Init, TaskRow
  <2>3. slot \in [Workers -> SlotRow]
    BY DEF Init, Idle, SlotRow, Place
  <2>4. saved \in AnySettings /\ applyMu = Nobody
    BY NamesAssumption DEF Init, AnySettings
  <2>5. Len(pool) <= MaxPools
    BY <1>2, BoundAssumption
  <2> QED
    BY <1>2, <2>1, <2>2, <2>3, <2>4, <2>5 DEF TypeInv
<1>6. OwnerInv
  <2>1. ASSUME NEW c \in Callers PROVE CallOK(c)
    <3>1. call[c].prev \in 0..Len(pool)
      BY <1>1, <1>2 DEF None
    <3>2. ~Holds(c) /\ ~HasRead(c) /\ call[c].at \notin {"publish", "awaitClear", "awaitNext"}
      BY <1>1 DEF Holds, HasRead
    <3> QED
      BY <3>1, <3>2 DEF CallOK, In
  <2>2. DrainOK /\ LivePoolHasAnOwner
    BY <1>2 DEF DrainOK, LivePoolHasAnOwner, None
  <2>3. ~AllRead
    BY NamesAssumption DEF Init, AllRead, Fresh
  <2> QED
    BY <2>1, <2>2, <2>3 DEF OwnerInv, SavedInv
<1>7. CancelInv
  <2>1. \A s \in Slots : Flags(s) = {} /\ Due(s) = 0
    BY <1>2, <1>4, NamesAssumption DEF Flags, Due, Workers
  <2> QED
    BY <1>2, <2>1, FS_EmptySet DEF CancelInv
<1>8. RunInv
  <2>1. SlotsOK
    BY <1>4 DEF SlotsOK
  <2>2. SettledInv /\ PhaseInv
    BY <1>3 DEF SettledInv, PhaseInv
  <2>3. \A w \in Workers : RunOK(w)
    BY <1>4 DEF RunOK, At, Inside
  <2>4. \A t \in Tasks : CycleOK(t)
    BY <1>2, <1>3 DEF CycleOK
  <2> QED
    BY <2>1, <2>2, <2>3, <2>4 DEF RunInv, FirstPoolInv
<1> QED
  BY <1>5, <1>6, <1>7, <1>8 DEF IInv

LEMMA CallKeeps ==
    ASSUME IInv, NEW c \in Callers, CallStep(c)
    PROVE  IInv'
<1>1. CASE LoadSnapshot(c)
  BY <1>1, LoadSnapshotKeeps
<1>2. CASE Decide(c)
  BY <1>2, DecideKeeps
<1>3. CASE ClearStop(c)
  BY <1>3, StopKeeps DEF ClearStop, In, Holds, CallPlace
<1>4. CASE Clear(c)
  BY <1>4, ClearKeeps
<1>5. CASE Sweep(c)
  BY <1>5, SweepKeeps
<1>6. CASE Build(c)
  BY <1>6, BuildKeeps
<1>7. CASE Publish(c)
  BY <1>7, PublishKeeps
<1>8. CASE AwaitNext(c) \/ AwaitPrev(c)
  BY <1>8, AwaitKeeps
<1>9. CASE StopPrev(c)
  BY <1>9, StopKeeps DEF StopPrev, In, Holds, CallPlace
<1> QED
  BY <1>1, <1>2, <1>3, <1>4, <1>5, <1>6, <1>7, <1>8, <1>9 DEF CallStep

LEMMA StepIInv == IInv /\ [Next]_vars => IInv'
<1> SUFFICES ASSUME IInv, [Next]_vars PROVE IInv'
  OBVIOUS
<1>1. CASE UNCHANGED vars
  <2>1. /\ UNCHANGED <<calls, sup, pool, runs, oper>>
        /\ UNCHANGED <<slot, task, cancel, cancels, cut, retries, left>> /\ TypeInv
    BY <1>1 DEF vars, oper, runs, IInv
  <2>2. PoolsStay /\ SlotsStay /\ TasksStay
    BY <2>1, SamePools, SameRuns
  <2>3. TypeInv'
    BY <2>1 DEF TypeInv, calls, sup
  <2> QED
    BY <2>1, <2>2, <2>3, StayOwnerInv, StayCancelInv, StayRunInv DEF IInv, PoolsStay
<1>2. ASSUME NEW c \in Callers, NEW s \in Settings \cup {Paused}, Patch(c, s)
      PROVE  IInv'
  <2>1. s \in AnySettings
    BY DEF AnySettings
  <2> QED
    BY <1>2, <2>1, PatchKeeps
<1>3. ASSUME NEW c \in Callers, Lock(c) \/ CallStep(c)
      PROVE  IInv'
  BY <1>3, LockKeeps, CallKeeps
<1>4. CASE DrainStart \/ DrainStop \/ DrainReturns
  BY <1>4, DrainStartKeeps, DrainStopKeeps, DrainReturnsKeeps
<1>5. CASE CancelCurrentRun
  BY <1>5, CancelCurrentRunKeeps
<1>6. ASSUME NEW s \in Slots, CancelReads(s) \/ CancelFires(s) PROVE IInv'
  BY <1>6, CancelReadsKeeps, CancelFiresKeeps
<1>7. ASSUME NEW t \in Tasks, Retry(t) PROVE IInv'
  BY <1>7, RetryKeeps
<1>8. ASSUME NEW i \in DOMAIN pool, Exit(i) PROVE IInv'
  BY <1>8, ExitKeeps
<1>9. ASSUME NEW i \in DOMAIN pool, NEW s \in Slots, RunStep(<<i, s>>) PROVE IInv'
  BY <1>9, RunKeeps
<1> QED
  BY <1>1, <1>2, <1>3, <1>4, <1>5, <1>6, <1>7, <1>8, <1>9 DEF Next

LEMMA SupervisorInductive == Spec => []IInv
<1> QED
  BY InitIInv, StepIInv, PTL DEF Spec

-----------------------------------------------------------------------------
(* Every state of the supervisor, of its callers, of its pools and of their  *)
(* slots is of the shape the code gives it.                                  *)
THEOREM SupervisorTypeCorrect == Spec => []TypeInv
<1>1. IInv => TypeInv
  BY DEF IInv
<1> QED
  BY <1>1, SupervisorInductive, PTL

(* supervisor.go: "applyMu serialises Start/Reload end-to-end so concurrent  *)
(* settings patches cannot leak worker goroutines."  Any number of calls may *)
(* fail, find nothing to do or overlap with the drain: a pool with a live    *)
(* context is the current one, or the call or the drain that will publish or *)
(* stop it still holds it (applySettings, restartWorkerWithSettings,         *)
(* clearCurrentInstance, Drain).                                             *)
THEOREM NoPoolIsLeaked == Spec => []LivePoolHasAnOwner
<1>1. IInv => LivePoolHasAnOwner
  BY DEF IInv, OwnerInv
<1> QED
  BY <1>1, SupervisorInductive, PTL

(* patchSettings saves outside applyMu and reloads under it, so a call may   *)
(* apply settings another caller saved.  When all have returned without an   *)
(* error the pool that serves was built from the row saved last, whatever    *)
(* order they saved in and whatever order they took the lock in.             *)
THEOREM LastSettingsWin == Spec => []SavedSettingsAreInForce
<1>1. IInv => SavedSettingsAreInForce
  BY DEF IInv, OwnerInv, SavedInv, AllRead, AtRest, HasRead, SavedSettingsAreInForce
<1> QED
  BY <1>1, SupervisorInductive, PTL

(* Pool.CancelCurrentRun visits every slot of the current pool, reads the    *)
(* run in flight there, and sets the flag and fires after that;              *)
(* consumeOperatorCancel swaps the flag out.  With any number of slots and   *)
(* however late a cancel fires, over any number of pools, no slot fails more *)
(* runs by the operator than the operator has cancelled.                     *)
THEOREM OneCancelOneRun == Spec => []CancelFailsOneRun
<1>1. IInv => CancelFailsOneRun
  <2> SUFFICES ASSUME IInv, NEW s \in Slots PROVE cut[s] <= cancels
    BY DEF CancelFailsOneRun
  <2>1. /\ Cardinality(Flags(s)) \in Nat /\ cut[s] \in Nat /\ cancels \in Nat
        /\ Due(s) \in {0, 1}
    BY FlagsFinite DEF IInv
  <2>2. cut[s] + Cardinality(Flags(s)) + Due(s) <= cancels
    BY DEF IInv, CancelInv
  <2> QED
    BY <2>1, <2>2
<1> QED
  BY <1>1, SupervisorInductive, PTL

(* harness.md: the recovery paths use a background context "when the parent  *)
(* ctx is cancelled so audit rows still persist".  Over any number of pools  *)
(* a phase that nobody is in was left open by a run that died in verify or   *)
(* in bestEffortTerminate, which writes on the dead context; while there has *)
(* been one pool, a cycle that nobody drives was left open there or between  *)
(* two phases (handleShutdownAfterRun, bestEffortTerminate, RunPipeline).    *)
THEOREM ShutdownClosesTheCycle == Spec => []DrainClosesTheRun
<1>1. IInv => DrainClosesTheRun
  <2> SUFFICES ASSUME IInv, NEW t \in Tasks, ~Driven(t)
               PROVE  /\ task[t].phase # {} => left[t] \cap {"verify", "abort"} # {}
                      /\ Len(pool) = 1 /\ task[t].cycle = "running" =>
                            left[t] \cap LeftOpen # {}
    BY DEF DrainClosesTheRun, LeftOpen
  <2>1. TypeInv /\ PhaseInv /\ FirstPoolInv
    BY DEF IInv, RunInv
  <2>2. task[t].phase \subseteq Workers
    BY <2>1 DEF TypeInv, TaskRow
  <2>3. task[t].phase # {} => left[t] \cap {"verify", "abort"} # {}
    BY <2>1, <2>2 DEF PhaseInv, IsIn, Driven
  <2>4. Len(pool) = 1 /\ task[t].cycle = "running" => left[t] \cap LeftOpen # {}
    BY <2>1 DEF FirstPoolInv, CycleOK, Driven
  <2> QED
    BY <2>3, <2>4
<1> QED
  BY <1>1, SupervisorInductive, PTL

(* sweep.go: "Running cycles stay running so Harness.Resume can continue".   *)
(* With any number of pools swapped, drained or cancelled over one another,  *)
(* a running task that no run holds has an open cycle for reconcile to find, *)
(* but for three windows: the context died in Begin before StartCycle, or in *)
(* Settle after TerminateCycle, or the done that Settle writes was refused   *)
(* by the criteria (transitionTask).                                         *)
THEOREM LeftTasksCanResume == Spec => []RunningTaskIsResumable
<1>1. IInv => RunningTaskIsResumable
  BY DEF IInv, RunInv, SettledInv, NeverListed, RunningTaskIsResumable, Driven, Settles
<1> QED
  BY <1>1, SupervisorInductive, PTL
=============================================================================

------------------------- MODULE WorkerPoolProofs --------------------------
(* Proofs about WorkerPool for every set of tasks, slots and worktrees and   *)
(* every bound.                                                              *)
EXTENDS WorkerPool, FiniteSetTheorems, TLAPS

LP == INSTANCE CycleLedgerProofs

Place == Admission \cup Run \cup {"none", "unlock"}
Cycling == {"startExecute", "execute", "startVerify", "verify", "terminate", "abort"}

TaskStatus == {"absent", "ready", "running", "done", "failed", "on_hold"}
TaskRow == [status : TaskStatus, wt : Worktrees, later : BOOLEAN]
SlotRow == [at : Place, wt : Worktrees \cup {Idle.wt}, cyc : Nat, ph : Nat, tries : Nat,
            out : {"none", "succeeded", "failed"}]

TypeInv ==
    /\ ch \in Seq(Tasks)
    /\ pending \subseteq Tasks
    /\ pc \in [Slots -> {"idle", "recv", "busy"}]
    /\ held \in [Slots -> Tasks \cup {NoTask}]
    /\ \A s \in Slots : pc[s] # "idle" => held[s] \in Tasks
    /\ row \in [Tasks -> TaskRow]
    /\ wake \subseteq Tasks
    /\ by \in [Tasks -> {"agent", "operator", "refused"}]
    /\ gate \in [Worktrees -> Slots \cup {NoSlot}]
    /\ slot \in [Slots -> SlotRow]
    /\ ops \in Nat /\ rebinds \in Nat /\ crashes \in Nat

Busy(s) == pc[s] = "busy"

SlotPointsIntoLedger ==
    \A s \in Slots : Busy(s) =>
        /\ slot[s].at \in {"lock", "prepResume", "resume"} \cup Cycling =>
              slot[s].cyc \in DOMAIN cycles[held[s]]
        /\ slot[s].at \in {"execute", "verify"} =>
              slot[s].ph \in DOMAIN cycles[held[s]][slot[s].cyc].phases
        /\ slot[s].at \in {"terminate", "settle"} => slot[s].out \in {"succeeded", "failed"}

HomeStays ==
    rebinds = 0 =>
        /\ \A t \in Tasks : row[t].wt = Home[t]
        /\ \A s \in Slots : Busy(s) /\ slot[s].at \notin {"none", "reload"} =>
              slot[s].wt = Home[held[s]]

GateHeld ==
    rebinds = 0 =>
        \A s \in Slots : Busy(s) /\ slot[s].at \in Run \cup {"pickup"} =>
            gate[slot[s].wt] = s

OpenCycleIsDriven ==
    \A t \in Tasks : \A a \in DOMAIN cycles[t] : cycles[t][a].status = "running" =>
        \E s \in Slots : Drives(s, t) /\ slot[s].at \in Cycling /\ slot[s].cyc = a

RunKeepsItsCycle ==
    \A s \in Slots : \A t \in Tasks : Drives(s, t) /\ Picked(t) =>
        /\ slot[s].at \notin {"prepResume", "resume"}
        /\ slot[s].at \in Cycling => cycles[t][slot[s].cyc].status = "running"

FreshRunIsUnsettled ==
    \A s \in Slots : \A t \in Tasks :
        Drives(s, t) /\ slot[s].at \in {"prepFresh", "startCycle"} => ~Settled(t)

UndisturbedInv ==
    Undisturbed => OpenCycleIsDriven /\ RunKeepsItsCycle /\ FreshRunIsUnsettled

IInv ==
    /\ TypeInv /\ LP!IInv /\ SlotPointsIntoLedger
    /\ GateIsNotLeaked /\ HomeStays /\ GateHeld
    /\ LivePhaseHasADriver
    /\ UndisturbedInv /\ RunningTaskIsDriven /\ SettledTaskIsClosed

-----------------------------------------------------------------------------
(* Types.                                                                    *)

LEMMA IdleWorktree == ASSUME NEW t \in Tasks PROVE Idle.wt \in Worktrees
  BY HomeAssumption DEF Idle

LEMMA IdleIsTyped == Idle \in SlotRow /\ Idle.at = "none"
  BY DEF Idle, SlotRow, Place

\* What an assignment to the locals of slot s does, field by field.
SlotBecomes(s, at, wt, cyc, ph, out) ==
    /\ slot' \in [Slots -> SlotRow]
    /\ \A r \in Slots : r # s => slot'[r] = slot[r]
    /\ slot'[s].at = at /\ slot'[s].wt = wt /\ slot'[s].cyc = cyc
    /\ slot'[s].ph = ph /\ slot'[s].out = out

LEMMA GotoBecomes ==
    ASSUME TypeInv, NEW s \in Slots, NEW place \in Place, Goto(s, place)
    PROVE  SlotBecomes(s, place, slot[s].wt, slot[s].cyc, slot[s].ph, slot[s].out)
<1>1. slot' = [slot EXCEPT ![s] = [slot[s] EXCEPT !.at = place]]
  BY DEF Goto
<1>2. [slot[s] EXCEPT !.at = place] \in SlotRow
  BY DEF TypeInv, SlotRow
<1> QED
  BY <1>1, <1>2 DEF SlotBecomes, TypeInv, SlotRow

LEMMA ReloadedBecomes ==
    ASSUME TypeInv, NEW s \in Slots, NEW place \in Place, NEW wt \in Worktrees,
           slot' = [slot EXCEPT ![s].wt = wt, ![s].at = place]
    PROVE  SlotBecomes(s, place, wt, slot[s].cyc, slot[s].ph, slot[s].out)
<1>1. [slot[s] EXCEPT !.wt = wt, !.at = place] \in SlotRow
  BY DEF TypeInv, SlotRow
<1>2. slot' = [slot EXCEPT ![s] = [slot[s] EXCEPT !.wt = wt, !.at = place]]
  OBVIOUS
<1> QED
  BY <1>1, <1>2 DEF SlotBecomes, TypeInv, SlotRow

LEMMA PickedBecomes ==
    ASSUME TypeInv, NEW s \in Slots, NEW place \in Place, NEW wt \in Worktrees,
           slot' = [slot EXCEPT ![s].at = place, ![s].wt = wt]
    PROVE  SlotBecomes(s, place, wt, slot[s].cyc, slot[s].ph, slot[s].out)
<1>1. [slot[s] EXCEPT !.at = place, !.wt = wt] \in SlotRow
  BY DEF TypeInv, SlotRow
<1>2. slot' = [slot EXCEPT ![s] = [slot[s] EXCEPT !.at = place, !.wt = wt]]
  OBVIOUS
<1> QED
  BY <1>1, <1>2 DEF SlotBecomes, TypeInv, SlotRow

LEMMA CycleBecomes ==
    ASSUME TypeInv, NEW s \in Slots, NEW place \in Place, NEW cyc \in Nat,
           slot' = [slot EXCEPT ![s].cyc = cyc, ![s].at = place]
    PROVE  SlotBecomes(s, place, slot[s].wt, cyc, slot[s].ph, slot[s].out)
<1>1. [slot[s] EXCEPT !.cyc = cyc, !.at = place] \in SlotRow
  BY DEF TypeInv, SlotRow
<1>2. slot' = [slot EXCEPT ![s] = [slot[s] EXCEPT !.cyc = cyc, !.at = place]]
  OBVIOUS
<1> QED
  BY <1>1, <1>2 DEF SlotBecomes, TypeInv, SlotRow

LEMMA RetryBecomes ==
    ASSUME TypeInv, NEW s \in Slots, NEW place \in Place, NEW tries \in Nat,
           slot' = [slot EXCEPT ![s].tries = tries, ![s].at = place]
    PROVE  SlotBecomes(s, place, slot[s].wt, slot[s].cyc, slot[s].ph, slot[s].out)
<1>1. [slot[s] EXCEPT !.tries = tries, !.at = place] \in SlotRow
  BY DEF TypeInv, SlotRow
<1>2. slot' = [slot EXCEPT ![s] = [slot[s] EXCEPT !.tries = tries, !.at = place]]
  OBVIOUS
<1> QED
  BY <1>1, <1>2 DEF SlotBecomes, TypeInv, SlotRow

LEMMA ResumedBecomes ==
    ASSUME TypeInv, NEW s \in Slots, NEW place \in Place, NEW tries \in Nat,
           slot' = [slot EXCEPT ![s].at = place, ![s].tries = tries]
    PROVE  SlotBecomes(s, place, slot[s].wt, slot[s].cyc, slot[s].ph, slot[s].out)
<1>1. [slot[s] EXCEPT !.at = place, !.tries = tries] \in SlotRow
  BY DEF TypeInv, SlotRow
<1>2. slot' = [slot EXCEPT ![s] = [slot[s] EXCEPT !.at = place, !.tries = tries]]
  OBVIOUS
<1> QED
  BY <1>1, <1>2 DEF SlotBecomes, TypeInv, SlotRow

LEMMA PhaseBecomes ==
    ASSUME TypeInv, NEW s \in Slots, NEW place \in Place, NEW ph \in Nat,
           slot' = [slot EXCEPT ![s].ph = ph, ![s].at = place]
    PROVE  SlotBecomes(s, place, slot[s].wt, slot[s].cyc, ph, slot[s].out)
<1>1. [slot[s] EXCEPT !.ph = ph, !.at = place] \in SlotRow
  BY DEF TypeInv, SlotRow
<1>2. slot' = [slot EXCEPT ![s] = [slot[s] EXCEPT !.ph = ph, !.at = place]]
  OBVIOUS
<1> QED
  BY <1>1, <1>2 DEF SlotBecomes, TypeInv, SlotRow

LEMMA VerdictBecomes ==
    ASSUME TypeInv, NEW s \in Slots, NEW place \in Place,
           NEW out \in {"succeeded", "failed"},
           slot' = [slot EXCEPT ![s].at = place, ![s].out = out]
    PROVE  SlotBecomes(s, place, slot[s].wt, slot[s].cyc, slot[s].ph, out)
<1>1. [slot[s] EXCEPT !.at = place, !.out = out] \in SlotRow
  <2>1. slot[s] \in SlotRow
    BY DEF TypeInv
  <2> QED
    BY <2>1 DEF SlotRow
<1>2. slot' = [slot EXCEPT ![s] = [slot[s] EXCEPT !.at = place, !.out = out]]
  OBVIOUS
<1> QED
  BY <1>1, <1>2 DEF SlotBecomes, TypeInv, SlotRow

LEMMA AcceptType ==
    ASSUME TypeInv, NEW t \in Tasks, Q!Accept(t)
    PROVE  ch' \in Seq(Tasks) /\ pending' \subseteq Tasks
<1>1. CASE Q!Enqueue(t)
  BY <1>1 DEF TypeInv, Q!Enqueue
<1>2. CASE UNCHANGED <<ch, pending>>
  BY <1>2 DEF TypeInv
<1> QED
  BY <1>1, <1>2 DEF Q!Accept

LEMMA NotifyType ==
    ASSUME TypeInv, NEW t \in Tasks, Notify(t)
    PROVE  ch' \in Seq(Tasks) /\ pending' \subseteq Tasks
  BY AcceptType DEF TypeInv, Notify, buffer

LEMMA UpdateType ==
    ASSUME TypeInv, NEW t \in Tasks, NEW new \in TaskRow, NEW touched \in BOOLEAN,
           Update(t, new, touched)
    PROVE  /\ ch' \in Seq(Tasks) /\ pending' \subseteq Tasks
           /\ row' \in [Tasks -> TaskRow] /\ wake' \subseteq Tasks
<1>1. row' \in [Tasks -> TaskRow]
  BY DEF Update, TypeInv
<1>2. wake' \subseteq Tasks
  BY DEF Update, ApplyNotifyDecision, TypeInv
<1>3. Notify(t) \/ UNCHANGED buffer
  BY DEF Update, ApplyNotifyDecision
<1> QED
  BY <1>1, <1>2, <1>3, NotifyType DEF TypeInv, buffer

LEMMA SetStatusType ==
    ASSUME TypeInv, NEW t \in Tasks, NEW status \in TaskStatus,
           NEW who \in {"agent", "operator"}, SetStatus(t, status, who)
    PROVE  /\ ch' \in Seq(Tasks) /\ pending' \subseteq Tasks
           /\ row' \in [Tasks -> TaskRow] /\ wake' \subseteq Tasks
           /\ by' \in [Tasks -> {"agent", "operator", "refused"}]
<1>1. [row[t] EXCEPT !.status = status] \in TaskRow
  BY DEF TypeInv, TaskRow
<1>2. by' \in [Tasks -> {"agent", "operator", "refused"}]
  BY DEF SetStatus, TypeInv
<1> QED
  BY <1>1, <1>2, UpdateType DEF SetStatus

LEMMA InitType == Init => TypeInv
<1> SUFFICES ASSUME Init PROVE TypeInv
  OBVIOUS
<1>1. row \in [Tasks -> TaskRow]
  BY HomeAssumption DEF Init, TaskRow, TaskStatus
<1> QED
  BY <1>1, IdleIsTyped DEF Init, Q!Init, TypeInv

LEMMA OperatorType ==
    ASSUME TypeInv, NEW t \in Tasks, Operator(t)
    PROVE  TypeInv'
<1>1. CASE Create(t)
  BY <1>1, SetStatusType DEF Create, TypeInv, TaskStatus, bounds
<1>2. ASSUME NEW status \in Statuses, PatchStatus(t, status) PROVE TypeInv'
  BY <1>2, SetStatusType DEF PatchStatus, TypeInv, TaskStatus, Statuses
<1>3. CASE Retry(t)
  BY <1>3, SetStatusType DEF Retry, TypeInv, TaskStatus
<1>4. ASSUME NEW w \in Worktrees, Rebind(t, w) PROVE TypeInv'
  <2>1. [row[t] EXCEPT !.wt = w] \in TaskRow
    BY DEF TypeInv, TaskRow
  <2>2. /\ ch' \in Seq(Tasks) /\ pending' \subseteq Tasks
        /\ row' \in [Tasks -> TaskRow] /\ wake' \subseteq Tasks
    BY <1>4, <2>1, UpdateType DEF Rebind
  <2> QED
    BY <1>4, <2>2 DEF Rebind, TypeInv
<1> QED
  BY <1>1, <1>2, <1>3, <1>4 DEF Operator

LEMMA BackgroundType ==
    ASSUME TypeInv, NEW t \in Tasks, Background(t)
    PROVE  TypeInv'
<1>1. CASE PickupDue(t)
  BY <1>1 DEF PickupDue, TypeInv, TaskRow, queue, bounds
<1>2. CASE WakeFires(t)
  BY <1>2, NotifyType DEF WakeFires, TypeInv, bounds, buffer
<1>3. CASE Reconcile(t)
  BY <1>3, AcceptType DEF Reconcile, TypeInv, bounds, tasks
<1> QED
  BY <1>1, <1>2, <1>3 DEF Background

LEMMA PopType ==
    ASSUME TypeInv, NEW s \in Slots, RecvPop(s) \/ RecvDelete(s) \/ Finish(s)
    PROVE  TypeInv'
<1>1. CASE RecvPop(s)
  <2>1. ch' \in Seq(Tasks) /\ Head(ch) \in Tasks
    BY <1>1 DEF RecvPop, Q!RecvPop, TypeInv
  <2> QED
    BY <1>1, <2>1 DEF RecvPop, Q!RecvPop, TypeInv, bounds, tasks
<1>2. CASE RecvDelete(s)
  <2>1. [Idle EXCEPT !.at = "reload"] \in SlotRow
    BY IdleIsTyped DEF SlotRow, Place, Admission
  <2> QED
    BY <1>2, <2>1 DEF RecvDelete, Q!RecvDelete, TypeInv, bounds, tasks
<1>3. CASE Finish(s)
  BY <1>3, IdleIsTyped DEF Finish, At, Q!Ack, TypeInv, bounds, tasks
<1> QED
  BY <1>1, <1>2, <1>3

LEMMA ReloadBecomes ==
    ASSUME TypeInv, NEW s \in Slots, Reload(s)
    PROVE  LET fresh == row[held[s]]
           IN  SlotBecomes(s, IF fresh.status = "running" THEN "openCycle"
                              ELSE IF fresh.status # "ready" THEN "unlock"
                              ELSE IF fresh.later THEN "defer" ELSE "tryLock",
                           fresh.wt, slot[s].cyc, slot[s].ph, slot[s].out)
<1> DEFINE fresh == row[held[s]]
           place == IF fresh.status = "running" THEN "openCycle"
                    ELSE IF fresh.status # "ready" THEN "unlock"
                    ELSE IF fresh.later THEN "defer" ELSE "tryLock"
<1>1. fresh.wt \in Worktrees /\ place \in Place
  BY DEF Reload, At, TypeInv, TaskRow, Place, Admission
<1>2. slot' = [slot EXCEPT ![s].wt = fresh.wt, ![s].at = place]
  BY DEF Reload
<1> HIDE DEF fresh, place
<1>3. SlotBecomes(s, place, fresh.wt, slot[s].cyc, slot[s].ph, slot[s].out)
  BY <1>1, <1>2, ReloadedBecomes
<1> QED
  BY <1>3 DEF fresh, place

LEMMA OpenRunningCycleBecomes ==
    ASSUME TypeInv, LP!IInv, NEW s \in Slots, OpenRunningCycle(s)
    PROVE  \/ \E a \in DOMAIN cycles[held[s]] :
                 SlotBecomes(s, "lock", slot[s].wt, a, slot[s].ph, slot[s].out)
           \/ SlotBecomes(s, "unlock", slot[s].wt, slot[s].cyc, slot[s].ph, slot[s].out)
<1>1. held[s] \in Tasks /\ {"lock", "unlock"} \subseteq Place
  BY DEF OpenRunningCycle, At, TypeInv, Place, Admission
<1>2. ASSUME NEW a \in DOMAIN cycles[held[s]],
             slot' = [slot EXCEPT ![s].cyc = a, ![s].at = "lock"]
      PROVE  SlotBecomes(s, "lock", slot[s].wt, a, slot[s].ph, slot[s].out)
  <2>1. a \in Nat
    BY <1>1, <1>2 DEF LP!IInv, LP!TypeOK
  <2> QED
    BY <1>1, <1>2, <2>1, CycleBecomes
<1> QED
  BY <1>1, <1>2, GotoBecomes DEF OpenRunningCycle

LEMMA AgentPickupBecomes ==
    ASSUME TypeInv, NEW s \in Slots, AgentPickup(s)
    PROVE  \/ /\ row[held[s]].status = "ready"
              /\ SlotBecomes(s, "prepFresh", row[held[s]].wt, slot[s].cyc, slot[s].ph, slot[s].out)
           \/ /\ row[held[s]].status # "ready"
              /\ SlotBecomes(s, "unlock", slot[s].wt, slot[s].cyc, slot[s].ph, slot[s].out)
<1>1. /\ row[held[s]].wt \in Worktrees
      /\ "prepFresh" \in Place /\ "unlock" \in Place
  BY DEF AgentPickup, At, TypeInv, TaskRow, Place, Run
<1>2. CASE row[held[s]].status = "ready"
  <2>1. slot' = [slot EXCEPT ![s].at = "prepFresh", ![s].wt = row[held[s]].wt]
    BY <1>2 DEF AgentPickup
  <2> QED
    BY <1>1, <1>2, <2>1, PickedBecomes
<1>3. CASE row[held[s]].status # "ready"
  BY <1>1, <1>3, GotoBecomes DEF AgentPickup
<1> QED
  BY <1>2, <1>3

LEMMA AdmissionType ==
    ASSUME TypeInv, LP!IInv, NEW s \in Slots,
           \/ Reload(s) \/ OpenRunningCycle(s) \/ Lock(s) \/ TryLock(s)
           \/ Defer(s) \/ AgentPickup(s) \/ GitPrep(s)
    PROVE  TypeInv'
<1>1. CASE Reload(s)
  BY <1>1, ReloadBecomes DEF Reload, SlotBecomes, TypeInv, queue, bounds, tasks
<1>2. CASE OpenRunningCycle(s)
  BY <1>2, OpenRunningCycleBecomes
  DEF OpenRunningCycle, SlotBecomes, TypeInv, queue, bounds, tasks
<1>3. CASE Lock(s)
  <2>1. slot' \in [Slots -> SlotRow]
    BY <1>3, GotoBecomes DEF Lock, SlotBecomes, Place, Run
  <2>2. gate' \in [Worktrees -> Slots \cup {NoSlot}]
    BY <1>3 DEF Lock, TypeInv
  <2> QED
    BY <1>3, <2>1, <2>2 DEF Lock, TypeInv, queue, bounds, tasks
<1>4. CASE TryLock(s)
  <2>1. slot' \in [Slots -> SlotRow]
    BY <1>4, GotoBecomes DEF TryLock, SlotBecomes, Place, Admission
  <2>2. gate' \in [Worktrees -> Slots \cup {NoSlot}]
    BY <1>4 DEF TryLock, TypeInv
  <2> QED
    BY <1>4, <2>1, <2>2 DEF TryLock, TypeInv, queue, bounds, tasks
<1>5. CASE Defer(s)
  <2>1. [row[held[s]] EXCEPT !.later = TRUE] \in TaskRow
    BY <1>5 DEF Defer, At, TypeInv, TaskRow
  <2>2. held[s] \in Tasks
    BY <1>5 DEF Defer, At, TypeInv
  <2>3. slot' \in [Slots -> SlotRow]
    BY <1>5, GotoBecomes DEF Defer, SlotBecomes, Place
  <2> QED
    BY <1>5, <2>1, <2>2, <2>3, UpdateType DEF Defer, TypeInv, bounds
<1>6. CASE AgentPickup(s)
  <2>1. held[s] \in Tasks
    BY <1>6 DEF AgentPickup, At, TypeInv
  <2>2. row' \in [Tasks -> TaskRow]
    BY <1>6, <2>1 DEF AgentPickup, TypeInv, TaskRow, TaskStatus
  <2>3. slot' \in [Slots -> SlotRow]
    BY <1>6, AgentPickupBecomes DEF SlotBecomes
  <2> QED
    BY <1>6, <2>2, <2>3 DEF AgentPickup, TypeInv, queue, bounds
<1>7. CASE GitPrep(s)
  <2>1. slot' \in [Slots -> SlotRow]
    BY <1>7, GotoBecomes DEF GitPrep, SlotBecomes, Place, Run
  <2> QED
    BY <1>7, <2>1 DEF GitPrep, TypeInv, queue, bounds, tasks
<1> QED
  BY <1>1, <1>2, <1>3, <1>4, <1>5, <1>6, <1>7

-----------------------------------------------------------------------------
(* The ledger's calls, as the pool sees them: which rows are there, and      *)
(* which of them run.                                                        *)

SameCycles ==
    \A v \in Tasks :
        /\ DOMAIN cycles'[v] = DOMAIN cycles[v]
        /\ \A b \in DOMAIN cycles[v] :
              /\ cycles'[v][b].status = cycles[v][b].status
              /\ DOMAIN cycles[v][b].phases \subseteq DOMAIN cycles'[v][b].phases

CycleOpened(t) ==
    LET new == Len(cycles[t]) + 1
    IN  /\ DOMAIN cycles'[t] = DOMAIN cycles[t] \cup {new}
        /\ new \in Nat /\ new \notin DOMAIN cycles[t]
        /\ cycles'[t][new].status = "running" /\ cycles'[t][new].phases = <<>>
        /\ \A v \in Tasks : v # t => cycles'[v] = cycles[v]
        /\ \A b \in DOMAIN cycles[t] : cycles'[t][b] = cycles[t][b]

PhaseOpened(t, a) ==
    LET new == Len(cycles[t][a].phases) + 1
    IN  /\ SameCycles
        /\ new \in Nat /\ new \in DOMAIN cycles'[t][a].phases
        /\ \A v \in Tasks : \A b \in DOMAIN cycles[v] : \A p \in DOMAIN cycles'[v][b].phases :
              cycles'[v][b].phases[p].status = "running" =>
                  \/ v = t /\ b = a /\ p = new
                  \/ /\ p \in DOMAIN cycles[v][b].phases
                     /\ cycles[v][b].phases[p].status = "running"

PhaseClosed(t, a, p) ==
    /\ SameCycles
    /\ \A v \in Tasks : \A b \in DOMAIN cycles[v] : \A q \in DOMAIN cycles'[v][b].phases :
          cycles'[v][b].phases[q].status = "running" =>
              /\ ~(v = t /\ b = a /\ q = p)
              /\ q \in DOMAIN cycles[v][b].phases
              /\ cycles[v][b].phases[q].status = "running"

CycleClosed(t, a) ==
    \A v \in Tasks :
        /\ DOMAIN cycles'[v] = DOMAIN cycles[v]
        /\ \A b \in DOMAIN cycles[v] :
              /\ cycles'[v][b].phases = cycles[v][b].phases
              /\ v = t /\ b = a => cycles'[v][b].status # "running"
              /\ ~(v = t /\ b = a) => cycles'[v][b].status = cycles[v][b].status

LEMMA LedgerBounds == MaxAttempts \in Nat /\ MaxPhases \in Nat
  BY LimitsAssumption

LEMMA LedgerRows ==
    ASSUME LP!IInv, NEW t \in Tasks
    PROVE  /\ cycles[t] \in Seq(LP!CycleRow) /\ Len(cycles[t]) \in Nat
           /\ DOMAIN cycles[t] = 1..Len(cycles[t])
           /\ \A a \in DOMAIN cycles[t] :
                 /\ cycles[t][a] \in LP!CycleRow
                 /\ cycles[t][a].phases \in Seq(LP!PhaseRow)
                 /\ Len(cycles[t][a].phases) \in Nat
                 /\ DOMAIN cycles[t][a].phases = 1..Len(cycles[t][a].phases)
<1>1. cycles[t] \in Seq(LP!CycleRow)
  BY DEF LP!IInv, LP!TypeOK
<1>2. \A a \in DOMAIN cycles[t] : cycles[t][a] \in LP!CycleRow
  BY <1>1
<1>3. \A a \in DOMAIN cycles[t] : cycles[t][a].phases \in Seq(LP!PhaseRow)
  BY <1>2 DEF LP!CycleRow
<1> QED
  BY <1>1, <1>2, <1>3

LEMMA StartCycleEffect ==
    ASSUME LP!IInv, NEW t \in Tasks, L!StartCycle(t)
    PROVE  LP!IInv' /\ CycleOpened(t)
<1>1. LP!StartCycle(t)
  BY DEF L!StartCycle, L!HasRunningCycle, L!NewCycle,
         LP!StartCycle, LP!HasRunningCycle, LP!NewCycle
<1>2. LP!NewCycle \in LP!CycleRow
  BY DEF LP!NewCycle, LP!CycleRow
<1>3. \A v \in Tasks : cycles'[v] = IF v = t THEN Append(cycles[t], LP!NewCycle) ELSE cycles[v]
  BY <1>1 DEF LP!StartCycle, LP!IInv, LP!TypeOK
<1>4. /\ DOMAIN cycles'[t] = DOMAIN cycles[t] \cup {Len(cycles[t]) + 1}
      /\ cycles'[t][Len(cycles[t]) + 1] = LP!NewCycle
      /\ \A b \in DOMAIN cycles[t] : cycles'[t][b] = cycles[t][b]
  <2>1. cycles[t] \in Seq(LP!CycleRow)
    BY LedgerRows
  <2> DEFINE u == Append(cycles[t], LP!NewCycle)
  <2>2. /\ DOMAIN u = DOMAIN cycles[t] \cup {Len(cycles[t]) + 1}
        /\ u[Len(cycles[t]) + 1] = LP!NewCycle
        /\ \A b \in DOMAIN cycles[t] : u[b] = cycles[t][b]
    BY <1>2, <2>1, LedgerBounds, LP!AppendElement
  <2>3. cycles'[t] = u
    BY <1>3
  <2> HIDE DEF u
  <2> QED
    BY <2>2, <2>3
<1>5. LP!IInv'
  BY <1>1, LedgerBounds, LP!StartCycleIInv
<1> QED
  BY <1>3, <1>4, <1>5, LedgerRows DEF CycleOpened, LP!NewCycle

\* What the three calls on a cycle have in common.
SetsRow(t, a, new) == cycles' = [cycles EXCEPT ![t] = [cycles[t] EXCEPT ![a] = new]]

OnlyRow(t, a, new) ==
    \A v \in Tasks :
        /\ DOMAIN cycles'[v] = DOMAIN cycles[v]
        /\ \A b \in DOMAIN cycles[v] :
              cycles'[v][b] = IF v = t /\ b = a THEN new ELSE cycles[v][b]

LEMMA RowEdit ==
    ASSUME LP!IInv, NEW t \in Tasks, NEW a \in DOMAIN cycles[t], NEW new \in LP!CycleRow,
           SetsRow(t, a, new)
    PROVE  OnlyRow(t, a, new)
<1> USE DEF SetsRow, OnlyRow
<1>1. \A v \in Tasks :
         cycles'[v] = IF v = t THEN [cycles[t] EXCEPT ![a] = new] ELSE cycles[v]
  BY DEF LP!IInv, LP!TypeOK
<1>2. /\ DOMAIN [cycles[t] EXCEPT ![a] = new] = DOMAIN cycles[t]
      /\ [cycles[t] EXCEPT ![a] = new][a] = new
      /\ \A b \in DOMAIN cycles[t] : b # a => [cycles[t] EXCEPT ![a] = new][b] = cycles[t][b]
  BY LedgerRows, LedgerBounds, LP!UpdateElement
<1> QED
  BY <1>1, <1>2

LEMMA StartPhaseEffect ==
    ASSUME LP!IInv, NEW t \in Tasks, NEW a \in DOMAIN cycles[t],
           NEW kind \in {"execute", "verify"}, L!StartPhase(t, a, kind)
    PROVE  LP!IInv' /\ PhaseOpened(t, a)
<1> DEFINE ps == cycles[t][a].phases
           open == [kind |-> kind, status |-> "running"]
           new == [cycles[t][a] EXCEPT !.phases = Append(ps, open)]
<1>1. LP!StartPhase(t, a, kind) /\ kind \in LP!PhaseKinds
  BY DEF L!StartPhase, L!HasRunningPhase, L!NewPhase, L!MayAppend, L!ValidPhaseTransition,
         L!ValidInterruptResumeTransition, L!ValidVerifyOnlyRetryTransition,
         LP!StartPhase, LP!HasRunningPhase, LP!NewPhase, LP!MayAppend,
         LP!ValidPhaseTransition, LP!ValidInterruptResumeTransition,
         LP!ValidVerifyOnlyRetryTransition, LP!PhaseKinds
<1>2. LP!IInv'
  BY <1>1, LedgerBounds, LP!CycleStepIInv DEF LP!CycleStep
<1>3. open \in LP!PhaseRow /\ open.status = "running"
  BY <1>1 DEF LP!PhaseRow
<1>4. /\ Append(ps, open) \in Seq(LP!PhaseRow)
      /\ DOMAIN Append(ps, open) = DOMAIN ps \cup {Len(ps) + 1}
      /\ \A p \in DOMAIN ps : Append(ps, open)[p] = ps[p]
  <2>1. ps \in Seq(LP!PhaseRow)
    BY LedgerRows, LedgerBounds
  <2> HIDE DEF ps, open
  <2> QED
    BY <1>3, <2>1, LP!AppendElement
<1>5. /\ new \in LP!CycleRow /\ new.phases = Append(ps, open)
      /\ new.status = cycles[t][a].status
  <2>1. cycles[t][a] \in LP!CycleRow
    BY LedgerRows
  <2> HIDE DEF open
  <2> QED
    BY <1>4, <2>1 DEF LP!CycleRow
<1>6. SetsRow(t, a, new)
  BY DEF SetsRow, L!StartPhase, L!NewPhase, LP!IInv, LP!TypeOK
<1> HIDE DEF new, ps, open
<1>7. OnlyRow(t, a, new)
  BY <1>5, <1>6, RowEdit
<1>8. SameCycles
  BY <1>4, <1>5, <1>7 DEF SameCycles, OnlyRow, ps
<1>9. Len(ps) + 1 \in Nat /\ Len(ps) + 1 \in DOMAIN cycles'[t][a].phases
  BY <1>4, <1>5, <1>7, LedgerRows DEF OnlyRow, ps
<1> QED
  BY <1>2, <1>4, <1>5, <1>7, <1>8, <1>9 DEF PhaseOpened, OnlyRow, ps

LEMMA CompletePhaseEffect ==
    ASSUME LP!IInv, NEW t \in Tasks, NEW a \in DOMAIN cycles[t],
           NEW p \in DOMAIN cycles[t][a].phases,
           NEW status \in {"succeeded", "failed"}, L!CompletePhase(t, a, p, status)
    PROVE  LP!IInv' /\ PhaseClosed(t, a, p)
<1> DEFINE ps == cycles[t][a].phases
           done == [ps[p] EXCEPT !.status = status]
           new == [cycles[t][a] EXCEPT !.phases = [ps EXCEPT ![p] = done]]
<1>1. LP!CompletePhase(t, a, p, status) /\ status \in LP!TerminalPhaseStatus
  BY DEF L!CompletePhase, LP!CompletePhase, LP!TerminalPhaseStatus
<1>2. LP!IInv'
  BY <1>1, LedgerBounds, LP!CycleStepIInv DEF LP!CycleStep
<1>3. ps[p] \in LP!PhaseRow
  BY LedgerRows
<1>4. done \in LP!PhaseRow /\ done.status = status
  BY <1>1, <1>3 DEF LP!PhaseRow
<1>5. /\ [ps EXCEPT ![p] = done] \in Seq(LP!PhaseRow)
      /\ DOMAIN [ps EXCEPT ![p] = done] = DOMAIN ps
      /\ [ps EXCEPT ![p] = done][p] = done
      /\ \A q \in DOMAIN ps : q # p => [ps EXCEPT ![p] = done][q] = ps[q]
  BY <1>4, LedgerRows, LedgerBounds, LP!UpdateElement
<1>6. /\ new \in LP!CycleRow /\ new.phases = [ps EXCEPT ![p] = done]
      /\ new.status = cycles[t][a].status
  <2>1. cycles[t][a] \in LP!CycleRow
    BY LedgerRows
  <2> HIDE DEF ps, done
  <2> QED
    BY <1>5, <2>1 DEF LP!CycleRow
<1>7. SetsRow(t, a, new)
  BY DEF SetsRow, L!CompletePhase, LP!IInv, LP!TypeOK
<1> HIDE DEF new, ps, done
<1>8. OnlyRow(t, a, new)
  BY <1>6, <1>7, RowEdit
<1>9. SameCycles
  BY <1>5, <1>6, <1>8 DEF SameCycles, OnlyRow, ps
<1> QED
  BY <1>2, <1>4, <1>5, <1>6, <1>8, <1>9 DEF PhaseClosed, OnlyRow, ps

LEMMA TerminateEffect ==
    ASSUME LP!IInv, NEW t \in Tasks, NEW a \in DOMAIN cycles[t],
           NEW status \in {"succeeded", "failed"}, L!Terminate(t, a, status)
    PROVE  LP!IInv' /\ CycleClosed(t, a)
<1> DEFINE new == [cycles[t][a] EXCEPT !.status = status]
<1>1. LP!Terminate(t, a, status) /\ status \in LP!TerminalCycleStatus
  BY DEF L!Terminate, L!HasRunningPhase, LP!Terminate, LP!HasRunningPhase,
         LP!TerminalCycleStatus
<1>2. LP!IInv'
  BY <1>1, LedgerBounds, LP!CycleStepIInv DEF LP!CycleStep
<1>3. /\ new \in LP!CycleRow /\ new.phases = cycles[t][a].phases
      /\ new.status # "running"
  BY <1>1, LedgerRows, SMTT(15), ZenonT(40) DEF LP!CycleRow
<1>4. SetsRow(t, a, new)
  BY DEF SetsRow, L!Terminate, LP!IInv, LP!TypeOK
<1> HIDE DEF new
<1>5. OnlyRow(t, a, new)
  BY <1>3, <1>4, RowEdit
<1> QED
  BY <1>2, <1>3, <1>5 DEF CycleClosed, OnlyRow

-----------------------------------------------------------------------------
(* The harness' steps: where the slot goes, and what becomes of the ledger.  *)

\* Slot s goes to one of the places, with a verdict if it is to close the cycle.
MovesOn(s, places, cyc, ph) ==
    \E place \in places : \E out \in {"none", "succeeded", "failed"} :
        /\ SlotBecomes(s, place, slot[s].wt, cyc, ph, out)
        /\ place \in {"terminate", "settle"} => out # "none"

\* The store refused the call, or there was none.
LedgerStays == UNCHANGED cycles /\ LP!IInv'

LEMMA LedgerStutters == ASSUME LP!IInv, UNCHANGED cycles PROVE LedgerStays
  BY LedgerBounds, LP!StepIInv DEF LedgerStays

LEMMA GotoMoves ==
    ASSUME TypeInv, NEW s \in Slots, NEW place \in Place, Goto(s, place),
           place \in {"terminate", "settle"} => slot[s].out # "none",
           NEW places, place \in places
    PROVE  MovesOn(s, places, slot[s].cyc, slot[s].ph)
<1>1. slot[s].out \in {"none", "succeeded", "failed"}
  BY DEF TypeInv, SlotRow
<1> QED
  BY <1>1, GotoBecomes DEF MovesOn

LEMMA VerdictMoves ==
    ASSUME TypeInv, NEW s \in Slots, NEW out \in {"succeeded", "failed"},
           slot' = [slot EXCEPT ![s].at = "terminate", ![s].out = out],
           NEW places, "terminate" \in places
    PROVE  MovesOn(s, places, slot[s].cyc, slot[s].ph)
<1>1. "terminate" \in Place
  BY DEF Place, Run
<1> QED
  BY <1>1, VerdictBecomes DEF MovesOn

LEMMA AfterFailedVerifyMoves ==
    ASSUME TypeInv, NEW s \in Slots, AfterFailedVerify(s)
    PROVE  MovesOn(s, {"startExecute", "startVerify", "terminate"}, slot[s].cyc, slot[s].ph)
<1>1. ASSUME NEW next \in {"startExecute", "startVerify"},
             slot' = [slot EXCEPT ![s].tries = @ + 1, ![s].at = next]
      PROVE  MovesOn(s, {"startExecute", "startVerify", "terminate"}, slot[s].cyc, slot[s].ph)
  <2>1. slot[s].tries + 1 \in Nat /\ next \in Place
    BY DEF TypeInv, SlotRow, Place, Run
  <2>2. slot' = [slot EXCEPT ![s].tries = slot[s].tries + 1, ![s].at = next]
    BY <1>1
  <2>3. SlotBecomes(s, next, slot[s].wt, slot[s].cyc, slot[s].ph, slot[s].out)
    BY <2>1, <2>2, RetryBecomes
  <2>4. slot[s].out \in {"none", "succeeded", "failed"}
    BY DEF TypeInv, SlotRow
  <2> QED
    BY <2>3, <2>4 DEF MovesOn
<1> QED
  BY <1>1, VerdictMoves DEF AfterFailedVerify

LEMMA StartCycleMoves ==
    ASSUME TypeInv, LP!IInv, NEW s \in Slots, StartCycle(s)
    PROVE  \/ /\ L!HasRunningCycle(held[s]) /\ LedgerStays
              /\ MovesOn(s, {"failTask"}, slot[s].cyc, slot[s].ph)
           \/ /\ ~L!HasRunningCycle(held[s]) /\ LP!IInv' /\ CycleOpened(held[s])
              /\ MovesOn(s, {"startExecute"}, Len(cycles[held[s]]) + 1, slot[s].ph)
<1>1. held[s] \in Tasks /\ "failTask" \in Place /\ "startExecute" \in Place
  BY DEF StartCycle, At, TypeInv, Place, Run
<1>2. CASE L!HasRunningCycle(held[s])
  BY <1>1, <1>2, GotoMoves, LedgerStutters DEF StartCycle
<1>3. CASE ~L!HasRunningCycle(held[s])
  <2>1. LP!IInv' /\ CycleOpened(held[s])
    BY <1>1, <1>3, StartCycleEffect DEF StartCycle
  <2>2. Len(cycles[held[s]]) + 1 \in Nat /\ slot[s].out \in {"none", "succeeded", "failed"}
    BY <1>1, LedgerRows DEF TypeInv, SlotRow
  <2>3. slot' = [slot EXCEPT ![s].cyc = Len(cycles[held[s]]) + 1, ![s].at = "startExecute"]
    BY <1>3 DEF StartCycle
  <2>4. SlotBecomes(s, "startExecute", slot[s].wt, Len(cycles[held[s]]) + 1,
                    slot[s].ph, slot[s].out)
    BY <1>1, <2>2, <2>3, CycleBecomes
  <2> QED
    BY <1>3, <2>1, <2>2, <2>4 DEF MovesOn
<1> QED
  BY <1>2, <1>3

\* The number of stored reports is a number.
LEMMA ReportedIsNat ==
    ASSUME LP!IInv, NEW t \in Tasks, NEW a \in DOMAIN cycles[t]
    PROVE  Reported(cycles[t][a].phases) \subseteq Nat
<1> DEFINE phases == cycles[t][a].phases
           closed == {p \in DOMAIN phases : phases[p].kind = "verify"
                                            /\ phases[p].status # "interrupted"}
           cut == {p \in DOMAIN phases : phases[p].kind = "verify"
                                         /\ phases[p].status = "interrupted"}
<1>1. IsFiniteSet(DOMAIN phases)
  <2>1. DOMAIN phases = 1..Len(phases) /\ Len(phases) \in Int /\ 1 \in Int
    BY LedgerRows
  <2>2. IsFiniteSet(1..Len(phases))
    BY <2>1, FS_Interval
  <2> QED
    BY <2>1, <2>2
<1>2. IsFiniteSet(closed) /\ IsFiniteSet(cut)
  BY <1>1, FS_Subset
<1>3. Cardinality(closed) \in Nat /\ Cardinality(cut) \in Nat
  BY <1>2, FS_CardinalityType
<1>4. Reported(phases) = {Cardinality(closed) + n : n \in 0..Cardinality(cut)}
  BY DEF Reported
<1>5. \A i, j \in Nat : {i + n : n \in 0..j} \subseteq Nat
  OBVIOUS
<1> QED
  BY <1>3, <1>4, <1>5

LEMMA ResumeMoves ==
    ASSUME TypeInv, LP!IInv, SlotPointsIntoLedger, NEW s \in Slots, Resume(s)
    PROVE  /\ LedgerStays
           /\ MovesOn(s, {"failTask", "startExecute", "startVerify"}, slot[s].cyc, slot[s].ph)
<1>1. held[s] \in Tasks /\ slot[s].cyc \in DOMAIN cycles[held[s]]
  BY DEF Resume, At, Busy, TypeInv, SlotPointsIntoLedger
<1>2. PICK entry \in {"failTask", "startExecute", "startVerify"} :
        \E n \in Reported(MyPhases(s)) :
            slot' = [slot EXCEPT ![s].at = entry, ![s].tries = n]
  BY DEF Resume
<1>3. PICK n \in Reported(MyPhases(s)) :
        slot' = [slot EXCEPT ![s].at = entry, ![s].tries = n]
  BY <1>2
<1>4. n \in Nat /\ entry \in Place
  BY <1>1, ReportedIsNat DEF MyPhases, Place, Run
<1>5. SlotBecomes(s, entry, slot[s].wt, slot[s].cyc, slot[s].ph, slot[s].out)
  BY <1>3, <1>4, ResumedBecomes
<1>6. slot[s].out \in {"none", "succeeded", "failed"}
  BY DEF TypeInv, SlotRow
<1>7. MovesOn(s, {"failTask", "startExecute", "startVerify"}, slot[s].cyc, slot[s].ph)
  BY <1>5, <1>6 DEF MovesOn
<1> QED
  BY <1>7, LedgerStutters DEF Resume

LEMMA StartExecuteMoves ==
    ASSUME TypeInv, LP!IInv, SlotPointsIntoLedger, NEW s \in Slots, StartExecute(s)
    PROVE  \/ /\ LedgerStays
              /\ MovesOn(s, {"abort"}, slot[s].cyc, slot[s].ph)
           \/ /\ CanStart(s, "execute") /\ LP!IInv' /\ PhaseOpened(held[s], slot[s].cyc)
              /\ MovesOn(s, {"execute"}, slot[s].cyc, Len(MyPhases(s)) + 1)
<1>1. /\ held[s] \in Tasks /\ slot[s].cyc \in DOMAIN cycles[held[s]]
      /\ "abort" \in Place /\ "execute" \in Place
  BY DEF StartExecute, At, Busy, TypeInv, SlotPointsIntoLedger, Cycling, Place, Run
<1>2. CASE ~CanStart(s, "execute")
  BY <1>1, <1>2, GotoMoves, LedgerStutters DEF StartExecute
<1>3. CASE CanStart(s, "execute")
  <2>1. LP!IInv' /\ PhaseOpened(held[s], slot[s].cyc)
    BY <1>1, <1>3, StartPhaseEffect DEF StartExecute
  <2>2. Len(MyPhases(s)) + 1 \in Nat /\ slot[s].out \in {"none", "succeeded", "failed"}
    BY <1>1, LedgerRows DEF TypeInv, SlotRow, MyPhases
  <2>3. slot' = [slot EXCEPT ![s].ph = Len(MyPhases(s)) + 1, ![s].at = "execute"]
    BY <1>3 DEF StartExecute
  <2>4. SlotBecomes(s, "execute", slot[s].wt, slot[s].cyc, Len(MyPhases(s)) + 1, slot[s].out)
    BY <1>1, <2>2, <2>3, PhaseBecomes
  <2> QED
    BY <1>3, <2>1, <2>2, <2>4 DEF MovesOn
<1> QED
  BY <1>2, <1>3

LEMMA StartVerifyMoves ==
    ASSUME TypeInv, LP!IInv, SlotPointsIntoLedger, NEW s \in Slots, StartVerify(s)
    PROVE  \/ /\ LedgerStays
              /\ MovesOn(s, {"startExecute", "startVerify", "terminate"},
                         slot[s].cyc, slot[s].ph)
           \/ /\ CanStart(s, "verify") /\ LP!IInv' /\ PhaseOpened(held[s], slot[s].cyc)
              /\ MovesOn(s, {"verify"}, slot[s].cyc, Len(MyPhases(s)) + 1)
<1>1. /\ held[s] \in Tasks /\ slot[s].cyc \in DOMAIN cycles[held[s]] /\ "verify" \in Place
  BY DEF StartVerify, At, Busy, TypeInv, SlotPointsIntoLedger, Cycling, Place, Run
<1>2. CASE ~CanStart(s, "verify")
  BY <1>2, AfterFailedVerifyMoves, LedgerStutters DEF StartVerify
<1>3. CASE CanStart(s, "verify")
  <2>1. LP!IInv' /\ PhaseOpened(held[s], slot[s].cyc)
    BY <1>1, <1>3, StartPhaseEffect DEF StartVerify
  <2>2. Len(MyPhases(s)) + 1 \in Nat /\ slot[s].out \in {"none", "succeeded", "failed"}
    BY <1>1, LedgerRows DEF TypeInv, SlotRow, MyPhases
  <2>3. slot' = [slot EXCEPT ![s].ph = Len(MyPhases(s)) + 1, ![s].at = "verify"]
    BY <1>3 DEF StartVerify
  <2>4. SlotBecomes(s, "verify", slot[s].wt, slot[s].cyc, Len(MyPhases(s)) + 1, slot[s].out)
    BY <1>1, <2>2, <2>3, PhaseBecomes
  <2> QED
    BY <1>3, <2>1, <2>2, <2>4 DEF MovesOn
<1> QED
  BY <1>2, <1>3

\* The phase the slot leaves does not run any more.
PhaseLeft(s) ==
    \/ ~PhaseIsMine(s) /\ LedgerStays
    \/ LP!IInv' /\ PhaseClosed(held[s], slot[s].cyc, slot[s].ph)

LEMMA ExecuteReturnsMoves ==
    ASSUME TypeInv, LP!IInv, SlotPointsIntoLedger, NEW s \in Slots, ExecuteReturns(s)
    PROVE  /\ PhaseLeft(s)
           /\ MovesOn(s, {"startVerify", "terminate", "abort"}, slot[s].cyc, slot[s].ph)
<1>1. /\ held[s] \in Tasks /\ slot[s].cyc \in DOMAIN cycles[held[s]]
      /\ slot[s].ph \in DOMAIN cycles[held[s]][slot[s].cyc].phases
      /\ "abort" \in Place /\ "startVerify" \in Place
  BY DEF ExecuteReturns, At, Busy, TypeInv, SlotPointsIntoLedger, Cycling, Place, Run
<1>2. CASE ~PhaseIsMine(s)
  BY <1>1, <1>2, GotoMoves, LedgerStutters DEF ExecuteReturns, PhaseLeft
<1>3. CASE PhaseIsMine(s)
  <2>1. LP!IInv' /\ PhaseClosed(held[s], slot[s].cyc, slot[s].ph)
    BY <1>1, <1>3, CompletePhaseEffect DEF ExecuteReturns
  <2>2. \/ Goto(s, "startVerify") \/ Goto(s, "abort")
        \/ slot' = [slot EXCEPT ![s].at = "terminate", ![s].out = "failed"]
    BY <1>3 DEF ExecuteReturns
  <2> QED
    BY <1>1, <2>1, <2>2, GotoMoves, VerdictMoves DEF PhaseLeft
<1> QED
  BY <1>2, <1>3

LEMMA VerifyReturnsMoves ==
    ASSUME TypeInv, LP!IInv, SlotPointsIntoLedger, NEW s \in Slots, VerifyReturns(s)
    PROVE  /\ PhaseLeft(s)
           /\ MovesOn(s, {"startExecute", "startVerify", "terminate", "abort"},
                      slot[s].cyc, slot[s].ph)
<1>1. /\ held[s] \in Tasks /\ slot[s].cyc \in DOMAIN cycles[held[s]]
      /\ slot[s].ph \in DOMAIN cycles[held[s]][slot[s].cyc].phases
      /\ "abort" \in Place
  BY DEF VerifyReturns, At, Busy, TypeInv, SlotPointsIntoLedger, Cycling, Place, Run
<1>2. \E status \in {"succeeded", "failed"} : CloseVerify(s, status)
  BY DEF VerifyReturns
<1>3. PhaseLeft(s)
  BY <1>1, <1>2, CompletePhaseEffect, LedgerStutters DEF CloseVerify, PhaseLeft
<1>4. \/ AfterFailedVerify(s) \/ Goto(s, "abort")
      \/ \E out \in {"succeeded", "failed"} :
            slot' = [slot EXCEPT ![s].at = "terminate", ![s].out = out]
  BY DEF VerifyReturns
<1>5. MovesOn(s, {"startExecute", "startVerify", "terminate", "abort"},
              slot[s].cyc, slot[s].ph)
  <2>1. CASE AfterFailedVerify(s)
    BY <2>1, AfterFailedVerifyMoves DEF MovesOn
  <2> QED
    BY <1>1, <1>4, <2>1, GotoMoves, VerdictMoves
<1> QED
  BY <1>3, <1>5

LEMMA TerminateMoves ==
    ASSUME TypeInv, LP!IInv, SlotPointsIntoLedger, NEW s \in Slots, Terminate(s)
    PROVE  \/ /\ CanTerminate(s) /\ LP!IInv' /\ CycleClosed(held[s], slot[s].cyc)
              /\ MovesOn(s, {"settle"}, slot[s].cyc, slot[s].ph)
           \/ /\ ~CanTerminate(s) /\ LedgerStays
              /\ MovesOn(s, {"unlock"}, slot[s].cyc, slot[s].ph)
<1>1. /\ held[s] \in Tasks /\ slot[s].cyc \in DOMAIN cycles[held[s]]
      /\ slot[s].out \in {"succeeded", "failed"}
      /\ "settle" \in Place /\ "unlock" \in Place
  BY DEF Terminate, At, Busy, TypeInv, SlotPointsIntoLedger, Cycling, Place, Run
<1>2. CASE CanTerminate(s)
  BY <1>1, <1>2, GotoMoves, TerminateEffect DEF Terminate
<1>3. CASE ~CanTerminate(s)
  BY <1>1, <1>3, GotoMoves, LedgerStutters DEF Terminate
<1> QED
  BY <1>2, <1>3

LEMMA AbortMoves ==
    ASSUME TypeInv, LP!IInv, SlotPointsIntoLedger, NEW s \in Slots, Abort(s)
    PROVE  /\ MovesOn(s, {"failTask"}, slot[s].cyc, slot[s].ph)
           /\ \/ CanTerminate(s) /\ LP!IInv' /\ CycleClosed(held[s], slot[s].cyc)
              \/ ~CanTerminate(s) /\ LedgerStays
<1>1. /\ held[s] \in Tasks /\ slot[s].cyc \in DOMAIN cycles[held[s]] /\ "failTask" \in Place
  BY DEF Abort, At, Busy, TypeInv, SlotPointsIntoLedger, Cycling, Place, Run
<1>2. MovesOn(s, {"failTask"}, slot[s].cyc, slot[s].ph)
  BY <1>1, GotoMoves DEF Abort
<1> QED
  BY <1>1, <1>2, TerminateEffect, LedgerStutters DEF Abort

-----------------------------------------------------------------------------
(* Frames: what whole groups of steps leave alone.                           *)

\* The only locals that change are those of slot s.
OnlySlot(s) ==
    \A r \in Slots : r # s => slot'[r] = slot[r] /\ pc'[r] = pc[r] /\ held'[r] = held[r]

\* A status update of task t.
StatusBecomes(t, status, who) ==
    /\ row'[t].status = status /\ row'[t].wt = row[t].wt /\ by'[t] = who
    /\ \A v \in Tasks : v # t => row'[v] = row[v] /\ by'[v] = by[v]

LEMMA SetStatusEffect ==
    ASSUME TypeInv, NEW t \in Tasks, NEW status \in TaskStatus, NEW who,
           SetStatus(t, status, who)
    PROVE  StatusBecomes(t, status, who)
<1>1. row' = [row EXCEPT ![t] = [row[t] EXCEPT !.status = status]]
  BY DEF SetStatus, Update
<1>2. row'[t] = [row[t] EXCEPT !.status = status] /\ row[t] \in TaskRow
  BY <1>1 DEF TypeInv
<1>3. by'[t] = who /\ \A v \in Tasks : v # t => by'[v] = by[v]
  BY DEF SetStatus, TypeInv
<1> QED
  BY <1>1, <1>2, <1>3 DEF StatusBecomes, TypeInv, TaskRow

HarnessStep(s) ==
    \/ GitPrep(s) \/ StartCycle(s) \/ Resume(s) \/ StartExecute(s) \/ ExecuteReturns(s)
    \/ StartVerify(s) \/ VerifyReturns(s) \/ Terminate(s) \/ Settle(s) \/ Abort(s)
    \/ FailTask(s)

LEMMA MovesOnFrame ==
    ASSUME TypeInv, NEW s \in Slots, NEW places, NEW cyc, NEW ph,
           MovesOn(s, places, cyc, ph), UNCHANGED <<pc, held>>
    PROVE  /\ slot' \in [Slots -> SlotRow] /\ OnlySlot(s)
           /\ slot'[s].at \in places /\ slot'[s].wt = slot[s].wt
           /\ slot'[s].cyc = cyc /\ slot'[s].ph = ph
           /\ slot'[s].at \in {"terminate", "settle"} => slot'[s].out \in {"succeeded", "failed"}
  BY DEF MovesOn, SlotBecomes, OnlySlot

\* The steps of a run that write a task row, or are refused to.
LEMMA SettleMoves ==
    ASSUME TypeInv, NEW s \in Slots, Settle(s) \/ FailTask(s)
    PROVE  /\ MovesOn(s, {"unlock"}, slot[s].cyc, slot[s].ph)
           /\ held[s] \in Tasks /\ row'[held[s]].wt = row[held[s]].wt /\ ~Picked(held[s])'
           /\ \A v \in Tasks : v # held[s] => row'[v] = row[v] /\ by'[v] = by[v]
           /\ ch' \in Seq(Tasks) /\ pending' \subseteq Tasks
           /\ row' \in [Tasks -> TaskRow] /\ wake' \subseteq Tasks
           /\ by' \in [Tasks -> {"agent", "operator", "refused"}]
<1>1. held[s] \in Tasks /\ "unlock" \in Place /\ held' = held
  BY DEF Settle, FailTask, At, TypeInv, Place
<1>2. MovesOn(s, {"unlock"}, slot[s].cyc, slot[s].ph)
  <2>1. Goto(s, "unlock")
    BY DEF Settle, FailTask
  <2> QED
    BY <1>1, <2>1, GotoMoves
<1>3. CASE \E status \in {"done", "failed"} : SetStatus(held[s], status, "agent")
  <2>1. PICK status \in {"done", "failed"} : SetStatus(held[s], status, "agent")
    BY <1>3
  <2>2. status \in TaskStatus
    BY DEF TaskStatus
  <2>3. StatusBecomes(held[s], status, "agent")
    BY <1>1, <2>1, <2>2, SetStatusEffect
  <2>4. ~Picked(held[s])'
    BY <1>1, <2>3 DEF StatusBecomes, Picked
  <2>5. by' \in [Tasks -> {"agent", "operator", "refused"}]
    BY <1>1, <2>1 DEF SetStatus, TypeInv
  <2>6. ch' \in Seq(Tasks) /\ pending' \subseteq Tasks /\ row' \in [Tasks -> TaskRow]
        /\ wake' \subseteq Tasks
    BY <1>1, <2>1, <2>2, SetStatusType
  <2> QED
    BY <1>1, <1>2, <2>3, <2>4, <2>5, <2>6 DEF StatusBecomes
<1>4. CASE by' = [by EXCEPT ![held[s]] = "refused"] /\ UNCHANGED <<buffer, row, wake>>
  <2>1. /\ ch' = ch /\ pending' = pending /\ row' = row /\ wake' = wake
        /\ by \in [Tasks -> {"agent", "operator", "refused"}]
        /\ ch \in Seq(Tasks) /\ pending \subseteq Tasks
        /\ row \in [Tasks -> TaskRow] /\ wake \subseteq Tasks
    BY <1>4 DEF buffer, TypeInv
  <2>2. /\ by'[held[s]] = "refused" /\ \A v \in Tasks : v # held[s] => by'[v] = by[v]
        /\ by' \in [Tasks -> {"agent", "operator", "refused"}]
    BY <1>1, <1>4, <2>1
  <2>3. ~Picked(held[s])'
    BY <1>1, <2>2 DEF Picked
  <2> QED
    BY <1>1, <1>2, <2>1, <2>2, <2>3
<1>5. (\E status \in {"done", "failed"} : SetStatus(held[s], status, "agent"))
      \/ (by' = [by EXCEPT ![held[s]] = "refused"] /\ UNCHANGED <<buffer, row, wake>>)
  <2>1. CASE Settle(s)
    <3>1. (IF slot[s].out = "succeeded" THEN "done" ELSE "failed") \in {"done", "failed"}
      OBVIOUS
    <3> QED
      BY <2>1, <3>1 DEF Settle
  <2>2. CASE FailTask(s)
    BY <2>2 DEF FailTask
  <2> QED
    BY <2>1, <2>2
<1> QED
  BY <1>3, <1>4, <1>5

LEMMA GitPrepMoves ==
    ASSUME TypeInv, NEW s \in Slots, GitPrep(s)
    PROVE  \/ /\ slot[s].at = "prepFresh"
              /\ MovesOn(s, {"startCycle", "failTask"}, slot[s].cyc, slot[s].ph)
           \/ /\ slot[s].at = "prepResume"
              /\ MovesOn(s, {"resume", "failTask"}, slot[s].cyc, slot[s].ph)
<1>1. {"startCycle", "resume", "failTask"} \subseteq Place
  BY DEF Place, Run
<1> QED
  BY <1>1, GotoMoves DEF GitPrep, At

LEMMA HarnessMoves ==
    ASSUME TypeInv, LP!IInv, SlotPointsIntoLedger, NEW s \in Slots, HarnessStep(s)
    PROVE  \E cyc, ph : MovesOn(s, Run \cup {"unlock"}, cyc, ph)
<1>1. ASSUME NEW places, places \subseteq Run \cup {"unlock"}, NEW cyc, NEW ph,
             MovesOn(s, places, cyc, ph)
      PROVE  MovesOn(s, Run \cup {"unlock"}, cyc, ph)
  BY <1>1 DEF MovesOn
<1>2. CASE GitPrep(s)
  BY <1>1, <1>2, GitPrepMoves DEF Run
<1>3. CASE StartCycle(s)
  BY <1>1, <1>3, StartCycleMoves DEF Run
<1>4. CASE Resume(s)
  BY <1>1, <1>4, ResumeMoves DEF Run
<1>5. CASE StartExecute(s)
  BY <1>1, <1>5, StartExecuteMoves DEF Run
<1>6. CASE ExecuteReturns(s)
  BY <1>1, <1>6, ExecuteReturnsMoves DEF Run
<1>7. CASE StartVerify(s)
  BY <1>1, <1>7, StartVerifyMoves DEF Run
<1>8. CASE VerifyReturns(s)
  BY <1>1, <1>8, VerifyReturnsMoves DEF Run
<1>9. CASE Terminate(s)
  BY <1>1, <1>9, TerminateMoves DEF Run
<1>10. CASE Settle(s) \/ FailTask(s)
  BY <1>1, <1>10, SettleMoves
<1>11. CASE Abort(s)
  BY <1>1, <1>11, AbortMoves DEF Run
<1> QED
  BY <1>2, <1>3, <1>4, <1>5, <1>6, <1>7, <1>8, <1>9, <1>10, <1>11 DEF HarnessStep

LEMMA HarnessFrame ==
    ASSUME TypeInv, LP!IInv, SlotPointsIntoLedger, NEW s \in Slots, HarnessStep(s)
    PROVE  /\ TypeInv' /\ OnlySlot(s) /\ UNCHANGED <<pc, held, gate, bounds>>
           /\ Busy(s) /\ slot[s].at \in Run
           /\ slot'[s].at \in Run \cup {"unlock"} /\ slot'[s].wt = slot[s].wt
           /\ \A t \in Tasks : row'[t].wt = row[t].wt
<1>1. Busy(s) /\ slot[s].at \in Run
  BY DEF HarnessStep, GitPrep, StartCycle, Resume, StartExecute, ExecuteReturns, StartVerify,
         VerifyReturns, Terminate, Settle, Abort, FailTask, At, Busy, Run
<1>2. UNCHANGED <<pc, held, gate, bounds>>
  BY DEF HarnessStep, GitPrep, StartCycle, Resume, StartExecute, ExecuteReturns, StartVerify,
         VerifyReturns, Terminate, Settle, Abort, FailTask, ledgerOnly, queue
<1>3. /\ slot' \in [Slots -> SlotRow] /\ OnlySlot(s)
      /\ slot'[s].at \in Run \cup {"unlock"} /\ slot'[s].wt = slot[s].wt
  BY <1>2, HarnessMoves, MovesOnFrame
<1>4. /\ ch' \in Seq(Tasks) /\ pending' \subseteq Tasks
      /\ row' \in [Tasks -> TaskRow] /\ wake' \subseteq Tasks
      /\ by' \in [Tasks -> {"agent", "operator", "refused"}]
      /\ \A t \in Tasks : row'[t].wt = row[t].wt
  <2>1. CASE Settle(s) \/ FailTask(s)
    BY <2>1, SettleMoves
  <2>2. CASE UNCHANGED <<queue, tasks>>
    BY <2>2 DEF TypeInv, queue, tasks
  <2> QED
    BY <2>1, <2>2
    DEF HarnessStep, GitPrep, StartCycle, Resume, StartExecute, ExecuteReturns, StartVerify,
        VerifyReturns, Terminate, Abort, ledgerOnly
<1>5. TypeInv'
  BY <1>2, <1>3, <1>4 DEF TypeInv, bounds
<1> QED
  BY <1>1, <1>2, <1>3, <1>4, <1>5

-----------------------------------------------------------------------------
(* The sweep of a restart: every running phase row is closed, in one go.     *)

LEMMA PrefixEnd ==
    ASSUME NEW S, NEW s \in Seq(S), NEW p \in DOMAIN s
    PROVE  LET prefix == SubSeq(s, 1, p - 1)
           IN  IF p = 1 THEN prefix = <<>>
               ELSE prefix # <<>> /\ p - 1 \in DOMAIN s /\ prefix[Len(prefix)] = s[p - 1]
<1>1. p \in 1..Len(s) /\ Len(s) \in Nat
  OBVIOUS
<1>2. SubSeq(s, 1, p - 1) \in Seq(S) /\ Len(SubSeq(s, 1, p - 1)) = p - 1
  BY <1>1
<1>3. \A j \in 1..(p - 1) : SubSeq(s, 1, p - 1)[j] = s[j]
  BY <1>1
<1> QED
  BY <1>1, <1>2, <1>3

LEMMA FinalizedPhases ==
    ASSUME NEW ps \in Seq(LP!PhaseRow)
    PROVE  /\ Finalized(ps) \in Seq(LP!PhaseRow) /\ Len(Finalized(ps)) = Len(ps)
           /\ DOMAIN Finalized(ps) = DOMAIN ps
           /\ \A p \in DOMAIN ps :
                 /\ Finalized(ps)[p].kind = ps[p].kind
                 /\ Finalized(ps)[p].status # "running"
                 /\ ps[p].status # "running" => Finalized(ps)[p] = ps[p]
<1>1. /\ DOMAIN Finalized(ps) = 1..Len(ps) /\ Len(ps) \in Nat /\ DOMAIN ps = 1..Len(ps)
      /\ \A p \in DOMAIN ps : ps[p] \in LP!PhaseRow
  BY DEF Finalized
<1>2. ASSUME NEW p \in DOMAIN ps
      PROVE  /\ Finalized(ps)[p] \in LP!PhaseRow /\ Finalized(ps)[p].kind = ps[p].kind
             /\ Finalized(ps)[p].status # "running"
             /\ ps[p].status # "running" => Finalized(ps)[p] = ps[p]
  <2>1. CASE ps[p].status = "running"
    <3>1. Finalized(ps)[p] = [ps[p] EXCEPT !.status = "interrupted"]
      BY <2>1 DEF Finalized
    <3> QED
      BY <1>1, <2>1, <3>1 DEF LP!PhaseRow, LP!TerminalPhaseStatus
  <2>2. CASE ps[p].status # "running"
    <3>1. Finalized(ps)[p] = ps[p]
      BY <2>2 DEF Finalized
    <3> QED
      BY <1>1, <2>2, <3>1
  <2> QED
    BY <2>1, <2>2
<1>3. Finalized(ps) \in [1..Len(ps) -> LP!PhaseRow]
  BY <1>1, <1>2 DEF Finalized
<1>4. Finalized(ps) \in Seq(LP!PhaseRow) /\ Len(Finalized(ps)) = Len(ps)
  BY <1>1, <1>3
<1> QED
  BY <1>1, <1>2, <1>4

\* Closing a phase as interrupted never forbids a successor it had.
LEMMA FinalizedHistory ==
    ASSUME NEW ps \in Seq(LP!PhaseRow), NEW p \in DOMAIN ps,
           LP!MayAppend(SubSeq(ps, 1, p - 1), ps[p].kind)
    PROVE  LP!MayAppend(SubSeq(Finalized(ps), 1, p - 1), Finalized(ps)[p].kind)
<1> DEFINE qs == Finalized(ps)
<1>1. qs \in Seq(LP!PhaseRow) /\ p \in DOMAIN qs /\ qs[p].kind = ps[p].kind
  BY FinalizedPhases
<1>2. CASE p = 1
  <2>1. SubSeq(qs, 1, p - 1) = <<>> /\ SubSeq(ps, 1, p - 1) = <<>>
    BY <1>1, <1>2, PrefixEnd
  <2> HIDE DEF qs
  <2> QED
    BY <1>1, <2>1 DEF LP!MayAppend, qs
<1>3. CASE p # 1
  <2> DEFINE pre == SubSeq(ps, 1, p - 1)
             qre == SubSeq(qs, 1, p - 1)
  <2>1. /\ pre # <<>> /\ pre[Len(pre)] = ps[p - 1] /\ p - 1 \in DOMAIN ps
        /\ qre # <<>> /\ qre[Len(qre)] = qs[p - 1]
    BY <1>1, <1>3, PrefixEnd
  <2>2. /\ qs[p - 1].kind = ps[p - 1].kind
        /\ ps[p - 1].status # "running" => qs[p - 1] = ps[p - 1]
    BY <2>1, FinalizedPhases
  <2>3. LP!MayAppend(pre, ps[p].kind)
    OBVIOUS
  <2> HIDE DEF qs, pre, qre
  <2>4. LP!MayAppend(qre, qs[p].kind)
    BY <1>1, <2>1, <2>2, <2>3
    DEF LP!MayAppend, LP!ValidPhaseTransition, LP!ValidInterruptResumeTransition,
        LP!ValidVerifyOnlyRetryTransition
  <2> QED
    BY <2>4 DEF qs, qre
<1> QED
  BY <1>2, <1>3

LEMMA FinalizedRow ==
    ASSUME NEW r \in LP!CycleRow, LP!RowOK(r)
    PROVE  LET new == [r EXCEPT !.phases = Finalized(@)]
           IN  /\ new \in LP!CycleRow /\ LP!RowOK(new) /\ new.status = r.status
               /\ DOMAIN new.phases = DOMAIN r.phases
               /\ \A p \in DOMAIN r.phases : new.phases[p].status # "running"
<1> DEFINE ps == r.phases
           new == [r EXCEPT !.phases = Finalized(@)]
<1>1. ps \in Seq(LP!PhaseRow)
  BY DEF LP!CycleRow
<1>2. new.phases = Finalized(ps) /\ new.status = r.status
  BY DEF LP!CycleRow
<1>3. /\ Finalized(ps) \in Seq(LP!PhaseRow) /\ DOMAIN Finalized(ps) = DOMAIN ps
      /\ \A p \in DOMAIN ps : Finalized(ps)[p].status # "running"
  BY <1>1, FinalizedPhases
<1>4. new \in LP!CycleRow
  BY <1>3 DEF LP!CycleRow
<1>5. \A p \in DOMAIN ps :
         LP!MayAppend(SubSeq(Finalized(ps), 1, p - 1), Finalized(ps)[p].kind)
  BY <1>1, FinalizedHistory DEF LP!RowOK
<1> HIDE DEF new
<1>6. LP!RowOK(new)
  BY <1>2, <1>3, <1>5 DEF LP!RowOK, LP!Running
<1> QED
  BY <1>2, <1>3, <1>4, <1>6 DEF new

LEMMA CrashEffect ==
    ASSUME TypeInv, LP!IInv, Crash
    PROVE  /\ LP!IInv' /\ TypeInv' /\ crashes' # 0 /\ rebinds' = rebinds
           /\ \A s \in Slots : pc'[s] = "idle"
           /\ \A w \in Worktrees : gate'[w] = NoSlot
           /\ \A t \in Tasks :
                 /\ row'[t] = row[t]
                 /\ DOMAIN cycles'[t] = DOMAIN cycles[t]
                 /\ \A a \in DOMAIN cycles[t] : \A p \in DOMAIN cycles'[t][a].phases :
                       cycles'[t][a].phases[p].status # "running"
<1>1. TypeInv'
  BY IdleIsTyped DEF Crash, TypeInv
<1>2. \A t \in Tasks : \A a \in DOMAIN cycles[t] :
         cycles[t][a] \in LP!CycleRow /\ LP!RowOK(cycles[t][a])
  BY LedgerRows DEF LP!IInv
<1>3. \A t \in Tasks :
         /\ cycles'[t] = [a \in DOMAIN cycles[t] |->
                            [cycles[t][a] EXCEPT !.phases = Finalized(@)]]
         /\ cycles[t] \in Seq(LP!CycleRow)
  BY LedgerRows DEF Crash
<1>4. ASSUME NEW t \in Tasks
      PROVE  /\ cycles'[t] \in Seq(LP!CycleRow) /\ Len(cycles'[t]) = Len(cycles[t])
             /\ DOMAIN cycles'[t] = DOMAIN cycles[t]
             /\ \A a \in DOMAIN cycles[t] :
                   /\ cycles'[t][a].status = cycles[t][a].status /\ LP!RowOK(cycles'[t][a])
                   /\ \A p \in DOMAIN cycles'[t][a].phases :
                         cycles'[t][a].phases[p].status # "running"
  <2>1. \A a \in DOMAIN cycles[t] :
           /\ cycles'[t][a] \in LP!CycleRow /\ LP!RowOK(cycles'[t][a])
           /\ cycles'[t][a].status = cycles[t][a].status
           /\ \A p \in DOMAIN cycles'[t][a].phases :
                 cycles'[t][a].phases[p].status # "running"
    <3> SUFFICES ASSUME NEW a \in DOMAIN cycles[t]
                 PROVE  /\ cycles'[t][a] \in LP!CycleRow /\ LP!RowOK(cycles'[t][a])
                        /\ cycles'[t][a].status = cycles[t][a].status
                        /\ \A p \in DOMAIN cycles'[t][a].phases :
                              cycles'[t][a].phases[p].status # "running"
      OBVIOUS
    <3> DEFINE new == [cycles[t][a] EXCEPT !.phases = Finalized(@)]
    <3>1. /\ new \in LP!CycleRow /\ LP!RowOK(new) /\ new.status = cycles[t][a].status
          /\ \A p \in DOMAIN new.phases : new.phases[p].status # "running"
      BY <1>2, FinalizedRow
    <3>2. cycles'[t][a] = new
      BY <1>3
    <3> HIDE DEF new
    <3> QED
      BY <3>1, <3>2
  <2>2. DOMAIN cycles'[t] = 1..Len(cycles[t]) /\ Len(cycles[t]) \in Nat
        /\ DOMAIN cycles[t] = 1..Len(cycles[t])
    <3>1. Len(cycles[t]) \in Nat /\ DOMAIN cycles[t] = 1..Len(cycles[t])
      BY LedgerRows
    <3>2. DOMAIN cycles'[t] = DOMAIN cycles[t]
      BY <1>3
    <3> QED
      BY <3>1, <3>2
  <2>3. cycles'[t] \in [1..Len(cycles[t]) -> LP!CycleRow]
    BY <1>3, <2>1, <2>2
  <2>4. cycles'[t] \in Seq(LP!CycleRow) /\ Len(cycles'[t]) = Len(cycles[t])
    BY <2>2, <2>3
  <2> QED
    BY <2>1, <2>2, <2>4
<1>5. LP!IInv'
  <2>1. cycles' = [t \in Tasks |-> cycles'[t]]
    BY DEF Crash
  <2>2. LP!TypeOK'
    BY <1>4, <2>1 DEF LP!TypeOK
  <2>3. LP!OnlyLatestCycleRuns'
    BY <1>4 DEF LP!IInv, LP!OnlyLatestCycleRuns
  <2>4. \A t \in Tasks : \A a \in DOMAIN cycles'[t] : LP!RowOK(cycles'[t][a])
    BY <1>4
  <2> QED
    BY <2>2, <2>3, <2>4
    DEF LP!IInv, LP!RowOK, LP!Running, LP!MayAppend, LP!ValidPhaseTransition,
        LP!ValidInterruptResumeTransition, LP!ValidVerifyOnlyRetryTransition
<1>6. crashes' # 0 /\ rebinds' = rebinds /\ row' = row
  BY DEF Crash, TypeInv
<1>7. \A s \in Slots : pc'[s] = "idle"
  BY DEF Crash
<1>8. \A w \in Worktrees : gate'[w] = NoSlot
  BY DEF Crash
<1> QED
  BY <1>1, <1>4, <1>5, <1>6, <1>7, <1>8

-----------------------------------------------------------------------------
(* The steps around a run.                                                   *)

AdmissionStep(s) ==
    \/ RecvPop(s) \/ RecvDelete(s) \/ Reload(s) \/ OpenRunningCycle(s) \/ Lock(s)
    \/ TryLock(s) \/ Defer(s) \/ AgentPickup(s) \/ Finish(s)

LEMMA AdmissionFrame ==
    ASSUME TypeInv, LP!IInv, NEW s \in Slots, AdmissionStep(s)
    PROVE  TypeInv' /\ OnlySlot(s) /\ LedgerStays /\ UNCHANGED bounds
<1>1. UNCHANGED cycles /\ UNCHANGED bounds
  BY DEF AdmissionStep, RecvPop, RecvDelete, Reload, OpenRunningCycle, Lock, TryLock, Defer,
         AgentPickup, Finish
<1>2. TypeInv'
  BY PopType, AdmissionType DEF AdmissionStep
<1>3. OnlySlot(s)
  <2>1. CASE RecvPop(s)
    BY <2>1 DEF RecvPop, Q!RecvPop, OnlySlot, TypeInv
  <2>2. CASE RecvDelete(s)
    BY <2>2 DEF RecvDelete, Q!RecvDelete, OnlySlot, TypeInv
  <2>3. CASE Finish(s)
    BY <2>3 DEF Finish, Q!Ack, OnlySlot, TypeInv
  <2>4. CASE Reload(s)
    BY <2>4 DEF Reload, OnlySlot, TypeInv, queue
  <2>5. CASE OpenRunningCycle(s)
    BY <2>5 DEF OpenRunningCycle, Goto, OnlySlot, TypeInv, queue
  <2>6. CASE Lock(s) \/ TryLock(s)
    BY <2>6 DEF Lock, TryLock, Goto, OnlySlot, TypeInv, queue
  <2>7. CASE Defer(s)
    BY <2>7 DEF Defer, Goto, OnlySlot, TypeInv
  <2>8. CASE AgentPickup(s)
    BY <2>8 DEF AgentPickup, Goto, OnlySlot, TypeInv, queue
  <2> QED
    BY <2>1, <2>2, <2>3, <2>4, <2>5, <2>6, <2>7, <2>8 DEF AdmissionStep
<1> QED
  BY <1>1, <1>2, <1>3, LedgerStutters

\* Operators and background loops touch no slot, no gate and no cycle, and
\* whoever writes a status leaves its name.
EnvFrameHolds ==
    /\ UNCHANGED <<pc, held, slot, gate, cycles, crashes>>
    /\ rebinds' = 0 => rebinds = 0 /\ \A v \in Tasks : row'[v].wt = row[v].wt
    /\ \A v \in Tasks : \/ row'[v].status = row[v].status /\ by'[v] = by[v]
                        \/ by'[v] = "operator"

LEMMA EnvFrame ==
    ASSUME TypeInv, NEW t \in Tasks, Operator(t) \/ Background(t)
    PROVE  TypeInv' /\ EnvFrameHolds
<1>1. TypeInv'
  BY OperatorType, BackgroundType
<1> SUFFICES EnvFrameHolds
  BY <1>1
<1>2. \A status \in Statuses : SetStatus(t, status, "operator") =>
         \A v \in Tasks : /\ row'[v].wt = row[v].wt
                          /\ \/ row'[v].status = row[v].status /\ by'[v] = by[v]
                             \/ by'[v] = "operator"
  BY SetStatusEffect DEF TaskStatus, Statuses, StatusBecomes
<1>3. CASE Create(t)
  <2>1. SetStatus(t, "ready", "operator")
        /\ UNCHANGED <<pc, held, slot, gate, cycles, crashes, rebinds>>
    BY <1>3 DEF Create, bounds
  <2> QED
    BY <1>2, <2>1 DEF EnvFrameHolds, Statuses
<1>4. ASSUME NEW status \in Statuses, PatchStatus(t, status) PROVE EnvFrameHolds
  BY <1>2, <1>4 DEF PatchStatus, EnvFrameHolds
<1>5. CASE Retry(t)
  <2>1. SetStatus(t, "ready", "operator")
        /\ UNCHANGED <<pc, held, slot, gate, cycles, crashes, rebinds>>
    BY <1>5 DEF Retry
  <2> QED
    BY <1>2, <2>1 DEF EnvFrameHolds, Statuses
<1>6. ASSUME NEW w \in Worktrees, Rebind(t, w) PROVE EnvFrameHolds
  <2>1. row' = [row EXCEPT ![t] = [row[t] EXCEPT !.wt = w]]
    BY <1>6 DEF Rebind, Update
  <2>2. [row[t] EXCEPT !.wt = w].status = row[t].status
    BY DEF TypeInv, TaskRow
  <2>3. \A v \in Tasks : row'[v].status = row[v].status
    BY <2>1, <2>2 DEF TypeInv
  <2>4. rebinds' # 0
    BY <1>6 DEF Rebind, TypeInv
  <2> QED
    BY <1>6, <2>3, <2>4 DEF Rebind, EnvFrameHolds
<1>7. CASE PickupDue(t)
  <2>1. row' = [row EXCEPT ![t] = [row[t] EXCEPT !.later = FALSE]]
    BY <1>7 DEF PickupDue
  <2>2. /\ [row[t] EXCEPT !.later = FALSE].status = row[t].status
        /\ [row[t] EXCEPT !.later = FALSE].wt = row[t].wt
    BY DEF TypeInv, TaskRow
  <2>3. \A v \in Tasks : row'[v].status = row[v].status /\ row'[v].wt = row[v].wt
    BY <2>1, <2>2 DEF TypeInv
  <2>4. UNCHANGED <<pc, held, by, slot, gate, cycles, crashes, rebinds>>
    BY <1>7 DEF PickupDue, queue, bounds
  <2> QED
    BY <2>3, <2>4 DEF EnvFrameHolds
<1>8. CASE WakeFires(t) \/ Reconcile(t)
  <2>1. UNCHANGED <<pc, held, row, by, slot, gate, cycles, crashes, rebinds>>
    BY <1>8 DEF WakeFires, Reconcile, bounds, tasks
  <2> QED
    BY <2>1 DEF EnvFrameHolds
<1> QED
  BY <1>3, <1>4, <1>5, <1>6, <1>7, <1>8 DEF Operator, Background

-----------------------------------------------------------------------------
(* The locals of a slot point to rows that exist.  Rows are never deleted,   *)
(* so only the slot that moves has to be looked at.                          *)

SlotPoints(s) ==
    Busy(s) =>
        /\ slot[s].at \in {"lock", "prepResume", "resume"} \cup Cycling =>
              slot[s].cyc \in DOMAIN cycles[held[s]]
        /\ slot[s].at \in {"execute", "verify"} =>
              slot[s].ph \in DOMAIN cycles[held[s]][slot[s].cyc].phases
        /\ slot[s].at \in {"terminate", "settle"} => slot[s].out \in {"succeeded", "failed"}

LedgerGrows ==
    \A v \in Tasks :
        /\ DOMAIN cycles[v] \subseteq DOMAIN cycles'[v]
        /\ \A b \in DOMAIN cycles[v] :
              DOMAIN cycles[v][b].phases \subseteq DOMAIN cycles'[v][b].phases

LEMMA OneSlotPoints ==
    ASSUME TypeInv, SlotPointsIntoLedger, NEW s \in Slots, OnlySlot(s), LedgerGrows,
           SlotPoints(s)'
    PROVE  SlotPointsIntoLedger'
<1>1. ASSUME NEW r \in Slots, r # s PROVE SlotPoints(r)'
  <2>1. slot'[r] = slot[r] /\ pc'[r] = pc[r] /\ held'[r] = held[r]
    BY <1>1 DEF OnlySlot
  <2>2. Busy(r) => held[r] \in Tasks
    BY DEF Busy, TypeInv
  <2>3. SlotPoints(r)
    BY DEF SlotPointsIntoLedger, SlotPoints
  <2> QED
    BY <2>1, <2>2, <2>3 DEF SlotPoints, Busy, LedgerGrows, Cycling
<1> QED
  BY <1>1 DEF SlotPointsIntoLedger, SlotPoints

LEMMA EffectsGrow ==
    ASSUME LP!IInv, NEW t \in Tasks, NEW a, NEW p,
           \/ LedgerStays \/ CycleOpened(t) \/ PhaseOpened(t, a) \/ PhaseClosed(t, a, p)
           \/ CycleClosed(t, a)
    PROVE  LedgerGrows
<1>1. CASE LedgerStays
  BY <1>1 DEF LedgerStays, LedgerGrows
<1>2. CASE CycleOpened(t)
  BY <1>2 DEF CycleOpened, LedgerGrows
<1>3. CASE PhaseOpened(t, a) \/ PhaseClosed(t, a, p)
  BY <1>3 DEF PhaseOpened, PhaseClosed, SameCycles, LedgerGrows
<1>4. CASE CycleClosed(t, a)
  BY <1>4 DEF CycleClosed, LedgerGrows
<1> QED
  BY <1>1, <1>2, <1>3, <1>4

LEMMA HarnessPoints ==
    ASSUME TypeInv, LP!IInv, SlotPointsIntoLedger, NEW s \in Slots, HarnessStep(s)
    PROVE  SlotPointsIntoLedger' /\ LP!IInv' /\ LedgerGrows
<1> DEFINE t == held[s]
           a == slot[s].cyc
<1>1. t \in Tasks /\ Busy(s) /\ UNCHANGED <<pc, held>> /\ OnlySlot(s)
  BY HarnessFrame DEF Busy, TypeInv
<1>2. SUFFICES SlotPoints(s)' /\ LP!IInv' /\ LedgerGrows
  BY <1>1, OneSlotPoints
<1>3. SlotPoints(s)
  BY DEF SlotPointsIntoLedger, SlotPoints
<1>4. ASSUME NEW places, NEW cyc, NEW ph, MovesOn(s, places, cyc, ph), LedgerGrows,
             \/ "lock" \notin places /\ "prepResume" \notin places /\ "resume" \notin places
                /\ places \cap Cycling = {}
             \/ cyc = a /\ a \in DOMAIN cycles[t],
             "execute" \notin places /\ "verify" \notin places
      PROVE  SlotPoints(s)'
  <2>1. /\ slot'[s].at \in places /\ slot'[s].cyc = cyc
        /\ slot'[s].at \in {"terminate", "settle"} => slot'[s].out \in {"succeeded", "failed"}
    BY <1>1, <1>4, MovesOnFrame
  <2>2. a \in DOMAIN cycles[t] => a \in DOMAIN cycles'[t]
    BY <1>1, <1>4 DEF LedgerGrows
  <2> HIDE DEF t, a
  <2>3. held'[s] = t
    BY <1>1 DEF t
  <2> QED
    BY <1>4, <2>1, <2>2, <2>3 DEF SlotPoints
<1>5. CASE GitPrep(s)
  <2>1. LedgerStays /\ LedgerGrows
    BY <1>1, <1>5, LedgerStutters, EffectsGrow DEF GitPrep
  <2>2. slot[s].at = "prepResume" => a \in DOMAIN cycles[t]
    BY <1>1, <1>3 DEF SlotPoints
  <2> QED
    BY <1>4, <1>5, <2>1, <2>2, GitPrepMoves DEF LedgerStays, Cycling
<1>6. CASE StartCycle(s)
  <2>1. CASE L!HasRunningCycle(t)
    <3>1. LedgerStays /\ LedgerGrows /\ MovesOn(s, {"failTask"}, a, slot[s].ph)
      BY <1>1, <1>6, <2>1, StartCycleMoves, EffectsGrow
    <3> QED
      BY <1>4, <3>1 DEF LedgerStays, Cycling
  <2>2. CASE ~L!HasRunningCycle(t)
    <3>1. /\ LP!IInv' /\ CycleOpened(t) /\ LedgerGrows
          /\ MovesOn(s, {"startExecute"}, Len(cycles[t]) + 1, slot[s].ph)
      BY <1>1, <1>6, <2>2, StartCycleMoves, EffectsGrow
    <3>2. slot'[s].at = "startExecute" /\ slot'[s].cyc = Len(cycles[t]) + 1
      BY <1>1, <3>1, MovesOnFrame
    <3>3. Len(cycles[t]) + 1 \in DOMAIN cycles'[t]
      BY <3>1 DEF CycleOpened
    <3> QED
      BY <1>1, <3>1, <3>2, <3>3 DEF SlotPoints
  <2> QED
    BY <2>1, <2>2
<1>7. CASE Settle(s) \/ FailTask(s)
  <2>1. LedgerStays /\ LedgerGrows
    BY <1>1, <1>7, LedgerStutters, EffectsGrow DEF Settle, FailTask
  <2> QED
    BY <1>4, <1>7, <2>1, SettleMoves DEF LedgerStays, Cycling
<1>8. ASSUME slot[s].at \in {"resume"} \cup Cycling
      PROVE  a \in DOMAIN cycles[t]
  BY <1>1, <1>3, <1>8 DEF SlotPoints
<1>9. CASE Resume(s)
  <2>1. LedgerStays /\ LedgerGrows
    BY <1>1, <1>9, ResumeMoves, EffectsGrow
  <2>2. a \in DOMAIN cycles[t]
    BY <1>8, <1>9 DEF Resume, At
  <2> QED
    BY <1>4, <1>9, <2>1, <2>2, ResumeMoves DEF LedgerStays
<1>10. CASE StartExecute(s) \/ StartVerify(s)
  <2>1. a \in DOMAIN cycles[t]
    BY <1>8, <1>10 DEF StartExecute, StartVerify, At, Cycling
  <2>2. CASE LedgerStays
    <3>1. \/ MovesOn(s, {"abort"}, a, slot[s].ph)
          \/ MovesOn(s, {"startExecute", "startVerify", "terminate"}, a, slot[s].ph)
          \/ PhaseOpened(t, a)
      BY <1>10, StartExecuteMoves, StartVerifyMoves
    <3>2. ~PhaseOpened(t, a)
      BY <1>1, <2>1, <2>2, LedgerRows DEF LedgerStays, PhaseOpened
    <3>3. LedgerGrows
      BY <1>1, <2>2, EffectsGrow
    <3> QED
      BY <1>4, <2>1, <2>2, <3>1, <3>2, <3>3 DEF LedgerStays
  <2>3. CASE ~LedgerStays
    <3>1. /\ LP!IInv' /\ PhaseOpened(t, a)
          /\ \E places : /\ MovesOn(s, places, a, Len(cycles[t][a].phases) + 1)
                         /\ places \cap {"terminate", "settle"} = {}
      BY <1>10, <2>3, StartExecuteMoves, StartVerifyMoves DEF MyPhases
    <3>2. /\ slot'[s].cyc = a /\ slot'[s].ph = Len(cycles[t][a].phases) + 1
          /\ slot'[s].at \notin {"terminate", "settle"}
      BY <1>1, <3>1, MovesOnFrame
    <3>3. a \in DOMAIN cycles'[t] /\ slot'[s].ph \in DOMAIN cycles'[t][a].phases
      BY <1>1, <2>1, <3>1, <3>2 DEF PhaseOpened, SameCycles
    <3>4. LedgerGrows
      BY <1>1, <3>1, EffectsGrow
    <3> QED
      BY <1>1, <3>1, <3>2, <3>3, <3>4 DEF SlotPoints
  <2> QED
    BY <2>2, <2>3
<1>11. CASE ExecuteReturns(s) \/ VerifyReturns(s)
  <2>1. a \in DOMAIN cycles[t]
    BY <1>8, <1>11 DEF ExecuteReturns, VerifyReturns, At, Cycling
  <2>2. PhaseLeft(s)
    BY <1>11, ExecuteReturnsMoves, VerifyReturnsMoves
  <2>3. LP!IInv' /\ LedgerGrows
    BY <1>1, <2>2, EffectsGrow DEF PhaseLeft, LedgerStays
  <2> QED
    BY <1>4, <1>11, <2>1, <2>3, ExecuteReturnsMoves, VerifyReturnsMoves
<1>12. CASE Terminate(s) \/ Abort(s)
  <2>1. LP!IInv' /\ LedgerGrows
    BY <1>1, <1>12, TerminateMoves, AbortMoves, EffectsGrow DEF LedgerStays
  <2> QED
    BY <1>4, <1>12, <2>1, TerminateMoves, AbortMoves DEF Cycling
<1> QED
  BY <1>5, <1>6, <1>7, <1>9, <1>10, <1>11, <1>12 DEF HarnessStep

LEMMA AdmissionPoints ==
    ASSUME TypeInv, LP!IInv, SlotPointsIntoLedger, NEW s \in Slots, AdmissionStep(s)
    PROVE  SlotPointsIntoLedger'
<1>1. OnlySlot(s) /\ LedgerStays /\ UNCHANGED cycles
  BY AdmissionFrame DEF LedgerStays
<1>2. LedgerGrows
  BY <1>1 DEF LedgerGrows
<1>3. SUFFICES SlotPoints(s)'
  BY <1>1, <1>2, OneSlotPoints
<1>4. SlotPoints(s)
  BY DEF SlotPointsIntoLedger, SlotPoints
<1>5. CASE RecvPop(s) \/ Finish(s)
  <2>1. pc'[s] # "busy"
    BY <1>5 DEF RecvPop, Finish, Q!RecvPop, Q!Ack, TypeInv
  <2> QED
    BY <2>1 DEF SlotPoints, Busy
<1>6. CASE RecvDelete(s)
  <2>1. slot'[s].at = "reload"
    BY <1>6, IdleIsTyped DEF RecvDelete, TypeInv, SlotRow
  <2> QED
    BY <2>1 DEF SlotPoints, Cycling
<1>7. CASE Reload(s)
  <2>1. slot'[s].at \in {"openCycle", "unlock", "defer", "tryLock"}
    BY <1>7, ReloadBecomes DEF SlotBecomes
  <2> QED
    BY <2>1 DEF SlotPoints, Cycling
<1>8. CASE OpenRunningCycle(s)
  <2>1. held' = held
    BY <1>8 DEF OpenRunningCycle, queue
  <2>2. \/ slot'[s].at = "lock" /\ slot'[s].cyc \in DOMAIN cycles[held[s]]
        \/ slot'[s].at = "unlock"
    BY <1>8, OpenRunningCycleBecomes DEF SlotBecomes
  <2> QED
    BY <1>1, <2>1, <2>2 DEF SlotPoints, Cycling
<1>9. CASE Lock(s)
  <2>1. /\ held' = held /\ pc' = pc /\ "prepResume" \in Place
        /\ slot[s].at = "lock" /\ Goto(s, "prepResume")
    BY <1>9 DEF Lock, At, queue, Place, Run
  <2>2. slot'[s].at = "prepResume" /\ slot'[s].cyc = slot[s].cyc
    BY <2>1, GotoBecomes DEF SlotBecomes
  <2> QED
    BY <1>1, <1>4, <2>1, <2>2 DEF SlotPoints, Cycling, Busy
<1>10. CASE TryLock(s) \/ Defer(s)
  <2>1. slot'[s].at \in {"pickup", "defer", "unlock"}
    BY <1>10, GotoBecomes DEF TryLock, Defer, SlotBecomes, Place, Admission
  <2> QED
    BY <2>1 DEF SlotPoints, Cycling
<1>11. CASE AgentPickup(s)
  <2>1. slot'[s].at \in {"prepFresh", "unlock"}
    BY <1>11, AgentPickupBecomes DEF SlotBecomes
  <2> QED
    BY <2>1 DEF SlotPoints, Cycling
<1> QED
  BY <1>5, <1>6, <1>7, <1>8, <1>9, <1>10, <1>11 DEF AdmissionStep

\* The part of the invariant that speaks of types and of the ledger.
DataInv == TypeInv /\ LP!IInv /\ SlotPointsIntoLedger

LEMMA NextCases ==
    ASSUME Next
    PROVE  \/ \E s \in Slots : AdmissionStep(s) \/ HarnessStep(s)
           \/ \E t \in Tasks : Operator(t) \/ Background(t)
           \/ Crash
  BY DEF Next, SlotStep, AdmissionStep, HarnessStep

LEMMA StutterData == ASSUME DataInv, UNCHANGED vars PROVE DataInv'
<1>1. LP!IInv'
  BY LedgerStutters DEF DataInv, LedgerStays, vars
<1>2. TypeInv'
  BY DEF DataInv, TypeInv, vars, queue, tasks, bounds
<1>3. SlotPointsIntoLedger'
  BY DEF DataInv, SlotPointsIntoLedger, Busy, vars, queue, tasks, bounds
<1> QED
  BY <1>1, <1>2, <1>3 DEF DataInv

LEMMA StepData == DataInv /\ [Next]_vars => DataInv'
<1> SUFFICES ASSUME DataInv, [Next]_vars PROVE DataInv'
  OBVIOUS
<1> USE DEF DataInv
<1>1. CASE UNCHANGED vars
  BY <1>1, StutterData
<1>2. ASSUME NEW s \in Slots, AdmissionStep(s) PROVE DataInv'
  BY <1>2, AdmissionFrame, AdmissionPoints DEF LedgerStays
<1>3. ASSUME NEW s \in Slots, HarnessStep(s) PROVE DataInv'
  BY <1>3, HarnessFrame, HarnessPoints
<1>4. ASSUME NEW t \in Tasks, Operator(t) \/ Background(t) PROVE DataInv'
  <2>1. TypeInv' /\ UNCHANGED <<pc, held, slot, cycles>>
    BY <1>4, EnvFrame DEF EnvFrameHolds
  <2>2. LP!IInv'
    BY <2>1, LedgerStutters DEF LedgerStays
  <2>3. SlotPointsIntoLedger'
    BY <2>1 DEF SlotPointsIntoLedger, Busy
  <2> QED
    BY <2>1, <2>2, <2>3
<1>5. CASE Crash
  <2>1. SlotPointsIntoLedger'
    BY <1>5, CrashEffect DEF SlotPointsIntoLedger, Busy
  <2> QED
    BY <1>5, <2>1, CrashEffect
<1> QED
  BY <1>1, <1>2, <1>3, <1>4, <1>5, NextCases

-----------------------------------------------------------------------------
(* The gate.                                                                 *)

GateInv == GateIsNotLeaked /\ HomeStays /\ GateHeld

\* Locals of one slot, as the gate sees them.
SlotGate(s) ==
    /\ \A w \in Worktrees : gate[w] = s =>
          Busy(s) /\ slot[s].at \in Run \cup {"pickup", "unlock"}
    /\ rebinds = 0 =>
          /\ Busy(s) /\ slot[s].at \notin {"none", "reload"} => slot[s].wt = Home[held[s]]
          /\ Busy(s) /\ slot[s].at \in Run \cup {"pickup"} => gate[slot[s].wt] = s

RowsAtHome == rebinds = 0 => \A t \in Tasks : row[t].wt = Home[t]

LEMMA GateBySlot ==
    ASSUME TypeInv
    PROVE  GateInv <=> RowsAtHome /\ \A s \in Slots : SlotGate(s)
  BY NamesAssumption
  DEF GateInv, GateIsNotLeaked, HomeStays, GateHeld, SlotGate, RowsAtHome, TypeInv, Busy

\* Only s itself takes or frees a gate.
OnlyGatesOf(s) ==
    \A w \in Worktrees : gate'[w] = gate[w] \/ {gate[w], gate'[w]} \subseteq {s, NoSlot}

LEMMA OneSlotGates ==
    ASSUME TypeInv, TypeInv', GateInv, NEW s \in Slots, OnlySlot(s), OnlyGatesOf(s),
           SlotGate(s)', UNCHANGED rebinds, \A t \in Tasks : row'[t].wt = row[t].wt
    PROVE  GateInv'
<1>1. RowsAtHome /\ \A r \in Slots : SlotGate(r)
  BY GateBySlot
<1>2. RowsAtHome'
  BY <1>1 DEF RowsAtHome
<1>3. ASSUME NEW r \in Slots, r # s PROVE SlotGate(r)'
  <2>1. slot'[r] = slot[r] /\ pc'[r] = pc[r] /\ held'[r] = held[r]
    BY <1>3 DEF OnlySlot
  <2>2. \A w \in Worktrees : gate'[w] = r <=> gate[w] = r
    BY <1>3, NamesAssumption DEF OnlyGatesOf
  <2>3. SlotGate(r)
    BY <1>1
  <2>4. rebinds = 0 /\ Busy(r) /\ slot[r].at \notin {"none", "reload"} => slot[r].wt \in Worktrees
    BY <2>3, HomeAssumption DEF SlotGate, Busy, TypeInv
  <2>5. Busy(r)' <=> Busy(r)
    BY <2>1 DEF Busy
  <2>6. \A p \in Run \cup {"pickup"} : p \notin {"none", "reload"}
    BY DEF Run
  <2> QED
    BY <2>1, <2>2, <2>3, <2>4, <2>5, <2>6 DEF SlotGate
<1>4. \A r \in Slots : SlotGate(r)'
  BY <1>3
<1>5. GateInv' <=> RowsAtHome' /\ \A r \in Slots : SlotGate(r)'
  BY NamesAssumption
  DEF GateInv, GateIsNotLeaked, HomeStays, GateHeld, SlotGate, RowsAtHome, TypeInv, Busy
<1> QED
  BY <1>2, <1>4, <1>5

LEMMA AdmissionRows ==
    ASSUME TypeInv, NEW s \in Slots, AdmissionStep(s)
    PROVE  \A t \in Tasks : row'[t].wt = row[t].wt
<1>1. CASE Defer(s)
  <2>1. held[s] \in Tasks /\ row' = [row EXCEPT ![held[s]] = [row[held[s]] EXCEPT !.later = TRUE]]
    BY <1>1 DEF Defer, At, Update, TypeInv
  <2>2. [row[held[s]] EXCEPT !.later = TRUE].wt = row[held[s]].wt
    BY <2>1 DEF TypeInv, TaskRow
  <2> QED
    BY <2>1, <2>2 DEF TypeInv
<1>2. CASE AgentPickup(s) /\ row' # row
  <2>1. /\ held[s] \in Tasks
        /\ row' = [row EXCEPT ![held[s]] = [row[held[s]] EXCEPT !.status = "running"]]
    BY <1>2 DEF AgentPickup, At, TypeInv
  <2>2. [row[held[s]] EXCEPT !.status = "running"].wt = row[held[s]].wt
    BY <2>1 DEF TypeInv, TaskRow
  <2> QED
    BY <2>1, <2>2 DEF TypeInv
<1>3. CASE UNCHANGED row
  BY <1>3
<1> QED
  BY <1>1, <1>2, <1>3
  DEF AdmissionStep, RecvPop, RecvDelete, Reload, OpenRunningCycle, Lock, TryLock, AgentPickup,
      Finish, tasks

\* A slot that holds no gate and wants none.
LEMMA NoGateYet ==
    ASSUME TypeInv, NEW s \in Slots, SlotGate(s), UNCHANGED gate, UNCHANGED rebinds,
           Busy(s) => slot[s].at \notin Run \cup {"pickup", "unlock"},
           Busy(s)' => /\ slot'[s].at \notin Run \cup {"pickup"}
                       /\ \/ slot'[s].at \in {"none", "reload"}
                          \/ rebinds = 0 => slot'[s].wt = Home[held'[s]]
    PROVE  SlotGate(s)'
  BY DEF SlotGate

LEMMA AdmissionGates ==
    ASSUME TypeInv, LP!IInv, GateInv, NEW s \in Slots, AdmissionStep(s)
    PROVE  GateInv'
<1>1. /\ TypeInv' /\ OnlySlot(s) /\ UNCHANGED rebinds
      /\ \A t \in Tasks : row'[t].wt = row[t].wt
  BY AdmissionFrame, AdmissionRows DEF bounds
<1>2. SlotGate(s) /\ RowsAtHome
  BY GateBySlot
<1>3. SUFFICES OnlyGatesOf(s) /\ SlotGate(s)'
  BY <1>1, OneSlotGates
<1>4. UNCHANGED gate => OnlyGatesOf(s)
  BY DEF OnlyGatesOf
<1>5. CASE RecvPop(s)
  <2>1. UNCHANGED gate /\ ~Busy(s) /\ ~Busy(s)'
    BY <1>5 DEF RecvPop, Q!RecvPop, Busy, TypeInv
  <2> QED
    BY <1>1, <1>2, <1>4, <2>1, NoGateYet
<1>6. CASE RecvDelete(s)
  <2>1. UNCHANGED gate /\ ~Busy(s) /\ slot'[s].at = "reload"
    BY <1>6, IdleIsTyped DEF RecvDelete, Q!RecvDelete, Busy, TypeInv, SlotRow
  <2>2. "reload" \notin Run \cup {"pickup"}
    BY DEF Run
  <2> QED
    BY <1>1, <1>2, <1>4, <2>1, <2>2, NoGateYet
<1>7. CASE Reload(s)
  <2>1. /\ UNCHANGED <<gate, pc, held>> /\ slot[s].at = "reload" /\ held[s] \in Tasks
        /\ slot'[s].at \in {"openCycle", "unlock", "defer", "tryLock"}
        /\ slot'[s].wt = row[held[s]].wt
    BY <1>7, ReloadBecomes, SMTT(15), ZenonT(40) DEF Reload, At, TypeInv, queue, SlotBecomes
  <2>2. \A p \in {"openCycle", "unlock", "defer", "tryLock"} : p \notin Run \cup {"pickup"}
    BY DEF Run
  <2>3. "reload" \notin Run \cup {"pickup", "unlock"}
    BY DEF Run
  <2>4. rebinds = 0 => slot'[s].wt = Home[held'[s]]
    BY <1>2, <2>1 DEF RowsAtHome
  <2> QED
    BY <1>1, <1>2, <1>4, <2>1, <2>2, <2>3, <2>4, NoGateYet
<1>8. CASE OpenRunningCycle(s) \/ Defer(s)
  <2>1. /\ UNCHANGED <<gate, pc, held>> /\ Busy(s) /\ slot[s].at \in {"openCycle", "defer"}
        /\ slot'[s].at \in {"lock", "unlock"} /\ slot'[s].wt = slot[s].wt
    BY <1>8, OpenRunningCycleBecomes, GotoBecomes
    DEF OpenRunningCycle, Defer, At, Busy, queue, SlotBecomes, Place
  <2>2. \A p \in {"lock", "unlock"} : p \notin Run \cup {"pickup"}
    BY DEF Run
  <2>3. \A p \in {"openCycle", "defer"} : p \notin Run \cup {"pickup", "unlock"}
    BY DEF Run
  <2>4. rebinds = 0 => slot'[s].wt = Home[held'[s]]
    BY <1>2, <2>1 DEF SlotGate
  <2> QED
    BY <1>1, <1>2, <1>4, <2>1, <2>2, <2>3, <2>4, NoGateYet
<1>9. CASE TryLock(s) /\ gate[slot[s].wt] # NoSlot
  <2>1. /\ UNCHANGED <<gate, pc, held>> /\ Busy(s) /\ slot[s].at = "tryLock"
        /\ slot'[s].at = "defer" /\ slot'[s].wt = slot[s].wt
    BY <1>9, GotoBecomes DEF TryLock, At, Busy, queue, SlotBecomes, Place, Admission
  <2>2. "defer" \notin Run \cup {"pickup"} /\ "tryLock" \notin Run \cup {"pickup", "unlock"}
    BY DEF Run
  <2>3. rebinds = 0 => slot'[s].wt = Home[held'[s]]
    BY <1>2, <2>1 DEF SlotGate
  <2> QED
    BY <1>1, <1>2, <1>4, <2>1, <2>2, <2>3, NoGateYet
<1>10. CASE Lock(s) \/ (TryLock(s) /\ gate[slot[s].wt] = NoSlot)
  <2>1. /\ gate' = [gate EXCEPT ![slot[s].wt] = s] /\ gate[slot[s].wt] = NoSlot
        /\ UNCHANGED <<pc, held>> /\ Busy(s) /\ slot[s].at \in {"lock", "tryLock"}
        /\ slot'[s].at \in Run \cup {"pickup"} /\ slot'[s].wt = slot[s].wt
    BY <1>10, GotoBecomes DEF Lock, TryLock, At, Busy, queue, SlotBecomes, Place, Admission, Run
  <2>2. OnlyGatesOf(s)
    BY <2>1 DEF OnlyGatesOf, TypeInv
  <2>3. held[s] \in Tasks
    BY <2>1 DEF Busy, TypeInv
  <2>4. rebinds = 0 => slot[s].wt = Home[held[s]] /\ slot[s].wt \in Worktrees
    BY <1>2, <2>1, <2>3, HomeAssumption DEF SlotGate
  <2>5. Busy(s)'
    BY <2>1 DEF Busy
  <2>6. rebinds = 0 => gate'[slot[s].wt] = s
    BY <2>1, <2>4 DEF TypeInv
  <2> QED
    BY <1>1, <2>1, <2>2, <2>4, <2>5, <2>6 DEF SlotGate
<1>11. CASE AgentPickup(s)
  <2>1. /\ UNCHANGED <<gate, pc, held>> /\ Busy(s) /\ slot[s].at = "pickup" /\ held[s] \in Tasks
        /\ \/ slot'[s].at = "prepFresh" /\ slot'[s].wt = row[held[s]].wt
           \/ slot'[s].at = "unlock" /\ slot'[s].wt = slot[s].wt
    BY <1>11, AgentPickupBecomes DEF AgentPickup, At, Busy, TypeInv, queue, SlotBecomes
  <2>2. rebinds = 0 => slot'[s].wt = slot[s].wt /\ slot[s].wt = Home[held[s]]
    BY <1>2, <2>1 DEF SlotGate, RowsAtHome
  <2>3. Busy(s)' /\ slot'[s].at \in Run \cup {"pickup", "unlock"}
    BY <2>1 DEF Busy, Run
  <2>4. rebinds = 0 => gate[slot[s].wt] = s
    BY <1>2, <2>1 DEF SlotGate
  <2> QED
    BY <1>1, <1>4, <2>1, <2>2, <2>3, <2>4 DEF SlotGate
<1>12. CASE Finish(s)
  <2>1. /\ gate' = [w \in Worktrees |-> IF gate[w] = s THEN NoSlot ELSE gate[w]]
        /\ pc'[s] = "idle"
    BY <1>12 DEF Finish, Q!Ack, TypeInv
  <2>2. OnlyGatesOf(s)
    BY <2>1 DEF OnlyGatesOf
  <2>3. \A w \in Worktrees : gate'[w] # s
    BY <2>1, NamesAssumption
  <2>4. ~Busy(s)'
    BY <2>1 DEF Busy
  <2> QED
    BY <2>2, <2>3, <2>4 DEF SlotGate
<1>13. CASE Lock(s) \/ TryLock(s)
  BY <1>9, <1>10, <1>13
<1> QED
  BY <1>5, <1>6, <1>7, <1>8, <1>11, <1>12, <1>13 DEF AdmissionStep

LEMMA HarnessGates ==
    ASSUME TypeInv, LP!IInv, SlotPointsIntoLedger, GateInv, NEW s \in Slots, HarnessStep(s)
    PROVE  GateInv'
<1>1. /\ TypeInv' /\ OnlySlot(s) /\ UNCHANGED <<pc, held, gate, rebinds>>
      /\ Busy(s) /\ slot[s].at \in Run
      /\ slot'[s].at \in Run \cup {"unlock"} /\ slot'[s].wt = slot[s].wt
      /\ \A t \in Tasks : row'[t].wt = row[t].wt
  BY HarnessFrame DEF bounds
<1>2. SlotGate(s)
  BY GateBySlot
<1>3. OnlyGatesOf(s)
  BY <1>1 DEF OnlyGatesOf
<1>4. slot[s].at \notin {"none", "reload"}
  BY <1>1 DEF Run
<1>5. "unlock" \notin Run \cup {"pickup"}
  BY DEF Run
<1>6. Busy(s)'
  BY <1>1 DEF Busy
<1>7. SlotGate(s)'
  BY <1>1, <1>2, <1>4, <1>5, <1>6 DEF SlotGate
<1> QED
  BY <1>1, <1>3, <1>7, OneSlotGates

LEMMA StepGate == DataInv /\ GateInv /\ [Next]_vars => GateInv'
<1> SUFFICES ASSUME DataInv, GateInv, [Next]_vars PROVE GateInv'
  OBVIOUS
<1> USE DEF DataInv
<1>1. CASE UNCHANGED vars
  BY <1>1 DEF GateInv, GateIsNotLeaked, HomeStays, GateHeld, Busy, vars, queue, tasks, bounds
<1>2. ASSUME NEW s \in Slots, AdmissionStep(s) PROVE GateInv'
  BY <1>2, AdmissionGates
<1>3. ASSUME NEW s \in Slots, HarnessStep(s) PROVE GateInv'
  BY <1>3, HarnessGates
<1>4. ASSUME NEW t \in Tasks, Operator(t) \/ Background(t) PROVE GateInv'
  BY <1>4, EnvFrame DEF EnvFrameHolds, GateInv, GateIsNotLeaked, HomeStays, GateHeld, Busy
<1>5. CASE Crash
  <2>1. /\ \A s \in Slots : ~Busy(s)'
        /\ \A w \in Worktrees : gate'[w] = NoSlot
        /\ \A t \in Tasks : row'[t] = row[t]
        /\ rebinds' = rebinds
    BY <1>5, CrashEffect DEF Busy
  <2> QED
    BY <2>1 DEF GateInv, GateIsNotLeaked, HomeStays, GateHeld
<1> QED
  BY <1>1, <1>2, <1>3, <1>4, <1>5, NextCases

LEMMA GateSerializes ==
    ASSUME TypeInv, GateInv
    PROVE  WorktreeIsExclusive /\ OneRunPerTask
<1> SUFFICES ASSUME rebinds = 0 PROVE WorktreeIsExclusive /\ OneRunPerTask
  BY DEF WorktreeIsExclusive, OneRunPerTask
<1>1. \A s \in Slots : Busy(s) /\ slot[s].at \in Run =>
         gate[slot[s].wt] = s /\ slot[s].wt = Home[held[s]]
  BY DEF GateInv, GateHeld, HomeStays, Run
<1> QED
  BY <1>1 DEF WorktreeIsExclusive, OneRunPerTask, Uses, Drives, Busy

-----------------------------------------------------------------------------
(* A running phase row has a slot in that phase.                             *)

InPhase(s, t, a, p) ==
    /\ Drives(s, t) /\ slot[s].at \in {"execute", "verify"}
    /\ slot[s].cyc = a /\ slot[s].ph = p

\* After a step of slot s, each running phase is the one s opened, or one that
\* was running before and that s was not in.
LEMMA PhasesKeepDrivers ==
    ASSUME TypeInv, LivePhaseHasADriver, NEW s \in Slots, OnlySlot(s),
           \A v \in Tasks : \A b \in DOMAIN cycles'[v] : \A q \in DOMAIN cycles'[v][b].phases :
              cycles'[v][b].phases[q].status = "running" =>
                 \/ InPhase(s, v, b, q)'
                 \/ /\ b \in DOMAIN cycles[v] /\ q \in DOMAIN cycles[v][b].phases
                    /\ cycles[v][b].phases[q].status = "running"
                    /\ ~InPhase(s, v, b, q)
    PROVE  LivePhaseHasADriver'
<1> SUFFICES ASSUME NEW v \in Tasks, NEW b \in DOMAIN cycles'[v],
                    NEW q \in DOMAIN cycles'[v][b].phases,
                    cycles'[v][b].phases[q].status = "running"
             PROVE  \E r \in Slots : InPhase(r, v, b, q)'
  BY DEF LivePhaseHasADriver, InPhase
<1>1. CASE InPhase(s, v, b, q)'
  BY <1>1
<1>2. CASE ~InPhase(s, v, b, q)'
  <2>1. /\ b \in DOMAIN cycles[v] /\ q \in DOMAIN cycles[v][b].phases
        /\ cycles[v][b].phases[q].status = "running" /\ ~InPhase(s, v, b, q)
    BY <1>2
  <2>2. PICK r \in Slots : InPhase(r, v, b, q)
    BY <2>1 DEF LivePhaseHasADriver, InPhase
  <2>3. slot'[r] = slot[r] /\ pc'[r] = pc[r] /\ held'[r] = held[r]
    BY <2>1, <2>2 DEF OnlySlot
  <2>4. InPhase(r, v, b, q)'
    BY <2>2, <2>3 DEF InPhase, Drives
  <2> QED
    BY <2>4
<1> QED
  BY <1>1, <1>2

\* Steps that open and close no phase, of a slot that is in none.
LEMMA SamePhasesKeepDrivers ==
    ASSUME TypeInv, LP!IInv, LivePhaseHasADriver, NEW s \in Slots, OnlySlot(s),
           slot[s].at \notin {"execute", "verify"}, NEW t \in Tasks, NEW a,
           LedgerStays \/ CycleOpened(t) \/ CycleClosed(t, a)
    PROVE  LivePhaseHasADriver'
<1> SUFFICES ASSUME NEW v \in Tasks, NEW b \in DOMAIN cycles'[v],
                    NEW q \in DOMAIN cycles'[v][b].phases,
                    cycles'[v][b].phases[q].status = "running"
             PROVE  /\ b \in DOMAIN cycles[v] /\ q \in DOMAIN cycles[v][b].phases
                    /\ cycles[v][b].phases[q].status = "running"
  BY PhasesKeepDrivers DEF InPhase
<1>1. CASE LedgerStays
  BY <1>1 DEF LedgerStays
<1>2. CASE CycleOpened(t)
  BY <1>2, LedgerRows DEF CycleOpened
<1>3. CASE CycleClosed(t, a)
  BY <1>3 DEF CycleClosed
<1> QED
  BY <1>1, <1>2, <1>3

LEMMA OpensPhase ==
    ASSUME DataInv, LivePhaseHasADriver, NEW s \in Slots, HarnessStep(s),
           slot[s].at \notin {"execute", "verify"},
           NEW places, places \subseteq {"execute", "verify"},
           PhaseOpened(held[s], slot[s].cyc),
           MovesOn(s, places, slot[s].cyc, Len(MyPhases(s)) + 1)
    PROVE  LivePhaseHasADriver'
<1>1. Busy(s) /\ held[s] \in Tasks /\ UNCHANGED <<pc, held>> /\ OnlySlot(s)
  BY HarnessFrame DEF Busy, TypeInv, DataInv
<1>2. /\ slot'[s].at \in places /\ slot'[s].cyc = slot[s].cyc
      /\ slot'[s].ph = Len(MyPhases(s)) + 1
  BY <1>1, MovesOnFrame DEF DataInv
<1>3. PICK t, a, new : t = held[s] /\ a = slot[s].cyc /\ new = Len(MyPhases(s)) + 1
  OBVIOUS
<1>4. InPhase(s, t, a, new)'
  BY <1>1, <1>2, <1>3 DEF InPhase, Drives, Busy, Run
<1>5. ASSUME NEW v \in Tasks, NEW b \in DOMAIN cycles'[v],
             NEW q \in DOMAIN cycles'[v][b].phases,
             cycles'[v][b].phases[q].status = "running"
      PROVE  \/ v = t /\ b = a /\ q = new
             \/ /\ b \in DOMAIN cycles[v] /\ q \in DOMAIN cycles[v][b].phases
                /\ cycles[v][b].phases[q].status = "running"
  <2>1. b \in DOMAIN cycles[v]
    BY <1>5 DEF PhaseOpened, SameCycles
  <2> QED
    BY <1>3, <1>5, <2>1 DEF PhaseOpened, MyPhases
<1>6. \A v, b, q : ~InPhase(s, v, b, q)
  BY DEF InPhase
<1> QED
  BY <1>1, <1>4, <1>5, <1>6, PhasesKeepDrivers DEF DataInv

LEMMA LeavesPhase ==
    ASSUME DataInv, LivePhaseHasADriver, NEW s \in Slots, HarnessStep(s), PhaseLeft(s)
    PROVE  LivePhaseHasADriver'
<1>1. held[s] \in Tasks /\ OnlySlot(s)
  BY HarnessFrame DEF Busy, TypeInv, DataInv
<1>2. ASSUME NEW v \in Tasks, NEW b \in DOMAIN cycles'[v],
             NEW q \in DOMAIN cycles'[v][b].phases,
             cycles'[v][b].phases[q].status = "running"
      PROVE  /\ b \in DOMAIN cycles[v] /\ q \in DOMAIN cycles[v][b].phases
             /\ cycles[v][b].phases[q].status = "running"
             /\ ~(v = held[s] /\ b = slot[s].cyc /\ q = slot[s].ph)
  <2>1. CASE ~PhaseIsMine(s) /\ LedgerStays
    BY <1>2, <2>1 DEF LedgerStays, PhaseIsMine, MyPhases
  <2>2. CASE PhaseClosed(held[s], slot[s].cyc, slot[s].ph)
    BY <1>2, <2>2 DEF PhaseClosed, SameCycles
  <2> QED
    BY <2>1, <2>2 DEF PhaseLeft
<1>3. \A v, b, q : InPhase(s, v, b, q) => v = held[s] /\ b = slot[s].cyc /\ q = slot[s].ph
  BY DEF InPhase, Drives
<1> QED
  BY <1>1, <1>2, <1>3, PhasesKeepDrivers DEF DataInv

LEMMA HarnessPhases ==
    ASSUME DataInv, LivePhaseHasADriver, NEW s \in Slots, HarnessStep(s)
    PROVE  LivePhaseHasADriver'
<1> USE DEF DataInv
<1>1. held[s] \in Tasks /\ OnlySlot(s)
  BY HarnessFrame DEF Busy, TypeInv
<1>2. CASE GitPrep(s) \/ Resume(s) \/ Settle(s) \/ FailTask(s)
  <2>1. LedgerStays /\ slot[s].at \notin {"execute", "verify"}
    BY <1>2, LedgerStutters DEF GitPrep, Resume, Settle, FailTask, At
  <2> QED
    BY <1>1, <2>1, SamePhasesKeepDrivers
<1>3. CASE StartCycle(s)
  <2>1. slot[s].at \notin {"execute", "verify"} /\ (LedgerStays \/ CycleOpened(held[s]))
    BY <1>3, StartCycleMoves DEF StartCycle, At
  <2> QED
    BY <1>1, <2>1, SamePhasesKeepDrivers
<1>4. CASE Terminate(s) \/ Abort(s)
  <2>1. /\ slot[s].at \notin {"execute", "verify"}
        /\ LedgerStays \/ CycleClosed(held[s], slot[s].cyc)
    BY <1>4, TerminateMoves, AbortMoves DEF Terminate, Abort, At
  <2> QED
    BY <1>1, <2>1, SamePhasesKeepDrivers
<1>5. CASE StartExecute(s)
  <2>1. slot[s].at \notin {"execute", "verify"}
    BY <1>5 DEF StartExecute, At
  <2> QED
    BY <1>1, <1>5, <2>1, StartExecuteMoves, SamePhasesKeepDrivers, OpensPhase
<1>6. CASE StartVerify(s)
  <2>1. slot[s].at \notin {"execute", "verify"}
    BY <1>6 DEF StartVerify, At
  <2> QED
    BY <1>1, <1>6, <2>1, StartVerifyMoves, SamePhasesKeepDrivers, OpensPhase
<1>7. CASE ExecuteReturns(s) \/ VerifyReturns(s)
  BY <1>7, ExecuteReturnsMoves, VerifyReturnsMoves, LeavesPhase
<1> QED
  BY <1>2, <1>3, <1>4, <1>5, <1>6, <1>7 DEF HarnessStep

LEMMA AdmissionPhases ==
    ASSUME DataInv, LivePhaseHasADriver, NEW s \in Slots, AdmissionStep(s)
    PROVE  LivePhaseHasADriver'
<1>1. OnlySlot(s) /\ LedgerStays
  BY AdmissionFrame DEF DataInv
<1>2. ~(Busy(s) /\ slot[s].at \in Run)
  BY DEF AdmissionStep, RecvPop, RecvDelete, Reload, OpenRunningCycle, Lock, TryLock, Defer,
         AgentPickup, Finish, Q!RecvPop, Q!RecvDelete, At, Busy, Run
<1>3. \A v, b, q : ~InPhase(s, v, b, q)
  BY <1>2 DEF InPhase, Drives, Busy
<1>4. UNCHANGED cycles
  BY <1>1 DEF LedgerStays
<1> QED
  BY <1>1, <1>3, <1>4, PhasesKeepDrivers DEF DataInv

LEMMA StepPhases == DataInv /\ LivePhaseHasADriver /\ [Next]_vars => LivePhaseHasADriver'
<1> SUFFICES ASSUME DataInv, LivePhaseHasADriver, [Next]_vars PROVE LivePhaseHasADriver'
  OBVIOUS
<1>1. CASE UNCHANGED vars
  BY <1>1 DEF LivePhaseHasADriver, Drives, vars, queue
<1>2. ASSUME NEW s \in Slots, AdmissionStep(s) PROVE LivePhaseHasADriver'
  BY <1>2, AdmissionPhases
<1>3. ASSUME NEW s \in Slots, HarnessStep(s) PROVE LivePhaseHasADriver'
  BY <1>3, HarnessPhases
<1>4. ASSUME NEW t \in Tasks, Operator(t) \/ Background(t) PROVE LivePhaseHasADriver'
  BY <1>4, EnvFrame DEF DataInv, EnvFrameHolds, LivePhaseHasADriver, Drives
<1>5. CASE Crash
  BY <1>5, CrashEffect DEF DataInv, LivePhaseHasADriver
<1> QED
  BY <1>1, <1>2, <1>3, <1>4, <1>5, NextCases

-----------------------------------------------------------------------------
(* A run and its task, until a crash or a rebind.  The gate makes a slot the *)
(* only driver of its task, so the induction looks at that slot alone.       *)

RunInv == UndisturbedInv /\ RunningTaskIsDriven /\ SettledTaskIsClosed

SlotRun(s, t) ==
    /\ Picked(t) =>
          /\ slot[s].at \notin {"prepResume", "resume"}
          /\ slot[s].at \in Cycling => cycles[t][slot[s].cyc].status = "running"
    /\ slot[s].at \in {"prepFresh", "startCycle"} => ~Settled(t)

TaskRun(t) ==
    /\ \A a \in DOMAIN cycles[t] : cycles[t][a].status = "running" =>
          \E s \in Slots : Drives(s, t) /\ slot[s].at \in Cycling /\ slot[s].cyc = a
    /\ \A s \in Slots : Drives(s, t) => SlotRun(s, t)
    /\ Picked(t) => \E s \in Slots : Drives(s, t)
    /\ Settled(t) => ~L!HasRunningCycle(t)

\* TaskRun of a task nobody drives, and of a task that only s drives.
Quiet(t) == ~L!HasRunningCycle(t) /\ ~Picked(t)

SoleRun(s, t) ==
    /\ \A a \in DOMAIN cycles[t] : cycles[t][a].status = "running" =>
          slot[s].at \in Cycling /\ slot[s].cyc = a
    /\ SlotRun(s, t)
    /\ Settled(t) => ~L!HasRunningCycle(t)

Undriven(t) == \A r \in Slots : ~Drives(r, t)
Sole(s, t) == Drives(s, t) /\ \A r \in Slots : Drives(r, t) => r = s

LEMMA RunByTask == Undisturbed => (RunInv <=> \A t \in Tasks : TaskRun(t))
  BY DEF RunInv, UndisturbedInv, OpenCycleIsDriven, RunKeepsItsCycle, FreshRunIsUnsettled,
         RunningTaskIsDriven, SettledTaskIsClosed, TaskRun, SlotRun, Settled,
         L!HasRunningCycle

LEMMA RunByTaskNext == (Undisturbed => \A t \in Tasks : TaskRun(t))' => RunInv'
  BY DEF RunInv, UndisturbedInv, OpenCycleIsDriven, RunKeepsItsCycle, FreshRunIsUnsettled,
         RunningTaskIsDriven, SettledTaskIsClosed, TaskRun, SlotRun, Settled,
         L!HasRunningCycle

LEMMA QuietTask == ASSUME NEW t \in Tasks, Undriven(t) PROVE TaskRun(t) <=> Quiet(t)
  BY DEF Undriven, TaskRun, Quiet, L!HasRunningCycle

LEMMA SoleTask == ASSUME NEW s \in Slots, NEW t \in Tasks, Sole(s, t)
                  PROVE  TaskRun(t) <=> SoleRun(s, t)
  BY DEF Sole, TaskRun, SoleRun

\* The cycles of task t stay, each with its status.
StatusesStay(t) ==
    /\ DOMAIN cycles'[t] = DOMAIN cycles[t]
    /\ \A a \in DOMAIN cycles[t] : cycles'[t][a].status = cycles[t][a].status

\* A task that the slot that moves does not drive, before or after.
LEMMA OtherTaskRun ==
    ASSUME DataInv, NEW s \in Slots, NEW t \in Tasks, OnlySlot(s), TaskRun(t),
           row'[t].status = row[t].status, by'[t] = by[t], StatusesStay(t),
           ~Drives(s, t), ~Drives(s, t)'
    PROVE  TaskRun(t)'
<1>1. ASSUME NEW r \in Slots, r # s
      PROVE  slot'[r] = slot[r] /\ (Drives(r, t)' <=> Drives(r, t))
  BY <1>1 DEF OnlySlot, Drives
<1>2. \A r \in Slots : Drives(r, t)' <=> Drives(r, t)
  BY <1>1
<1>3. \A r \in Slots : Drives(r, t) => slot'[r] = slot[r]
  BY <1>1
<1>4. (\E a \in DOMAIN cycles'[t] : cycles'[t][a].status = "running")
         <=> \E a \in DOMAIN cycles[t] : cycles[t][a].status = "running"
  BY DEF StatusesStay
<1>5. ASSUME NEW a \in DOMAIN cycles'[t], cycles'[t][a].status = "running"
      PROVE  \E r \in Slots : Drives(r, t)' /\ slot'[r].at \in Cycling /\ slot'[r].cyc = a
  BY <1>2, <1>3, <1>5 DEF TaskRun, StatusesStay
<1>6. ASSUME NEW r \in Slots, Drives(r, t)' PROVE SlotRun(r, t)'
  <2>1. slot'[r] = slot[r] /\ SlotRun(r, t)
    BY <1>2, <1>3, <1>6 DEF TaskRun
  <2>2. slot[r].at \in Cycling => slot[r].cyc \in DOMAIN cycles[t]
    BY <1>2, <1>6 DEF DataInv, SlotPointsIntoLedger, Drives, Busy
  <2> QED
    BY <1>6, <2>1, <2>2 DEF SlotRun, StatusesStay, Picked, Settled
<1> QED
  BY <1>2, <1>4, <1>5, <1>6 DEF TaskRun, L!HasRunningCycle, Picked, Settled

\* With the gate, the driver of a task is its only one.
LEMMA GateMakesSole ==
    ASSUME TypeInv, GateInv, Undisturbed, NEW s \in Slots, NEW t \in Tasks, Drives(s, t)
    PROVE  Sole(s, t)
  BY GateSerializes DEF OneRunPerTask, Undisturbed, Sole

\* Under the gate of its worktree, or with that gate free, no other slot
\* drives a task.
LEMMA GateMakesUndriven ==
    ASSUME TypeInv, GateInv, Undisturbed, NEW s \in Slots, Busy(s),
           slot[s].at \in {"lock", "pickup"}, gate[slot[s].wt] \in {s, NoSlot}
    PROVE  held[s] \in Tasks /\ Undriven(held[s])
<1>1. held[s] \in Tasks
  BY DEF Busy, TypeInv
<1>2. slot[s].wt = Home[held[s]] /\ slot[s].at \notin Run
  BY DEF GateInv, HomeStays, Undisturbed, Run
<1>3. ASSUME NEW r \in Slots, Drives(r, held[s]) PROVE FALSE
  <2>1. Busy(r) /\ slot[r].at \in Run /\ held[r] = held[s]
    BY <1>3 DEF Drives, Busy
  <2>2. slot[r].wt = Home[held[s]] /\ gate[slot[r].wt] = r
    BY <2>1 DEF GateInv, HomeStays, GateHeld, Undisturbed, Run
  <2> QED
    BY <1>2, <2>1, <2>2, NamesAssumption
<1> QED
  BY <1>1, <1>3 DEF Undriven

LEMMA QuietTaskNext ==
    ASSUME NEW t \in Tasks, Undriven(t)', Quiet(t)'
    PROVE  TaskRun(t)'
  BY DEF Undriven, TaskRun, Quiet, L!HasRunningCycle

LEMMA SoleTaskNext ==
    ASSUME NEW s \in Slots, NEW t \in Tasks, Sole(s, t)', SoleRun(s, t)'
    PROVE  TaskRun(t)'
  BY DEF Sole, TaskRun, SoleRun

\* The admission steps that start no run.
LEMMA AdmissionStays ==
    ASSUME TypeInv, LP!IInv, NEW s \in Slots,
           \/ RecvPop(s) \/ RecvDelete(s) \/ Reload(s) \/ OpenRunningCycle(s)
           \/ TryLock(s) \/ Defer(s) \/ Finish(s)
    PROVE  \A t \in Tasks : /\ row'[t].status = row[t].status /\ by'[t] = by[t]
                            /\ ~Drives(s, t) /\ ~Drives(s, t)'
<1>1. ~(Busy(s) /\ slot[s].at \in Run)
  BY DEF RecvPop, RecvDelete, Reload, OpenRunningCycle, TryLock, Defer, Finish,
         Q!RecvPop, Q!RecvDelete, At, Busy, Run
<1>2. ~(Busy(s)' /\ slot'[s].at \in Run)
  <2>1. CASE RecvPop(s) \/ Finish(s)
    BY <2>1 DEF RecvPop, Finish, Q!RecvPop, Q!Ack, TypeInv, Busy
  <2>2. CASE RecvDelete(s)
    <3>1. slot'[s].at = "reload"
      BY <2>2, IdleIsTyped DEF RecvDelete, TypeInv, SlotRow
    <3> QED
      BY <3>1 DEF Run
  <2>3. CASE Reload(s)
    <3>1. slot'[s].at \in {"openCycle", "unlock", "defer", "tryLock"}
      BY <2>3, ReloadBecomes DEF SlotBecomes
    <3> QED
      BY <3>1 DEF Run
  <2>4. CASE OpenRunningCycle(s)
    <3>1. slot'[s].at \in {"lock", "unlock"}
      BY <2>4, OpenRunningCycleBecomes DEF SlotBecomes
    <3> QED
      BY <3>1 DEF Run
  <2>5. CASE TryLock(s) \/ Defer(s)
    <3>1. slot'[s].at \in {"pickup", "defer", "unlock"}
      BY <2>5, GotoBecomes DEF TryLock, Defer, SlotBecomes, Place, Admission
    <3> QED
      BY <3>1 DEF Run
  <2> QED
    BY <2>1, <2>2, <2>3, <2>4, <2>5
<1>3. \A t \in Tasks : row'[t].status = row[t].status /\ by'[t] = by[t]
  <2>1. CASE Defer(s)
    <3>1. /\ held[s] \in Tasks /\ UNCHANGED by
          /\ row' = [row EXCEPT ![held[s]] = [row[held[s]] EXCEPT !.later = TRUE]]
      BY <2>1 DEF Defer, At, Update, TypeInv
    <3>2. [row[held[s]] EXCEPT !.later = TRUE].status = row[held[s]].status
      BY <3>1 DEF TypeInv, TaskRow
    <3> QED
      BY <3>1, <3>2 DEF TypeInv
  <2>2. CASE UNCHANGED <<row, by>>
    BY <2>2
  <2> QED
    BY <2>1, <2>2
    DEF RecvPop, RecvDelete, Reload, OpenRunningCycle, TryLock, Finish, tasks
<1> QED
  BY <1>1, <1>2, <1>3 DEF Drives, Busy

LEMMA LockRun ==
    ASSUME DataInv, GateInv, Undisturbed, \A t \in Tasks : TaskRun(t),
           NEW s \in Slots, Lock(s)
    PROVE  \A t \in Tasks : TaskRun(t)'
<1>1. /\ Busy(s) /\ slot[s].at = "lock" /\ gate[slot[s].wt] = NoSlot
      /\ UNCHANGED <<pc, held, cycles, row, by>> /\ OnlySlot(s)
  BY AdmissionFrame DEF Lock, At, Busy, queue, tasks, DataInv, AdmissionStep
<1>2. slot'[s].at = "prepResume"
  BY GotoBecomes DEF Lock, SlotBecomes, Place, Run, DataInv
<1>3. held[s] \in Tasks /\ Undriven(held[s])
  BY <1>1, GateMakesUndriven DEF DataInv
<1>4. PICK t \in Tasks : t = held[s]
  BY <1>3
<1>5. Quiet(t)
  BY <1>3, <1>4, QuietTask
<1>6. Sole(s, t)'
  BY <1>1, <1>2, <1>3, <1>4 DEF Sole, Drives, Busy, Run, Undriven, OnlySlot
<1>7. SoleRun(s, t)'
  BY <1>1, <1>2, <1>5 DEF SoleRun, SlotRun, Quiet, L!HasRunningCycle, Picked, Settled, Cycling
<1>8. TaskRun(t)'
  BY <1>6, <1>7, SoleTaskNext
<1>9. ASSUME NEW v \in Tasks, v # t PROVE TaskRun(v)'
  <2>1. ~Drives(s, v) /\ ~Drives(s, v)'
    BY <1>1, <1>4, <1>9 DEF Drives
  <2> QED
    BY <1>1, <2>1, OtherTaskRun DEF StatusesStay
<1> QED
  BY <1>8, <1>9

LEMMA AgentPickupRun ==
    ASSUME DataInv, GateInv, Undisturbed, \A t \in Tasks : TaskRun(t),
           NEW s \in Slots, AgentPickup(s)
    PROVE  \A t \in Tasks : TaskRun(t)'
<1>1. /\ Busy(s) /\ slot[s].at = "pickup" /\ UNCHANGED <<pc, held, cycles>> /\ OnlySlot(s)
  BY AdmissionFrame DEF AgentPickup, At, Busy, queue, DataInv, AdmissionStep
<1>2. gate[slot[s].wt] = s
  BY <1>1 DEF GateInv, GateHeld, Undisturbed
<1>3. held[s] \in Tasks /\ Undriven(held[s])
  BY <1>1, <1>2, GateMakesUndriven DEF DataInv
<1>4. PICK t \in Tasks : t = held[s]
  BY <1>3
<1>5. \A v \in Tasks : ~Drives(s, v)
  BY <1>1 DEF Drives, Run
<1>6. CASE row[t].status = "ready"
  <2>1. /\ row' = [row EXCEPT ![t] = [row[t] EXCEPT !.status = "running"]]
        /\ slot'[s].at = "prepFresh"
    BY <1>4, <1>6, AgentPickupBecomes DEF AgentPickup, SlotBecomes, DataInv
  <2>2. /\ row'[t].status = "running"
        /\ \A v \in Tasks : v # t => row'[v] = row[v] /\ by'[v] = by[v]
    BY <1>4, <1>6, <2>1 DEF DataInv, TypeInv, TaskRow, AgentPickup
  <2>3. ~L!HasRunningCycle(t)
    BY <1>3, <1>4, QuietTask DEF Quiet
  <2>4. Sole(s, t)'
    BY <1>1, <1>3, <1>4, <2>1 DEF Sole, Drives, Busy, Run, Undriven, OnlySlot
  <2>5. SoleRun(s, t)'
    BY <1>1, <2>1, <2>2, <2>3 DEF SoleRun, SlotRun, Cycling, L!HasRunningCycle, Settled
  <2>6. TaskRun(t)'
    BY <2>4, <2>5, SoleTaskNext
  <2>7. ASSUME NEW v \in Tasks, v # t PROVE TaskRun(v)'
    <3>1. ~Drives(s, v)'
      BY <1>1, <1>4, <2>7 DEF Drives
    <3> QED
      BY <1>1, <1>5, <2>2, <2>7, <3>1, OtherTaskRun DEF StatusesStay
  <2> QED
    BY <2>6, <2>7
<1>7. CASE row[t].status # "ready"
  <2>1. slot'[s].at = "unlock" /\ UNCHANGED <<row, by>>
    BY <1>4, <1>7, AgentPickupBecomes DEF AgentPickup, SlotBecomes, DataInv
  <2>2. \A v \in Tasks : ~Drives(s, v)'
    BY <2>1 DEF Drives, Run
  <2> QED
    BY <1>1, <1>5, <2>1, <2>2, OtherTaskRun DEF StatusesStay
<1> QED
  BY <1>6, <1>7

LEMMA AdmissionRun ==
    ASSUME DataInv, GateInv, Undisturbed, \A t \in Tasks : TaskRun(t),
           NEW s \in Slots, AdmissionStep(s)
    PROVE  \A t \in Tasks : TaskRun(t)'
<1>1. OnlySlot(s) /\ UNCHANGED cycles
  BY AdmissionFrame DEF DataInv, LedgerStays
<1>2. CASE Lock(s)
  BY <1>2, LockRun
<1>3. CASE AgentPickup(s)
  BY <1>3, AgentPickupRun
<1>4. CASE \/ RecvPop(s) \/ RecvDelete(s) \/ Reload(s) \/ OpenRunningCycle(s)
           \/ TryLock(s) \/ Defer(s) \/ Finish(s)
  <2>1. \A t \in Tasks : /\ row'[t].status = row[t].status /\ by'[t] = by[t]
                         /\ ~Drives(s, t) /\ ~Drives(s, t)'
    BY <1>4, AdmissionStays DEF DataInv
  <2> QED
    BY <1>1, <2>1, OtherTaskRun DEF StatusesStay
<1> QED
  BY <1>2, <1>3, <1>4 DEF AdmissionStep

\* The slot's cycle cannot be closed only because it already is: a running
\* phase in it would have another driver.
LEMMA RefusedMeansClosed ==
    ASSUME DataInv, LivePhaseHasADriver, NEW s \in Slots, NEW t \in Tasks, Sole(s, t),
           slot[s].at \in {"terminate", "abort"}, ~CanTerminate(s)
    PROVE  cycles[t][slot[s].cyc].status # "running"
<1>1. held[s] = t /\ slot[s].cyc \in DOMAIN cycles[t]
  BY DEF Sole, Drives, DataInv, SlotPointsIntoLedger, Busy, Cycling
<1>2. SUFFICES ASSUME L!HasRunningPhase(t, slot[s].cyc) PROVE FALSE
  BY <1>1 DEF CanTerminate
<1>3. PICK r \in Slots : Drives(r, t) /\ slot[r].at \in {"execute", "verify"}
  BY <1>1, <1>2 DEF L!HasRunningPhase, LivePhaseHasADriver
<1> QED
  BY <1>3 DEF Sole

\* What a step of the harness leaves of the invariant to be shown: the slot
\* and its task.
LEMMA HarnessOtherTasks ==
    ASSUME DataInv, GateInv, Undisturbed, \A v \in Tasks : TaskRun(v),
           NEW s \in Slots, NEW t \in Tasks, t = held[s], HarnessStep(s),
           \A v \in Tasks : v # t => StatusesStay(v) /\ row'[v] = row[v] /\ by'[v] = by[v],
           \/ slot'[s].at \in Run /\ SoleRun(s, t)'
           \/ slot'[s].at = "unlock" /\ Quiet(t)'
    PROVE  \A v \in Tasks : TaskRun(v)'
<1>1. Busy(s) /\ slot[s].at \in Run /\ UNCHANGED <<pc, held>> /\ OnlySlot(s)
  BY HarnessFrame DEF DataInv
<1>2. Sole(s, t)
  BY <1>1, GateMakesSole DEF Drives, Busy, DataInv
<1>3. TaskRun(t)'
  <2>1. CASE slot'[s].at \in Run /\ SoleRun(s, t)'
    <3>1. Sole(s, t)'
      BY <1>1, <1>2, <2>1 DEF Sole, Drives, Busy, OnlySlot
    <3> QED
      BY <2>1, <3>1, SoleTaskNext
  <2>2. CASE slot'[s].at = "unlock" /\ Quiet(t)'
    <3>1. Undriven(t)'
      BY <1>1, <1>2, <2>2 DEF Sole, Undriven, Drives, OnlySlot, Run
    <3> QED
      BY <2>2, <3>1, QuietTaskNext
  <2> QED
    BY <2>1, <2>2
<1>4. ASSUME NEW v \in Tasks, v # t PROVE TaskRun(v)'
  <2>1. ~Drives(s, v) /\ ~Drives(s, v)'
    BY <1>1, <1>4 DEF Drives
  <2> QED
    BY <1>1, <1>4, <2>1, OtherTaskRun
<1> QED
  BY <1>3, <1>4

LEMMA HarnessRun ==
    ASSUME DataInv, GateInv, LivePhaseHasADriver, Undisturbed, \A v \in Tasks : TaskRun(v),
           NEW s \in Slots, HarnessStep(s)
    PROVE  \A v \in Tasks : TaskRun(v)'
<1>1. /\ Busy(s) /\ slot[s].at \in Run /\ held[s] \in Tasks
      /\ UNCHANGED <<pc, held>> /\ OnlySlot(s)
  BY HarnessFrame DEF DataInv, Busy, TypeInv
<1>2. PICK t \in Tasks, a \in Nat : t = held[s] /\ a = slot[s].cyc
  BY <1>1 DEF DataInv, TypeInv, SlotRow
<1>3. Sole(s, t) /\ SoleRun(s, t)
  BY <1>1, <1>2, GateMakesSole, SoleTask DEF Drives, Busy, DataInv
<1>4. slot[s].at \notin Cycling => ~L!HasRunningCycle(t)
  BY <1>3 DEF SoleRun, L!HasRunningCycle
<1>5. SUFFICES /\ \A v \in Tasks : v # t => /\ StatusesStay(v)
                                            /\ row'[v] = row[v] /\ by'[v] = by[v]
               /\ \/ slot'[s].at \in Run /\ SoleRun(s, t)'
                  \/ slot'[s].at = "unlock" /\ Quiet(t)'
  BY <1>2, HarnessOtherTasks
\* The ledger keeps every status, and the slot stays in its cycle.
<1>6. ASSUME UNCHANGED <<row, by>>, \A v \in Tasks : StatusesStay(v),
             slot'[s].cyc = a, slot'[s].at \in Run, slot[s].at \in {"resume"} \cup Cycling,
             slot'[s].at \in {"failTask"} \cup Cycling,
             slot[s].at = "resume" \/ slot'[s].at \in Cycling
      PROVE  SoleRun(s, t)'
  <2>1. a \in DOMAIN cycles[t]
    BY <1>1, <1>2, <1>6 DEF DataInv, SlotPointsIntoLedger, Busy
  <2>2. /\ DOMAIN cycles'[t] = DOMAIN cycles[t]
        /\ \A b \in DOMAIN cycles[t] : cycles'[t][b].status = cycles[t][b].status
    BY <1>6 DEF StatusesStay
  <2>3. CASE slot[s].at = "resume"
    <3>1. ~L!HasRunningCycle(t) /\ ~Picked(t)
      BY <1>3, <1>4, <2>3 DEF SoleRun, SlotRun, Cycling
    <3> QED
      BY <1>6, <2>2, <3>1 DEF SoleRun, SlotRun, L!HasRunningCycle, Cycling, Picked
  <2>4. CASE slot[s].at \in Cycling /\ slot'[s].at \in Cycling
    BY <1>2, <1>3, <1>6, <2>1, <2>2, <2>4
    DEF SoleRun, SlotRun, L!HasRunningCycle, Cycling, Picked, Settled
  <2> QED
    BY <1>6, <2>3, <2>4
<1>7. CASE GitPrep(s)
  <2>1. UNCHANGED <<cycles, row, by>> /\ slot[s].at \in {"prepFresh", "prepResume"}
    BY <1>7 DEF GitPrep, At, tasks
  <2>2. \/ slot[s].at = "prepFresh" /\ slot'[s].at \in {"startCycle", "failTask"}
        \/ slot[s].at = "prepResume" /\ slot'[s].at \in {"resume", "failTask"}
    BY <1>1, <1>7, GitPrepMoves, MovesOnFrame DEF DataInv
  <2>3. ~L!HasRunningCycle(t)
    BY <1>4, <2>1 DEF Cycling
  <2> QED
    BY <1>3, <2>1, <2>2, <2>3
    DEF StatusesStay, SoleRun, SlotRun, L!HasRunningCycle, Cycling, Run, Picked, Settled
<1>8. CASE StartCycle(s)
  <2>1. UNCHANGED <<row, by>> /\ slot[s].at = "startCycle"
    BY <1>8 DEF StartCycle, At, ledgerOnly, tasks
  <2>2. ~L!HasRunningCycle(t) /\ ~Settled(t)
    BY <1>3, <1>4, <2>1 DEF Cycling, SoleRun, SlotRun
  <2>3. CycleOpened(t) /\ slot'[s].at = "startExecute" /\ slot'[s].cyc = Len(cycles[t]) + 1
    BY <1>1, <1>2, <1>8, <2>2, StartCycleMoves, MovesOnFrame DEF DataInv
  <2>4. \A v \in Tasks : v # t => StatusesStay(v)
    BY <2>3 DEF CycleOpened, StatusesStay
  <2>5. SoleRun(s, t)'
    BY <2>1, <2>2, <2>3
    DEF CycleOpened, SoleRun, SlotRun, L!HasRunningCycle, Cycling, Picked, Settled
  <2> QED
    BY <2>1, <2>3, <2>4, <2>5 DEF Run
<1>9. CASE Resume(s)
  <2>1. UNCHANGED <<cycles, row, by>> /\ slot[s].at = "resume"
    BY <1>9 DEF Resume, At, ledgerOnly, tasks
  <2>2. slot'[s].at \in {"failTask", "startExecute", "startVerify"} /\ slot'[s].cyc = a
    BY <1>1, <1>2, <1>9, ResumeMoves, MovesOnFrame DEF DataInv
  <2>3. \A v \in Tasks : StatusesStay(v)
    BY <2>1 DEF StatusesStay
  <2> QED
    BY <1>6, <2>1, <2>2, <2>3 DEF Cycling, Run
<1>10. CASE StartExecute(s) \/ StartVerify(s) \/ ExecuteReturns(s) \/ VerifyReturns(s)
  <2>1. UNCHANGED <<row, by>> /\ slot[s].at \in Cycling
    BY <1>10 DEF StartExecute, StartVerify, ExecuteReturns, VerifyReturns, At, ledgerOnly,
                 tasks, Cycling
  <2>2. LedgerStays \/ SameCycles
    BY <1>10, StartExecuteMoves, StartVerifyMoves, ExecuteReturnsMoves, VerifyReturnsMoves
    DEF PhaseOpened, PhaseClosed, PhaseLeft, DataInv
  <2>3. \A v \in Tasks : StatusesStay(v)
    BY <2>2 DEF LedgerStays, SameCycles, StatusesStay
  <2>4. slot'[s].at \in Cycling /\ slot'[s].cyc = a
    <3>1. ASSUME NEW places, places \subseteq Cycling, NEW ph, MovesOn(s, places, a, ph)
          PROVE  slot'[s].at \in Cycling /\ slot'[s].cyc = a
      BY <1>1, <3>1, MovesOnFrame DEF DataInv
    <3>2. CASE StartExecute(s)
      BY <1>2, <3>1, <3>2, StartExecuteMoves DEF DataInv, Cycling
    <3>3. CASE StartVerify(s)
      BY <1>2, <3>1, <3>3, StartVerifyMoves DEF DataInv, Cycling
    <3>4. CASE ExecuteReturns(s) \/ VerifyReturns(s)
      BY <1>2, <3>1, <3>4, ExecuteReturnsMoves, VerifyReturnsMoves DEF DataInv, Cycling
    <3> QED
      BY <1>10, <3>2, <3>3, <3>4
  <2>5. slot'[s].at \in Run
    BY <2>4 DEF Cycling, Run
  <2> QED
    BY <1>6, <2>1, <2>3, <2>4, <2>5
<1>11. CASE Terminate(s)
  <2>1. UNCHANGED <<row, by>> /\ slot[s].at = "terminate"
    BY <1>11 DEF Terminate, At, ledgerOnly, tasks
  <2>2. CASE CanTerminate(s)
    <3>1. CycleClosed(t, a) /\ slot'[s].at = "settle"
      BY <1>1, <1>2, <1>11, <2>2, TerminateMoves, MovesOnFrame DEF DataInv
    <3>2. \A v \in Tasks : v # t => StatusesStay(v)
      BY <3>1 DEF CycleClosed, StatusesStay
    <3>3. \A b \in DOMAIN cycles'[t] : cycles'[t][b].status # "running"
      BY <1>2, <1>3, <3>1 DEF CycleClosed, SoleRun
    <3>4. SoleRun(s, t)'
      BY <3>1, <3>3 DEF SoleRun, SlotRun, L!HasRunningCycle, Cycling
    <3> QED
      BY <2>1, <3>1, <3>2, <3>4 DEF Run
  <2>3. CASE ~CanTerminate(s)
    <3>1. UNCHANGED cycles /\ slot'[s].at = "unlock"
      BY <1>1, <1>11, <2>3, TerminateMoves, MovesOnFrame DEF DataInv, LedgerStays
    <3>2. cycles[t][a].status # "running"
      BY <1>2, <1>3, <2>1, <2>3, RefusedMeansClosed
    <3>3. Quiet(t)
      BY <1>2, <1>3, <2>1, <3>2 DEF SoleRun, SlotRun, Quiet, L!HasRunningCycle, Cycling
    <3> QED
      BY <2>1, <3>1, <3>3 DEF Quiet, L!HasRunningCycle, StatusesStay, Picked
  <2> QED
    BY <2>2, <2>3
<1>12. CASE Abort(s)
  <2>1. UNCHANGED <<row, by>> /\ slot[s].at = "abort" /\ slot'[s].at = "failTask"
    BY <1>1, <1>12, AbortMoves, MovesOnFrame DEF Abort, At, ledgerOnly, tasks, DataInv
  <2>2. /\ \A v \in Tasks : v # t => StatusesStay(v)
        /\ \A b \in DOMAIN cycles'[t] : cycles'[t][b].status # "running"
    <3>1. CASE CanTerminate(s)
      <4>1. CycleClosed(t, a)
        BY <1>2, <1>12, <3>1, AbortMoves DEF DataInv
      <4> QED
        BY <1>2, <1>3, <4>1 DEF CycleClosed, SoleRun, StatusesStay
    <3>2. CASE ~CanTerminate(s)
      <4>1. UNCHANGED cycles
        BY <1>12, <3>2, AbortMoves DEF DataInv, LedgerStays
      <4>2. cycles[t][a].status # "running"
        BY <1>2, <1>3, <2>1, <3>2, RefusedMeansClosed
      <4> QED
        BY <1>2, <1>3, <4>1, <4>2 DEF SoleRun, StatusesStay
    <3> QED
      BY <3>1, <3>2
  <2> QED
    BY <2>1, <2>2 DEF SoleRun, SlotRun, L!HasRunningCycle, Cycling, Run
<1>13. CASE Settle(s) \/ FailTask(s)
  <2>1. UNCHANGED cycles /\ slot[s].at \notin Cycling
    BY <1>13 DEF Settle, FailTask, At, Cycling
  <2>2. /\ slot'[s].at = "unlock" /\ ~Picked(t)'
        /\ \A v \in Tasks : v # t => row'[v] = row[v] /\ by'[v] = by[v]
    BY <1>1, <1>2, <1>13, SettleMoves, MovesOnFrame DEF DataInv
  <2> QED
    BY <1>4, <2>1, <2>2 DEF Quiet, L!HasRunningCycle, StatusesStay
<1> QED
  BY <1>7, <1>8, <1>9, <1>10, <1>11, <1>12, <1>13 DEF HarnessStep

LEMMA StepRun ==
    DataInv /\ GateInv /\ LivePhaseHasADriver /\ RunInv /\ [Next]_vars => RunInv'
<1> SUFFICES ASSUME DataInv, GateInv, LivePhaseHasADriver, RunInv, [Next]_vars, Undisturbed'
             PROVE  \A t \in Tasks : TaskRun(t)'
  BY RunByTaskNext
<1>1. CASE UNCHANGED vars
  <2>1. Undisturbed
    BY <1>1 DEF Undisturbed, vars, bounds
  <2> QED
    BY <1>1, <2>1, RunByTask
    DEF TaskRun, SlotRun, Drives, L!HasRunningCycle, vars, queue, tasks, Picked, Settled
<1>2. ASSUME Undisturbed PROVE \A t \in Tasks : TaskRun(t)
  BY <1>2, RunByTask
<1>3. ASSUME NEW s \in Slots, AdmissionStep(s) PROVE \A t \in Tasks : TaskRun(t)'
  <2>1. Undisturbed
    BY <1>3, AdmissionFrame DEF DataInv, Undisturbed, bounds
  <2> QED
    BY <1>2, <1>3, <2>1, AdmissionRun
<1>4. ASSUME NEW s \in Slots, HarnessStep(s) PROVE \A t \in Tasks : TaskRun(t)'
  <2>1. Undisturbed
    BY <1>4, HarnessFrame DEF DataInv, Undisturbed, bounds
  <2> QED
    BY <1>2, <1>4, <2>1, HarnessRun
<1>5. ASSUME NEW t \in Tasks, Operator(t) \/ Background(t) PROVE \A v \in Tasks : TaskRun(v)'
  <2>1. EnvFrameHolds
    BY <1>5, EnvFrame DEF DataInv
  <2>2. Undisturbed
    BY <2>1 DEF EnvFrameHolds, Undisturbed
  <2> SUFFICES ASSUME NEW v \in Tasks PROVE TaskRun(v)'
    OBVIOUS
  <2>3. TaskRun(v) /\ UNCHANGED <<pc, held, slot, cycles>>
    BY <1>2, <2>1, <2>2 DEF EnvFrameHolds
  <2>4. (row'[v].status = row[v].status /\ by'[v] = by[v]) \/ by'[v] = "operator"
    BY <2>1 DEF EnvFrameHolds
  <2> QED
    BY <2>3, <2>4 DEF TaskRun, SlotRun, Drives, L!HasRunningCycle, Picked, Settled
<1>6. ~Crash
  BY CrashEffect DEF DataInv, Undisturbed
<1> QED
  BY <1>1, <1>3, <1>4, <1>5, <1>6, NextCases

-----------------------------------------------------------------------------
(* The induction.                                                            *)

LEMMA InitIInv == Init => IInv
<1> SUFFICES ASSUME Init PROVE IInv
  OBVIOUS
<1>1. TypeInv
  BY InitType
<1>2. LP!IInv
  BY LedgerBounds, LP!InitIInv DEF Init, L!Init, LP!Init
<1>3. \A s \in Slots : ~Busy(s)
  BY DEF Init, Q!Init, Busy
<1>4. \A t \in Tasks : cycles[t] = <<>> /\ row[t].status = "absent" /\ row[t].wt = Home[t]
  BY DEF Init, L!Init
<1>5. SlotPointsIntoLedger /\ GateIsNotLeaked /\ HomeStays /\ GateHeld
  BY <1>3, <1>4 DEF Init, SlotPointsIntoLedger, GateIsNotLeaked, HomeStays, GateHeld
<1>6. LivePhaseHasADriver
  BY <1>4 DEF LivePhaseHasADriver
<1>7. \A s \in Slots : \A t \in Tasks : ~Drives(s, t)
  BY <1>3 DEF Drives, Busy
<1>8. UndisturbedInv /\ RunningTaskIsDriven /\ SettledTaskIsClosed
  BY <1>4, <1>7
  DEF UndisturbedInv, OpenCycleIsDriven, RunKeepsItsCycle, FreshRunIsUnsettled,
      RunningTaskIsDriven, SettledTaskIsClosed, Picked
<1> QED
  BY <1>1, <1>2, <1>5, <1>6, <1>8 DEF IInv

LEMMA StepIInv == IInv /\ [Next]_vars => IInv'
<1>1. IInv <=> DataInv /\ GateInv /\ LivePhaseHasADriver /\ RunInv
  BY DEF IInv, DataInv, GateInv, RunInv
<1>2. IInv' <=> DataInv' /\ GateInv' /\ LivePhaseHasADriver' /\ RunInv'
  BY DEF IInv, DataInv, GateInv, RunInv
<1> QED
  BY <1>1, <1>2, StepData, StepGate, StepPhases, StepRun

LEMMA PoolInductive == Spec => []IInv
  BY InitIInv, StepIInv, PTL DEF Spec

-----------------------------------------------------------------------------
\* processOne, the queue and the rows: every variable keeps its type, and the
\* cycle and phase a slot works on exist.
THEOREM PoolTypeCorrect == Spec => [](TypeInv /\ SlotPointsIntoLedger)
<1>1. IInv => TypeInv /\ SlotPointsIntoLedger
  BY DEF IInv
<1> QED
  BY <1>1, PoolInductive, PTL

\* The ledger's contract holds of the rows the pool writes, whatever the
\* interleaving of the slots and through every crash and sweep
\* (FinalizeInterruptedPhases): the newest cycle and phase alone may run,
\* nothing runs under a closed cycle, the phases follow domain/cycle_state.go.
THEOREM PoolKeepsTheLedgerSound ==
    Spec => [](/\ L!OnlyLatestCycleRuns /\ L!OnlyLatestPhaseRuns
               /\ L!ClosedCycleIsQuiet /\ L!PhasesFollowTheMachine)
<1>1. ASSUME LP!IInv
      PROVE  /\ L!OnlyLatestCycleRuns /\ L!OnlyLatestPhaseRuns
             /\ L!ClosedCycleIsQuiet /\ L!PhasesFollowTheMachine
  BY <1>1 DEF LP!IInv, LP!OnlyLatestCycleRuns, LP!RowOK, LP!Running, LP!MayAppend,
         LP!ValidPhaseTransition, LP!ValidInterruptResumeTransition,
         LP!ValidVerifyOnlyRetryTransition,
         L!OnlyLatestCycleRuns, L!OnlyLatestPhaseRuns, L!ClosedCycleIsQuiet,
         L!HasRunningPhase, L!PhasesFollowTheMachine, L!MayAppend, L!ValidPhaseTransition,
         L!ValidInterruptResumeTransition, L!ValidVerifyOnlyRetryTransition
<1>2. IInv => LP!IInv
  BY DEF IInv
<1> QED
  BY <1>1, <1>2, PoolInductive, PTL

\* processOne: a gate is held only between its lock and its deferred unlock,
\* through every early return and crash.
THEOREM GateIsNeverLeaked == Spec => []GateIsNotLeaked
<1>1. IInv => GateIsNotLeaked
  BY DEF IInv
<1> QED
  BY <1>1, PoolInductive, PTL

\* WorktreeGate and runWithGitPrep: two runs never share a checkout, as long
\* as nobody moves a task to another worktree.
THEOREM WorktreesAreExclusive == Spec => []WorktreeIsExclusive
<1>1. IInv => WorktreeIsExclusive
  BY GateSerializes DEF IInv, GateInv
<1> QED
  BY <1>1, PoolInductive, PTL

\* processOne, both admission paths: at most one harness works on a task,
\* although the queue may hand its id to several slots.
THEOREM OneHarnessPerTask == Spec => []OneRunPerTask
<1>1. IInv => OneRunPerTask
  BY GateSerializes DEF IInv, GateInv
<1> QED
  BY <1>1, PoolInductive, PTL

\* RunPipeline and recoverFromPanic: a running phase row has a slot in that
\* phase, so FinalizeInterruptedPhases closes at startup only phases that a
\* crash interrupted.
THEOREM LivePhasesAreDriven == Spec => []LivePhaseHasADriver
<1>1. IInv => LivePhaseHasADriver
  BY DEF IInv
<1> QED
  BY <1>1, PoolInductive, PTL

\* processOne, bestEffortFailTask: until a crash or a rebind, a task the worker
\* set running is driven by a slot, so no early return strands it; only a
\* refused done and a PATCH leave a task running alone.
THEOREM RunningTasksAreDriven == Spec => []RunningTaskIsDriven
<1>1. IInv => RunningTaskIsDriven
  BY DEF IInv
<1> QED
  BY <1>1, PoolInductive, PTL

\* terminateCycle before transitionTask, and bestEffortTerminate: until a crash
\* or a rebind, a task the worker settled has no open cycle, and one that a
\* PATCH settled in the middle of a run has a slot that will close it.
THEOREM SettledTasksAreClosed == Spec => []SettledTaskIsClosed
<1>1. IInv => SettledTaskIsClosed
  BY DEF IInv
<1> QED
  BY <1>1, PoolInductive, PTL
=============================================================================

---------------------------- MODULE MemoryQueue ----------------------------
(* The in-process task queue of pkgs/agents/memory_queue.go and the worker   *)
(* slots that read it.  A bounded channel carries task snapshots; only the   *)
(* task id matters, because a consumer reloads the row before acting on it.  *)
(* Beside the channel the queue keeps the set `pending` of ids it believes   *)
(* are buffered, and refuses a second enqueue of a pending id.               *)
(*                                                                           *)
(* The two are not updated together on the consumer's side: Receive pops the *)
(* channel without the mutex, and only then locks and deletes the id from    *)
(* `pending`; and the worker deletes it once more (AckAfterRecv) when it has *)
(* finished with the task, by when the same id may be buffered again.        *)
(*                                                                           *)
(* What a slot is handed counts for nothing until it has reloaded the row: a *)
(* reload that fails, on a dead context as on a store error, drops the id.   *)
EXTENDS Naturals, Sequences, FiniteSets

CONSTANTS
    Ids,        \* task ids producers may announce
    Consumers,  \* worker slots (goroutines running Worker.Run)
    NoId,       \* "holds no task"
    Cap,        \* channel capacity, HAMIX_USER_TASK_AGENT_QUEUE_CAP
    MaxSwaps    \* bound: how often a consumer's context may be cancelled

ASSUME NoIdAssumption == NoId \notin Ids
ASSUME CapAssumption == Cap \in Nat \ {0}     \* NewMemoryQueue panics otherwise
ASSUME MaxSwapsAssumption == MaxSwaps \in Nat

VARIABLES
    ch,         \* the buffered channel: a FIFO of ids
    pending,    \* MemoryQueue.pending
    pc,         \* pc[c]: where consumer c is in its Receive / processOne loop
    held,       \* held[c]: the id c took from the channel and has not acked
    cancelled,  \* cancelled[c]: the context given to c's Receive is done
    swaps,      \* contexts cancelled so far (bounded by MaxSwaps)
    loading,    \* busy slots that have not reloaded the row of held[c] yet
    owed,       \* history: ids no reload has found since their last accepted wake
    dropped     \* history: ids a failed reload has dropped since that wake

histories == <<owed, dropped>>
vars == <<ch, pending, pc, held, cancelled, swaps, loading, owed, dropped>>

Buffered == {ch[i] : i \in DOMAIN ch}

\* Ids some consumer has popped but whose pending entry it has not yet deleted.
InHandoff == {held[c] : c \in {k \in Consumers : pc[k] = "recv"}}

\* Ids a consumer is going to look up in the store.
InReload == {held[c] : c \in loading}

\* Ids whose next event is a consumer starting to process them.
Deliverable == Buffered \cup InHandoff

Init ==
    /\ ch = <<>>
    /\ pending = {}
    /\ pc = [c \in Consumers |-> "idle"]
    /\ held = [c \in Consumers |-> NoId]
    /\ cancelled = [c \in Consumers |-> FALSE]
    /\ swaps = 0
    /\ loading = {}
    /\ owed = {}
    /\ dropped = {}

-----------------------------------------------------------------------------
(* Producers.  tryEnqueue runs under the mutex and the send is non-blocking, *)
(* so a call takes effect at one instant, the send.                          *)

AlreadyQueued(id) == id \in pending               \* ErrAlreadyQueued
QueueFull(id) == id \notin pending /\ Len(ch) = Cap   \* ErrQueueFull

\* tryEnqueue that records the id although the buffer had no room for it.
EnqueueMarksFirst(id) ==
    /\ id \notin pending
    /\ pending' = pending \cup {id}
    /\ ch' = IF Len(ch) < Cap THEN Append(ch, id) ELSE ch

\* tryEnqueue without the `default:` arm that bounds the buffer.
EnqueueUnbounded(id) ==
    /\ id \notin pending
    /\ ch' = Append(ch, id)
    /\ pending' = pending \cup {id}

Enqueue(id) ==
    /\ id \notin pending
    /\ Len(ch) < Cap
    /\ ch' = Append(ch, id)
    /\ pending' = pending \cup {id}

\* The queue accepts the wake: it buffers the id, or reports it already queued.
Accept(id) ==
    \/ Enqueue(id)
    \/ AlreadyQueued(id) /\ UNCHANGED <<ch, pending>>

\* NotifyReadyTask.  ErrQueueFull changes nothing and promises nothing.
Notify(id) ==
    /\ Accept(id)
    /\ owed' = owed \cup {id}
    /\ dropped' = dropped \ {id}
    /\ UNCHANGED <<pc, held, cancelled, swaps, loading>>

-----------------------------------------------------------------------------
(* Consumers.                                                                *)

\* Receive that looks at its context after the pop and drops the task.
RecvPopChecksContextLate(c) ==
    /\ pc[c] = "idle"
    /\ ch # <<>>
    /\ ch' = Tail(ch)
    /\ held' = [held EXCEPT ![c] = IF cancelled[c] THEN NoId ELSE Head(ch)]
    /\ pc' = [pc EXCEPT ![c] = IF cancelled[c] THEN "stopped" ELSE "recv"]
    /\ UNCHANGED <<pending, cancelled, swaps, loading, histories>>

\* Receive, first half: the channel receive, outside the mutex.  A select
\* with both cases ready picks either, so a cancelled slot may still pop.
RecvPop(c) ==
    /\ pc[c] = "idle"
    /\ ch # <<>>
    /\ held' = [held EXCEPT ![c] = Head(ch)]
    /\ ch' = Tail(ch)
    /\ pc' = [pc EXCEPT ![c] = "recv"]
    /\ UNCHANGED <<pending, cancelled, swaps, loading, histories>>

\* Receive that leaves the pending entry for the later ack to delete.
RecvKeepsPending(c) ==
    /\ pc[c] = "recv"
    /\ pc' = [pc EXCEPT ![c] = "busy"]
    /\ loading' = loading \cup {c}
    /\ UNCHANGED <<ch, pending, held, cancelled, swaps, histories>>

\* Receive, second half: lock, delete the pending entry, return the task, which
\* processOne will reload.
RecvDelete(c) ==
    /\ pc[c] = "recv"
    /\ pending' = pending \ {held[c]}
    /\ pc' = [pc EXCEPT ![c] = "busy"]
    /\ loading' = loading \cup {c}
    /\ UNCHANGED <<ch, held, cancelled, swaps, histories>>

\* reloadTask finds the row: it is read after the commit of every wake for the
\* id that was accepted so far.
Reload(c) ==
    /\ c \in loading
    /\ ~cancelled[c]
    /\ owed' = owed \ {held[c]}
    /\ loading' = loading \ {c}
    /\ UNCHANGED <<ch, pending, pc, held, cancelled, swaps, dropped>>

\* reloadTask fails, always on a dead context and on a live one when the store
\* does, and processOne returns: nobody is told, the id is gone.
ReloadFails(c) ==
    /\ c \in loading
    /\ dropped' = dropped \cup {held[c]}
    /\ loading' = loading \ {c}
    /\ UNCHANGED <<ch, pending, pc, held, cancelled, swaps, owed>>

\* Receive, the ctx.Done case: the slot's goroutine ends.
RecvDone(c) ==
    /\ pc[c] = "idle"
    /\ cancelled[c]
    /\ pc' = [pc EXCEPT ![c] = "stopped"]
    /\ UNCHANGED <<ch, pending, held, cancelled, swaps, loading, histories>>

\* AckAfterRecv, the last deferred call of processOne.
Ack(c) ==
    /\ pc[c] = "busy" /\ c \notin loading
    /\ pending' = pending \ {held[c]}
    /\ held' = [held EXCEPT ![c] = NoId]
    /\ pc' = [pc EXCEPT ![c] = "idle"]
    /\ UNCHANGED <<ch, cancelled, swaps, loading, histories>>

\* The supervisor cancels the context of a slot's pool ...
Cancel(c) ==
    /\ ~cancelled[c]
    /\ swaps < MaxSwaps
    /\ swaps' = swaps + 1
    /\ cancelled' = [cancelled EXCEPT ![c] = TRUE]
    /\ UNCHANGED <<ch, pending, pc, held, loading, histories>>

\* ... and a new instance puts a fresh slot in the place of a stopped one.
Spawn(c) ==
    /\ pc[c] = "stopped"
    /\ pc' = [pc EXCEPT ![c] = "idle"]
    /\ cancelled' = [cancelled EXCEPT ![c] = FALSE]
    /\ UNCHANGED <<ch, pending, held, swaps, loading, histories>>

-----------------------------------------------------------------------------
ConsumerStep(c) ==
    \/ RecvPop(c)
    \/ RecvDelete(c)
    \/ Reload(c) \/ ReloadFails(c)
    \/ RecvDone(c)
    \/ Ack(c)

Next ==
    \/ \E id \in Ids : Notify(id)
    \/ \E c \in Consumers : ConsumerStep(c) \/ Cancel(c) \/ Spawn(c)

Spec == Init /\ [][Next]_vars

(* A goroutine that can run eventually runs, and a run that was handed a task *)
(* eventually returns.  Nothing makes a supervisor that is paused, idle or    *)
(* drained replace a stopped slot, so Spawn carries no fairness.              *)
FairSpec == Spec /\ \A c \in Consumers : WF_vars(ConsumerStep(c))

-----------------------------------------------------------------------------
TypeOK ==
    /\ ch \in Seq(Ids)
    /\ Len(ch) <= Cap
    /\ pending \subseteq Ids
    /\ pc \in [Consumers -> {"idle", "recv", "busy", "stopped"}]
    /\ held \in [Consumers -> Ids \cup {NoId}]
    /\ \A c \in Consumers : pc[c] \in {"recv", "busy"} => held[c] \in Ids
    /\ cancelled \in [Consumers -> BOOLEAN]
    /\ swaps \in Nat
    /\ loading \subseteq {c \in Consumers : pc[c] = "busy"}
    /\ owed \subseteq Ids /\ dropped \subseteq Ids

(* An id the queue calls pending is really on its way to a consumer, so an   *)
(* ErrAlreadyQueued answer (tryEnqueue, which the store, the wake scheduler  *)
(* and the reconcile loop all swallow) never drops a wake.                   *)
PendingIsDeliverable == pending \subseteq Deliverable

(* Every accepted wake is followed by a reload of the row, later than the    *)
(* commit that caused the wake, whichever of the two pending deletions came  *)
(* in between; the one way to lose it is a reload that fails (Receive,       *)
(* AckAfterRecv, reloadTask).                                                *)
NoLostWake == owed \subseteq Deliverable \cup InReload \cup dropped

(* With fair consumers an accepted wake does not stay in the queue: a slot   *)
(* reloads the row, or tries to and fails, or else there comes a time when   *)
(* every slot has stopped (Worker.Run, Receive).                             *)
WakeIsServed ==
    \A id \in Ids :
        id \in owed ~> \/ id \notin owed
                       \/ id \in dropped
                       \/ \A c \in Consumers : pc[c] = "stopped"
=============================================================================

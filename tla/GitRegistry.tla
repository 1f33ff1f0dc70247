----------------------------- MODULE GitRegistry -----------------------------
(****************************************************************************)
(* The registered worktrees of one git repository (pkgs/tasks/store,        *)
(* reconcile_git.go and store_git_*.go) beside the checkouts git itself     *)
(* lists, which an operator moves, adds, removes and switches at will.      *)
(*                                                                          *)
(* A row is a stable id with a path and the id of the branch it is bound    *)
(* to; tasks name the row id (tasks.worktree_id, which has an index and no  *)
(* foreign key). Every call is a sequence of git commands and SQL           *)
(* statements that other calls, the worker and the operator may interleave  *)
(* with. Unique indexes: (repository, path) and branch_id on the rows,      *)
(* (repository, name) on the branches.                                      *)
(*                                                                          *)
(* Left out: the main worktree, whose row reconcile always matches; the     *)
(* path and common dir of the repository; AllowDiscover, which no caller    *)
(* outside the tests sets, and with it rows that have no branch.            *)
(****************************************************************************)
EXTENDS Integers, FiniteSets, Functions

CONSTANTS
  Calls,      \* requests in flight
  Paths,      \* directories outside the main checkout
  Branches,   \* local branch names
  Rows,       \* git_worktrees ids
  Tasks,
  None,       \* no checkout, no row yet, no binding
  Gone,       \* a deleted row: its id is never used again
  Detached,   \* a checkout on no branch
  MaxCalls,   \* bound: calls made
  MaxMoves,   \* bound: what the operator does on the disk
  MaxFaults   \* bound: requests cut off by their client or failed by git once it has written

\* A row of git_worktrees, bound to a branch by its id.
BranchIds == [name : Branches, gen : Nat]
Worktrees == [path : Paths, branch : BranchIds]

ASSUME PathsAssumption == IsFiniteSet(Paths)
ASSUME NamesAssumption ==
  /\ None \notin Calls \cup Rows \cup Branches \cup Worktrees
  /\ Gone \notin Worktrees
  /\ Detached \notin Branches \cup {None}

VARIABLES
  disk,    \* git worktree list, without its prunable entries: [path -> branch]
  refs,    \* branches git has
  ids,     \* git_branches: [name -> id of the last row, and whether it exists]
  row,     \* git_worktrees
  task,    \* worktree_id and whether the task is running
  call,    \* what each request has read and where it stands
  late,    \* tasks bound or picked up between the check and the delete of their row
  synced,  \* the last write was a reconcile that reported ok and ran undisturbed
  calls, moves, faults  \* how often, against the bounds

vars == <<disk, refs, ids, row, task, call, late, synced, calls, moves, faults>>

Idle == [op |-> "idle"]

Live(r) == row[r] \notin {None, Gone}

\* First(&row, "id = ?") on git_branches, in the table or a copy of it.
BranchExists(id, table) == table[id.name] = [gen |-> id.gen, live |-> TRUE]

BranchId(b, table) == [name |-> b, gen |-> table[b].gen]

\* Where git has the branch checked out; git allows one checkout of a branch.
CheckoutOf(b, list) == {p \in Paths : list[p] = b}

\* A registry and a disk that agree: every row stands for a checkout that is there.
Init ==
  /\ disk \in [Paths -> Branches \cup {None}]
  /\ \A b \in Branches : Cardinality(CheckoutOf(b, disk)) <= 1
  /\ refs = Branches
  /\ \E some \in SUBSET {r \in Rows \X Paths : disk[r[2]] # None} :
       /\ \A x, y \in some : (x[1] = y[1]) <=> (x[2] = y[2])
       /\ row = [r \in Rows |-> IF \E x \in some : x[1] = r
                  THEN LET p == (CHOOSE x \in some : x[1] = r)[2]
                       IN [path |-> p, branch |-> [name |-> disk[p], gen |-> 1]]
                  ELSE None]
  /\ ids = [b \in Branches |-> [gen |-> 1, live |-> TRUE]]
  /\ task = [t \in Tasks |-> [wt |-> None, running |-> FALSE]]
  /\ call = [c \in Calls |-> Idle]
  /\ late = {} /\ synced = FALSE /\ calls = 0 /\ moves = 0 /\ faults = 0

----------------------------------------------------------------------------
(* The operator, with git and without Hamix.                                *)

\* A reconcile in flight no longer ran undisturbed once anybody wrote anything.
Disturbed(but) ==
  [c \in Calls |-> IF c # but /\ call[c].op = "reconcile"
                   THEN [call[c] EXCEPT !.alone = FALSE] ELSE call[c]]

OnDisk(d) ==
  /\ moves < MaxMoves
  /\ moves' = moves + 1
  /\ disk' = d
  /\ call' = Disturbed(None)
  /\ synced' = FALSE
  /\ UNCHANGED <<refs, ids, row, task, late, calls, faults>>

MoveCheckout(p, q) ==
  /\ disk[p] # None /\ disk[q] = None
  /\ OnDisk([disk EXCEPT ![p] = None, ![q] = disk[p]])

RemoveCheckout(p) == disk[p] # None /\ OnDisk([disk EXCEPT ![p] = None])

\* git worktree add, or git checkout inside one.
Checkout(p, x) ==
  /\ x = Detached \/ (x \in refs /\ CheckoutOf(x, disk) = {})
  /\ disk[p] # x
  /\ OnDisk([disk EXCEPT ![p] = x])

----------------------------------------------------------------------------
(* Tasks. A handler validates the binding and then writes the task; the     *)
(* worker picks a task up whatever has become of its row.                   *)

Begin(c, state) ==
  /\ call[c] = Idle /\ calls < MaxCalls
  /\ calls' = calls + 1
  /\ call' = [call EXCEPT ![c] = state]

Goto(c, state) == call' = [call EXCEPT ![c] = state] /\ UNCHANGED calls

Return(c) == Goto(c, Idle)

\* ValidateTaskWorktreeBinding: the row exists and so does its branch.
BindValidate(c, t, r) ==
  /\ task[t].wt = None
  /\ Live(r) /\ BranchExists(row[r].branch, ids)
  /\ Begin(c, [op |-> "bind", task |-> t, row |-> r])
  /\ UNCHANGED <<disk, refs, ids, row, task, late, synced, moves, faults>>

\* A call that has checked that nothing stops it from deleting row r.
AboutToDelete(r) ==
  \E c \in Calls : \/ call[c].op = "unregister" /\ call[c].row = r
                   \/ call[c].op = "reconcile" /\ call[c].pc = "commit" /\ r \in call[c].remove

BindTask(c) ==
  /\ call[c].op = "bind"
  /\ LET t == call[c].task  r == call[c].row IN
       /\ task' = [task EXCEPT ![t].wt = r]
       /\ late' = IF AboutToDelete(r) \/ ~Live(r) THEN late \cup {t} ELSE late
  /\ Return(c)
  /\ UNCHANGED <<disk, refs, ids, row, synced, moves, faults>>

\* AgentPickup and ResolveTaskGitContext: without its row the run ends at once.
PickUp(t) ==
  LET r == task[t].wt IN
  /\ r # None /\ ~task[t].running
  /\ Live(r) /\ BranchExists(row[r].branch, ids)
  /\ task' = [task EXCEPT ![t].running = TRUE]
  /\ late' = IF AboutToDelete(r) THEN late \cup {t} ELSE late
  /\ UNCHANGED <<disk, refs, ids, row, call, synced, calls, moves, faults>>

\* The run ends and the task is deleted, or waits for another run.
Finish(t) ==
  /\ task[t].running
  /\ \/ task' = [task EXCEPT ![t].running = FALSE] /\ UNCHANGED late
     \/ task' = [task EXCEPT ![t] = [wt |-> None, running |-> FALSE]] /\ late' = late \ {t}
  /\ UNCHANGED <<disk, refs, ids, row, call, synced, calls, moves, faults>>

----------------------------------------------------------------------------
(* ReconcileGitRepository.                                                  *)

\* openRegisteredRepo and ListWorktrees; remove is AllowRemove, FALSE at startup.
ReconcileList(c, remove) ==
  /\ Begin(c, [op |-> "reconcile", pc |-> "branches", list |-> disk, allow |-> remove, alone |-> TRUE])
  /\ UNCHANGED <<disk, refs, ids, row, task, late, synced, moves, faults>>

\* ListGitBranchesByRepo
ReconcileBranches(c) ==
  /\ call[c].op = "reconcile" /\ call[c].pc = "branches"
  /\ Goto(c, [op |-> "reconcile", pc |-> "rows", list |-> call[c].list, allow |-> call[c].allow,
              alone |-> call[c].alone, ids |-> ids])
  /\ UNCHANGED <<disk, refs, ids, row, task, late, synced, moves, faults>>

OutcomeIgnoresBranch(r, list, table, rows) ==
  LET path == rows[r].path  id == rows[r].branch IN
  IF list[path] # None THEN [is |-> "matched", from |-> path, path |-> path]
  ELSE IF BranchExists(id, table) /\ CheckoutOf(id.name, list) # {}
       THEN [is |-> "matched", from |-> path, path |-> CHOOSE p \in CheckoutOf(id.name, list) : TRUE]
       ELSE [is |-> "not_found"]

\* What reconcile makes of row r, from its copies of the list, branches and rows:
\* a checkout at its path is its own unless it is on another branch; without
\* one, the row follows the checkout of its branch.
Outcome(r, list, table, rows) ==
  LET path == rows[r].path  id == rows[r].branch IN
  IF list[path] # None
  THEN IF list[path] # Detached /\ BranchExists(id, table) /\ list[path] # id.name
       THEN [is |-> "mismatch"] ELSE [is |-> "matched", from |-> path, path |-> path]
  ELSE IF BranchExists(id, table) /\ CheckoutOf(id.name, list) # {}
       THEN [is |-> "matched", from |-> path, path |-> CHOOSE p \in CheckoutOf(id.name, list) : TRUE]
       ELSE [is |-> "not_found"]

\* The rows are read, and what to do with them is settled.
ReconcileRows(c) ==
  LET known == {r \in Rows : Live(r)} IN
  /\ call[c].op = "reconcile" /\ call[c].pc = "rows"
  /\ Goto(c, [op |-> "reconcile", pc |-> "check", allow |-> call[c].allow, alone |-> call[c].alone,
              to |-> [r \in known |-> Outcome(r, call[c].list, call[c].ids, row)]])
  /\ UNCHANGED <<disk, refs, ids, row, task, late, synced, moves, faults>>

Referenced(r) == \E t \in Tasks : task[t].wt = r

\* hasAnyTaskOnWorktree, inside the transaction, for the rows that found no checkout.
ReconcileCheckUnguarded(c) ==
  LET to == call[c].to
      lost == {r \in DOMAIN to : to[r].is = "not_found"} IN
  /\ call[c].op = "reconcile" /\ call[c].pc = "check"
  /\ Goto(c, [op |-> "reconcile", pc |-> "commit", to |-> to, alone |-> call[c].alone,
              remove |-> IF call[c].allow THEN lost ELSE {}])
  /\ UNCHANGED <<disk, refs, ids, row, task, late, synced, moves, faults>>

ReconcileCheck(c) ==
  LET to == call[c].to
      lost == {r \in DOMAIN to : to[r].is = "not_found"} IN
  /\ call[c].op = "reconcile" /\ call[c].pc = "check"
  /\ Goto(c, [op |-> "reconcile", pc |-> "commit", to |-> to, alone |-> call[c].alone,
              remove |-> IF call[c].allow THEN {r \in lost : ~Referenced(r)} ELSE {}])
  /\ UNCHANGED <<disk, refs, ids, row, task, late, synced, moves, faults>>

\* The rows after the transaction: an update only where the path read is not the
\* path of the checkout. An update of a row that is gone changes nothing.
Reconciled(c) ==
  [r \in Rows |->
     IF ~Live(r) \/ r \notin DOMAIN call[c].to THEN row[r]
     ELSE IF r \in call[c].remove THEN Gone
     ELSE IF call[c].to[r].is = "matched" /\ call[c].to[r].path # call[c].to[r].from
          THEN [row[r] EXCEPT !.path = call[c].to[r].path]
     ELSE row[r]]

\* idx_git_worktree_repo_path and idx_git_worktree_branch_unique
Unique(rows) ==
  \A r, s \in Rows : r # s /\ rows[r] \notin {None, Gone} /\ rows[s] \notin {None, Gone} =>
    rows[r].path # rows[s].path /\ rows[r].branch # rows[s].branch

\* Commit, or the error of the unique index that rolls everything back.
ReconcileCommit(c) ==
  /\ call[c].op = "reconcile" /\ call[c].pc = "commit"
  /\ IF Unique(Reconciled(c))
     THEN /\ row' = Reconciled(c)
          /\ call' = [Disturbed(c) EXCEPT ![c] = Idle]
          /\ synced' = (call[c].alone /\ \A r \in DOMAIN call[c].to : call[c].to[r].is = "matched")
     ELSE /\ call' = [call EXCEPT ![c] = Idle]
          /\ UNCHANGED <<row, synced>>
  /\ UNCHANGED <<disk, refs, ids, task, late, calls, moves, faults>>

----------------------------------------------------------------------------
(* UnregisterGitWorktree                                                    *)

\* guardNoRunningTask and the DELETE are two statements.
UnregisterGuard(c, r) ==
  /\ Live(r)
  /\ ~ \E t \in Tasks : task[t].running /\ task[t].wt = r
  /\ Begin(c, [op |-> "unregister", row |-> r])
  /\ UNCHANGED <<disk, refs, ids, row, task, late, synced, moves, faults>>

WriteRow(c, rows) ==
  /\ row' = rows
  /\ call' = [Disturbed(c) EXCEPT ![c] = Idle]
  /\ synced' = FALSE
  /\ UNCHANGED calls

UnregisterDelete(c) ==
  /\ call[c].op = "unregister"
  /\ WriteRow(c, [row EXCEPT ![call[c].row] = Gone])
  /\ UNCHANGED <<disk, refs, ids, task, late, moves, faults>>

----------------------------------------------------------------------------
(* createGitWorktreeOnRepo                                                  *)

\* GuardBranchNotBoundToOtherWorktree
Bound(id) == \E r \in Rows : Live(r) /\ row[r].branch = id

\* ResolveOrCreateBranchForRepo: the row of a branch git has is created on demand.
Resolve(b) ==
  ids' = IF ids[b].live \/ b \notin refs THEN ids
         ELSE [ids EXCEPT ![b] = [gen |-> ids[b].gen + 1, live |-> TRUE]]

Resolvable(b) == ids[b].live \/ b \in refs

\* The first lookup only refuses a branch known to be bound; its errors are ignored.
CreateLookup(c, p, b) ==
  /\ ~Bound(BranchId(b, ids))
  /\ Begin(c, [op |-> "create", pc |-> "add", path |-> p, branch |-> b])
  /\ Resolve(b)
  /\ UNCHANGED <<disk, refs, row, task, late, synced, moves, faults>>

Fault == faults < MaxFaults /\ faults' = faults + 1

\* git worktree add, with -b for a branch git does not have. When it fails after
\* writing, or ListWorktrees fails behind it, the call returns and removes nothing.
CreateAdd(c) ==
  LET p == call[c].path  b == call[c].branch IN
  /\ call[c].op = "create" /\ call[c].pc = "add"
  /\ IF disk[p] = None /\ CheckoutOf(b, disk) = {}
     THEN /\ disk' = [disk EXCEPT ![p] = b]
          /\ refs' = refs \cup {b}
          /\ \/ call' = [Disturbed(c) EXCEPT ![c].pc = "bind"] /\ UNCHANGED faults
             \/ call' = [Disturbed(c) EXCEPT ![c] = Idle] /\ Fault
          /\ synced' = FALSE
     ELSE call' = [call EXCEPT ![c] = Idle] /\ UNCHANGED <<disk, refs, synced, faults>>
  /\ UNCHANGED <<ids, row, task, late, calls, moves>>

\* resolveBranchForWorktree, a second time
CreateBind(c) ==
  LET b == call[c].branch IN
  /\ call[c].op = "create" /\ call[c].pc = "bind"
  /\ Resolve(b)
  /\ IF ~Resolvable(b) \/ Bound(BranchId(b, ids))
     THEN Goto(c, [call[c] EXCEPT !.pc = "cleanup"])
     ELSE Goto(c, [op |-> "create", pc |-> "insert", path |-> call[c].path,
                   id |-> BranchId(b, ids')])
  /\ UNCHANGED <<disk, refs, row, task, late, synced, moves, faults>>

Insert(p, id) == {[row EXCEPT ![r] = [path |-> p, branch |-> id]] : r \in {x \in Rows : row[x] = None}}

CreateInsertKeepsIt(c) ==
  /\ call[c].op = "create" /\ call[c].pc = "insert"
  /\ \E rows \in Insert(call[c].path, call[c].id) :
       IF Unique(rows) THEN WriteRow(c, rows)
       ELSE Return(c) /\ UNCHANGED <<row, synced>>
  /\ UNCHANGED <<disk, refs, ids, task, late, moves, faults>>

CreateInsert(c) ==
  /\ call[c].op = "create" /\ call[c].pc = "insert"
  /\ \E rows \in Insert(call[c].path, call[c].id) :
       IF Unique(rows) THEN WriteRow(c, rows)
       ELSE /\ Goto(c, [op |-> "create", pc |-> "cleanup", path |-> call[c].path])
            /\ UNCHANGED <<row, synced>>
  /\ UNCHANGED <<disk, refs, ids, task, late, moves, faults>>

\* git worktree remove -f, whatever is at the path by now; its error is ignored.
CreateCleanup(c) ==
  /\ call[c].op = "create" /\ call[c].pc = "cleanup"
  /\ \/ /\ disk' = [disk EXCEPT ![call[c].path] = None]
        /\ call' = [Disturbed(c) EXCEPT ![c] = Idle]
        /\ synced' = FALSE
        /\ UNCHANGED <<calls, faults>>
     \/ Return(c) /\ Fault /\ UNCHANGED <<disk, synced>>
  /\ UNCHANGED <<refs, ids, row, task, late, moves>>

\* The client goes away: every later statement and git command of the call
\* fails at once, the cleanup too.
Cut(c) ==
  /\ call[c] # Idle
  /\ Fault
  /\ Return(c)
  /\ UNCHANGED <<disk, refs, ids, row, task, late, synced, moves>>

----------------------------------------------------------------------------
(* RegisterExistingGitWorktree                                              *)

\* RepoWorktreeInventory; the branch is the request's, or else the one checked out.
RegisterInventory(c, p, b) ==
  /\ disk[p] # None
  /\ ~ \E r \in Rows : Live(r) /\ row[r].path = p
  /\ Resolvable(b) /\ ~Bound(BranchId(b, ids))
  /\ Begin(c, [op |-> "register", path |-> p, branch |-> b])
  /\ UNCHANGED <<disk, refs, ids, row, task, late, synced, moves, faults>>

RegisterResolve(c) ==
  LET b == call[c].branch IN
  /\ call[c].op = "register"
  /\ Resolve(b)
  /\ IF ~Resolvable(b) \/ Bound(BranchId(b, ids)) THEN Return(c)
     ELSE Goto(c, [op |-> "insert", path |-> call[c].path, id |-> BranchId(b, ids')])
  /\ UNCHANGED <<disk, refs, row, task, late, synced, moves, faults>>

RegisterInsertNoIndex(c) ==
  /\ call[c].op = "insert"
  /\ \E rows \in Insert(call[c].path, call[c].id) : WriteRow(c, rows)
  /\ UNCHANGED <<disk, refs, ids, task, late, moves, faults>>

RegisterInsert(c) ==
  /\ call[c].op = "insert"
  /\ \E rows \in Insert(call[c].path, call[c].id) :
       IF Unique(rows) THEN WriteRow(c, rows) ELSE Return(c) /\ UNCHANGED <<row, synced>>
  /\ UNCHANGED <<disk, refs, ids, task, late, moves, faults>>

----------------------------------------------------------------------------
(* RelocateGitWorktree                                                      *)

RelocateCheck(c, r, p) ==
  /\ Live(r) /\ BranchExists(row[r].branch, ids)
  /\ disk[p] \in {Detached, row[r].branch.name}
  /\ Begin(c, [op |-> "relocate", row |-> r, path |-> p])
  /\ UNCHANGED <<disk, refs, ids, row, task, late, synced, moves, faults>>

RelocateUpdate(c) ==
  /\ call[c].op = "relocate"
  /\ LET r == call[c].row
         rows == IF Live(r) THEN [row EXCEPT ![r].path = call[c].path] ELSE row
     IN IF Unique(rows) THEN WriteRow(c, rows) ELSE Return(c) /\ UNCHANGED <<row, synced>>
  /\ UNCHANGED <<disk, refs, ids, task, late, moves, faults>>

----------------------------------------------------------------------------
(* CreateGitBranch and DeleteGitBranch: git first, then the row. The guard  *)
(* of the delete looks for tasks whose worktree id is the branch id, which  *)
(* none has; what protects a branch is that it is checked out.              *)

CreateBranchGit(c, b) ==
  /\ b \notin refs
  /\ Begin(c, [op |-> "newbranch", branch |-> b])
  /\ refs' = refs \cup {b}
  /\ UNCHANGED <<disk, ids, row, task, late, synced, moves, faults>>

CreateBranchRow(c) ==
  /\ call[c].op = "newbranch"
  /\ LET b == call[c].branch IN
       ids' = IF ids[b].live THEN ids ELSE [ids EXCEPT ![b] = [gen |-> ids[b].gen + 1, live |-> TRUE]]
  /\ Return(c)
  /\ UNCHANGED <<disk, refs, row, task, late, synced, moves, faults>>

DeleteBranchGit(c, b) ==
  /\ ids[b].live /\ b \in refs
  /\ CheckoutOf(b, disk) = {}
  /\ Begin(c, [op |-> "delbranch", id |-> BranchId(b, ids)])
  /\ refs' = refs \ {b}
  /\ UNCHANGED <<disk, ids, row, task, late, synced, moves, faults>>

DeleteBranchRow(c) ==
  /\ call[c].op = "delbranch"
  /\ LET id == call[c].id IN
       ids' = IF BranchExists(id, ids) THEN [ids EXCEPT ![id.name].live = FALSE] ELSE ids
  /\ Return(c)
  /\ UNCHANGED <<disk, refs, row, task, late, synced, moves, faults>>

----------------------------------------------------------------------------

Next ==
  \/ \E p, q \in Paths : MoveCheckout(p, q)
  \/ \E p \in Paths : RemoveCheckout(p)
  \/ \E p \in Paths, x \in Branches \cup {Detached} : Checkout(p, x)
  \/ \E t \in Tasks : PickUp(t) \/ Finish(t)
  \/ \E c \in Calls :
       \/ \E t \in Tasks, r \in Rows : BindValidate(c, t, r)
       \/ BindTask(c)
       \/ \E remove \in BOOLEAN : ReconcileList(c, remove)
       \/ ReconcileBranches(c)
       \/ ReconcileRows(c)
       \/ ReconcileCheck(c)
       \/ ReconcileCommit(c)
       \/ \E r \in Rows : UnregisterGuard(c, r)
       \/ UnregisterDelete(c)
       \/ \E p \in Paths, b \in Branches : CreateLookup(c, p, b) \/ RegisterInventory(c, p, b)
       \/ CreateAdd(c)
       \/ CreateBind(c)
       \/ CreateInsert(c)
       \/ CreateCleanup(c)
       \/ Cut(c)
       \/ RegisterResolve(c)
       \/ RegisterInsert(c)
       \/ \E r \in Rows, p \in Paths : RelocateCheck(c, r, p)
       \/ RelocateUpdate(c)
       \/ \E b \in Branches : CreateBranchGit(c, b) \/ DeleteBranchGit(c, b)
       \/ CreateBranchRow(c)
       \/ DeleteBranchRow(c)

Spec == Init /\ [][Next]_vars

----------------------------------------------------------------------------
(* Properties                                                               *)

\* Two rows never share a directory or a branch, although every call checks
\* first and writes later: "each branch binds to at most one worktree"
\* (docs/data-model.md:385) rests on the unique indexes alone.
TypeOK ==
  /\ disk \in [Paths -> Branches \cup {None, Detached}]
  /\ \A b \in Branches : Cardinality(CheckoutOf(b, disk)) <= 1
  /\ refs \subseteq Branches
  /\ ids \in [Branches -> [gen : Nat, live : BOOLEAN]]
  /\ \A r \in Rows : Live(r) => row[r] \in Worktrees
  /\ Unique(row)
  /\ task \in [Tasks -> [wt : Rows \cup {None}, running : BOOLEAN]]
  /\ late \subseteq Tasks

\* A reconcile that reports ok, with nobody else writing meanwhile, leaves every
\* row whose branch is known on a checkout of that branch or on one that is on
\* no branch, wherever the directories have moved: the agent that runs there
\* never works in another row's checkout (docs/domain/worktrees-and-branches.md:50).
SyncedRowsHoldTheirBranch ==
  synced => \A r \in Rows : Live(r) /\ BranchExists(row[r].branch, ids) =>
              disk[row[r].path] \in {Detached, row[r].branch.name}

\* A row leaves the registry only while no task runs in it, and by reconcile
\* only while no task names it, except for a task that was bound to it or picked
\* up between the check and the delete (store_git_guard.go).
RowLeavesQuietly ==
  [][\A r \in Rows : Live(r) /\ row'[r] = Gone =>
       \A t \in Tasks : task[t].wt = r =>
         \/ t \in late
         \/ ~task[t].running /\ \E c \in Calls : call[c].op = "unregister" /\ call[c].row = r]_vars

\* A create that has added a checkout ends with a row for its directory or with
\* the directory gone, whoever took the directory or the branch in between
\* (createGitWorktreeOnRepo, store_git_global.go:307). A fault is the only
\* exception, and leaves a checkout without a row: the client goes away, git
\* fails between the add and the list behind it, or git fails the cleanup.
CreateIsAllOrNothing ==
  [][\A c \in Calls :
       /\ call[c].op = "create" /\ (call[c].pc = "add" => disk' # disk)
       /\ call'[c] = Idle
       => \/ disk'[call[c].path] = None
          \/ \E r \in Rows : row'[r] \notin {None, Gone} /\ row'[r].path = call[c].path
          \/ faults' = faults + 1]_vars
=============================================================================

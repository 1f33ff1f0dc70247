-------------------------- MODULE GitRegistryProofs --------------------------
(****************************************************************************)
(* Proofs about the git registry, for every set of directories, branches,   *)
(* rows, tasks and requests: rows are unique, a clean reconcile puts every  *)
(* row on its branch, rows leave quietly, creates are all or nothing.       *)
(*                                                                          *)
(* What a request has read may be old when it writes, so the invariant says *)
(* of each place of each request what is still true of it.                  *)
(****************************************************************************)
EXTENDS GitRegistry, FiniteSetTheorems, TLAPS

Checkouts == Branches \cup {None, Detached}
Tables == [Branches -> [gen : Nat, live : BOOLEAN]]
Outcomes == [is : {"matched"}, from : Paths, path : Paths] \cup [is : {"mismatch", "not_found"}]
Decisions == UNION {[known -> Outcomes] : known \in SUBSET Rows}

\* The locals of a request in each of its places.
Binds == [op : {"bind"}, task : Tasks, row : Rows]
Listed == [op : {"reconcile"}, pc : {"branches"}, list : [Paths -> Checkouts],
           allow : BOOLEAN, alone : BOOLEAN]
Tabled == [op : {"reconcile"}, pc : {"rows"}, list : [Paths -> Checkouts],
           allow : BOOLEAN, alone : BOOLEAN, ids : Tables]
Decided == [op : {"reconcile"}, pc : {"check"}, allow : BOOLEAN, alone : BOOLEAN, to : Decisions]
Checked == [op : {"reconcile"}, pc : {"commit"}, to : Decisions, alone : BOOLEAN,
            remove : SUBSET Rows]
Unregisters == [op : {"unregister"}, row : Rows]
Creates == [op : {"create"}, pc : {"add", "bind", "cleanup"}, path : Paths, branch : Branches]
CreateInserts == [op : {"create"}, pc : {"insert"}, path : Paths, id : BranchIds]
Cleanups == [op : {"create"}, pc : {"cleanup"}, path : Paths]
Registers == [op : {"register"}, path : Paths, branch : Branches]
Inserts == [op : {"insert"}, path : Paths, id : BranchIds]
Relocates == [op : {"relocate"}, row : Rows, path : Paths]
NewBranches == [op : {"newbranch"}, branch : Branches]
DelBranches == [op : {"delbranch"}, id : BranchIds]

Reconciles == Listed \cup Tabled \cup Decided \cup Checked

CallType ==
  {Idle} \cup Binds \cup Reconciles \cup Unregisters \cup Creates \cup CreateInserts
  \cup Cleanups \cup Registers \cup Inserts \cup Relocates \cup NewBranches \cup DelBranches

\* Git allows one checkout of a branch.
OneCheckout(d) ==
  \A p, q \in Paths : d[p] \in Branches /\ d[p] = d[q] => p = q

TypeInv ==
  /\ disk \in [Paths -> Checkouts]
  /\ OneCheckout(disk)
  /\ refs \subseteq Branches
  /\ ids \in Tables
  /\ row \in [Rows -> Worktrees \cup {None, Gone}]
  /\ Unique(row)
  /\ task \in [Tasks -> [wt : Rows \cup {None}, running : BOOLEAN]]
  /\ late \subseteq Tasks
  /\ call \in [Calls -> CallType]
  /\ synced \in BOOLEAN

\* The branch rows only grow, so an id that is no longer known never comes back.
Known(id) == id.gen <= ids[id.name].gen

AboutToInsert(k) == k.op = "insert" \/ (k.op = "create" /\ k.pc = "insert")

KnownInv ==
  /\ \A r \in Rows : Live(r) => Known(row[r].branch)
  /\ \A c \in Calls : AboutToInsert(call[c]) => Known(call[c].id)

\* What a reconcile has read while nobody else wrote anything is still so; only
\* branch rows may have come and gone in between.
Undisturbed(k) ==
  /\ k.pc \in {"branches", "rows"} => k.list = disk
  /\ k.pc = "rows" =>
       /\ \A b \in Branches : /\ k.ids[b].gen <= ids[b].gen
                              /\ k.ids[b].gen = ids[b].gen /\ ids[b].live => k.ids[b].live
       /\ \A r \in Rows : Live(r) => row[r].branch.gen <= k.ids[row[r].branch.name].gen
  /\ k.pc \in {"check", "commit"} =>
       /\ DOMAIN k.to = {r \in Rows : Live(r)}
       /\ \A r \in DOMAIN k.to :
            k.to[r].is = "matched" =>
              /\ k.to[r].from = row[r].path
              /\ BranchExists(row[r].branch, ids)
                   => disk[k.to[r].path] \in {Detached, row[r].branch.name}

AloneInv ==
  \A c \in Calls : call[c].op = "reconcile" /\ call[c].alone => Undisturbed(call[c])

\* Whom a delete that has passed its guard may still surprise.
Surprises(k) ==
  /\ k.op = "unregister" =>
       \A t \in Tasks : task[t].wt = k.row /\ task[t].running => t \in late
  /\ k.op = "reconcile" /\ k.pc = "commit" =>
       /\ k.remove \subseteq {r \in DOMAIN k.to : k.to[r].is = "not_found"}
       /\ \A t \in Tasks : task[t].wt \in k.remove => t \in late

LateInv == \A c \in Calls : Surprises(call[c])

IInv == TypeInv /\ KnownInv /\ AloneInv /\ SyncedRowsHoldTheirBranch /\ LateInv

----------------------------------------------------------------------------
(* Operators.                                                               *)

\* What a step may do to the branch rows: new generations, no revivals.
Grown ==
  /\ ids' \in Tables
  /\ \A b \in Branches : /\ ids[b].gen <= ids'[b].gen
                         /\ ids'[b].gen = ids[b].gen /\ ids'[b].live => ids[b].live

\* What the op of a request says of its locals.
LEMMA KindOf ==
  ASSUME NEW k \in CallType
  PROVE  /\ k.op = "bind" => k \in Binds
         /\ k.op = "reconcile" => k \in Reconciles
         /\ k.op = "unregister" => k \in Unregisters
         /\ k.op = "create" => k \in Creates \cup CreateInserts \cup Cleanups
         /\ k.op = "register" => k \in Registers
         /\ k.op = "insert" => k \in Inserts
         /\ k.op = "relocate" => k \in Relocates
         /\ k.op = "newbranch" => k \in NewBranches
         /\ k.op = "delbranch" => k \in DelBranches
  BY DEF CallType, Idle, Binds, Reconciles, Listed, Tabled, Decided, Checked, Unregisters,
         Creates, CreateInserts, Cleanups, Registers, Inserts, Relocates, NewBranches, DelBranches

\* The same of the places of a reconcile.
LEMMA PlaceOf ==
  ASSUME NEW k \in CallType, k.op = "reconcile"
  PROVE  /\ k.pc = "branches" => k \in Listed
         /\ k.pc = "rows" => k \in Tabled
         /\ k.pc = "check" => k \in Decided
         /\ k.pc = "commit" => k \in Checked
  BY KindOf DEF Reconciles, Listed, Tabled, Decided, Checked

\* And of a create.
LEMMA CreateOf ==
  ASSUME NEW k \in CallType, k.op = "create"
  PROVE  /\ k.path \in Paths
         /\ k.pc \in {"add", "bind"} => k \in Creates
         /\ k.pc = "insert" => k \in CreateInserts
  BY KindOf DEF Creates, CreateInserts, Cleanups

\* Whether a branch row exists, field by field.
LEMMA ExistsMeans ==
  ASSUME NEW table \in Tables, NEW id \in BranchIds
  PROVE  BranchExists(id, table) <=> table[id.name].gen = id.gen /\ table[id.name].live = TRUE
  BY DEF BranchExists, Tables, BranchIds

\* Disturbed touches nothing but the alone of the reconciles of others.
LEMMA DisturbedKeeps ==
  ASSUME call \in [Calls -> CallType], NEW but
  PROVE  /\ Disturbed(but) \in [Calls -> CallType]
         /\ \A c \in Calls :
              /\ call[c].op # "reconcile" => Disturbed(but)[c] = call[c]
              /\ c = but => Disturbed(but)[c] = call[c]
              /\ call[c].op = "reconcile" =>
                   /\ Disturbed(but)[c].op = "reconcile"
                   /\ c # but => Disturbed(but)[c].alone = FALSE
                   /\ Disturbed(but)[c].pc = call[c].pc
                   /\ call[c].pc = "commit" => /\ Disturbed(but)[c].to = call[c].to
                                              /\ Disturbed(but)[c].remove = call[c].remove
<1> SUFFICES ASSUME NEW c \in Calls, c # but, call[c].op = "reconcile"
             PROVE  LET k == [call[c] EXCEPT !.alone = FALSE] IN
                    /\ k \in CallType
                    /\ k.op = "reconcile" /\ k.alone = FALSE /\ k.pc = call[c].pc
                    /\ call[c].pc = "commit" => k.to = call[c].to /\ k.remove = call[c].remove
    BY DEF Disturbed
<1> DEFINE k == [call[c] EXCEPT !.alone = FALSE]
<1>0. call[c] \in Reconciles
  BY KindOf
<1>1. CASE call[c] \in Listed
  <2>1. k \in Listed /\ k.op = "reconcile" /\ k.alone = FALSE /\ k.pc = call[c].pc /\ call[c].pc # "commit"
    BY <1>1 DEF Listed
  <2> QED  BY <2>1 DEF CallType, Reconciles
<1>2. CASE call[c] \in Tabled
  <2>1. k \in Tabled /\ k.op = "reconcile" /\ k.alone = FALSE /\ k.pc = call[c].pc /\ call[c].pc # "commit"
    BY <1>2 DEF Tabled
  <2> QED  BY <2>1 DEF CallType, Reconciles
<1>3. CASE call[c] \in Decided
  <2>1. k \in Decided /\ k.op = "reconcile" /\ k.alone = FALSE /\ k.pc = call[c].pc /\ call[c].pc # "commit"
    BY <1>3 DEF Decided
  <2> QED  BY <2>1 DEF CallType, Reconciles
<1>4. CASE call[c] \in Checked
  <2>1. k \in Checked /\ k.op = "reconcile" /\ k.alone = FALSE /\ k.pc = call[c].pc
        /\ k.to = call[c].to /\ k.remove = call[c].remove
    BY <1>4 DEF Checked
  <2> QED  BY <2>1 DEF CallType, Reconciles
<1> QED  BY <1>0, <1>1, <1>2, <1>3, <1>4 DEF Reconciles

\* At most one element is what a cardinality of at most one says.
LEMMA AtMostOne ==
  ASSUME NEW d, NEW b \in Branches
  PROVE  Cardinality(CheckoutOf(b, d)) <= 1 <=> \A p, q \in CheckoutOf(b, d) : p = q
<1> DEFINE S == CheckoutOf(b, d)
<1>0. IsFiniteSet(S)
  BY PathsAssumption, FS_Subset DEF CheckoutOf
<1>1. CASE S = {}
  BY <1>1, FS_EmptySet
<1>2. ASSUME NEW p \in S  PROVE Cardinality(S) <= 1 <=> \A x, y \in S : x = y
  <2>1. Cardinality(S) \in Nat /\ IsFiniteSet(S \ {p})
    BY <1>0, FS_CardinalityType, FS_RemoveElement
  <2>2. Cardinality(S \ {p}) = Cardinality(S) - 1 /\ Cardinality(S \ {p}) \in Nat
    BY <1>0, <1>2, <2>1, FS_RemoveElement, FS_CardinalityType
  <2>3. Cardinality(S \ {p}) = 0 <=> S \ {p} = {}
    BY <2>1, FS_EmptySet
  <2>4. S \ {p} = {} <=> \A x, y \in S : x = y
    BY <1>2
  <2> HIDE DEF S
  <2> QED  BY <2>1, <2>2, <2>3, <2>4
<1> QED  BY <1>1, <1>2

----------------------------------------------------------------------------
(* The two shapes of a step of a request.                                   *)

\* The request at c moves on, or a new one begins at c; nobody else's locals change.
Moves(c) == call'[c] \in CallType /\ call' = [call EXCEPT ![c] = call'[c]]

\* An id that is known was there before if it is there now.
LEMMA NoRevival ==
  ASSUME NEW id \in BranchIds, ids \in Tables, Grown, Known(id), BranchExists(id, ids')
  PROVE  BranchExists(id, ids)
<1>1. ids'[id.name].gen = id.gen /\ ids'[id.name].live = TRUE
  BY ExistsMeans DEF Grown
<1>2. id.name \in Branches /\ id.gen \in Nat /\ ids[id.name].gen \in Nat /\ ids'[id.name].gen \in Nat
      /\ ids[id.name].live \in BOOLEAN
  BY DEF BranchIds, Tables, Grown
<1>3. ids[id.name].gen = id.gen /\ ids[id.name].live
  BY <1>1, <1>2 DEF Grown, Known
<1> QED  BY <1>2, <1>3, ExistsMeans

LEMMA StaysKnown ==
  ASSUME NEW id \in BranchIds, ids \in Tables, Grown, Known(id)
  PROVE  Known(id)'
<1>1. id.name \in Branches /\ id.gen \in Nat /\ ids[id.name].gen \in Nat /\ ids'[id.name].gen \in Nat
  BY DEF BranchIds, Tables, Grown
<1> QED  BY <1>1 DEF Grown, Known

\* The row of a worktree that is there, and the id of a branch about to be bound.
LEMMA RowOf ==
  ASSUME TypeInv, NEW r \in Rows, Live(r)
  PROVE  row[r] \in Worktrees /\ row[r].branch \in BranchIds /\ row[r].path \in Paths
  BY DEF TypeInv, Live, Worktrees

LEMMA InsertOf ==
  ASSUME NEW k \in CallType, AboutToInsert(k)
  PROVE  k.id \in BranchIds /\ k.path \in Paths
  BY KindOf, CreateOf DEF AboutToInsert, Inserts, CreateInserts

\* The branch rows grow: what was undisturbed stays so.
LEMMA UndisturbedGrows ==
  ASSUME TypeInv, KnownInv, Grown, NEW k \in CallType, k.op = "reconcile",
         Undisturbed(k), disk' = disk, row' = row
  PROVE  Undisturbed(k)'
<1>1. k.pc \in {"branches", "rows"} => k.list = disk'
  BY DEF Undisturbed
<1>2. ASSUME k.pc = "rows", NEW b \in Branches
      PROVE  /\ k.ids[b].gen <= ids'[b].gen
             /\ k.ids[b].gen = ids'[b].gen /\ ids'[b].live => k.ids[b].live
  <2>1. k.ids \in Tables
    BY <1>2, PlaceOf DEF Tabled
  <2>2. k.ids[b].gen \in Nat /\ ids[b].gen \in Nat /\ ids'[b].gen \in Nat
    BY <2>1 DEF TypeInv, Grown, Tables
  <2>3. /\ k.ids[b].gen <= ids[b].gen
        /\ k.ids[b].gen = ids[b].gen /\ ids[b].live => k.ids[b].live
        /\ ids[b].gen <= ids'[b].gen
        /\ ids[b].gen = ids'[b].gen /\ ids'[b].live => ids[b].live
    BY <1>2 DEF Undisturbed, Grown
  <2>4. k.ids[b].gen = ids'[b].gen => k.ids[b].gen = ids[b].gen /\ ids[b].gen = ids'[b].gen
    BY <2>2, <2>3
  <2>5. k.ids[b].gen <= ids'[b].gen
    BY <2>2, <2>3
  <2> QED  BY <2>3, <2>4, <2>5
<1>3. k.pc = "rows" => \A r \in Rows : Live(r)' => row'[r].branch.gen <= k.ids[row'[r].branch.name].gen
  BY DEF Undisturbed, Live
<1>4. k.pc \in {"check", "commit"} => DOMAIN k.to = {r \in Rows : Live(r)'}
  BY DEF Undisturbed, Live
<1>5. ASSUME k.pc \in {"check", "commit"}, NEW r \in DOMAIN k.to,
             k.to[r].is = "matched"
      PROVE  /\ k.to[r].from = row'[r].path
             /\ BranchExists(row[r].branch, ids')
                  => disk'[k.to[r].path] \in {Detached, row[r].branch.name}
  <2>1. r \in Rows /\ Live(r)
    BY <1>5 DEF Undisturbed
  <2>2. BranchExists(row[r].branch, ids') => BranchExists(row[r].branch, ids)
    BY <2>1, RowOf, NoRevival DEF KnownInv, TypeInv
  <2> QED  BY <1>5, <2>2 DEF Undisturbed
<1> QED  BY <1>1, <1>2, <1>3, <1>4, <1>5 DEF Undisturbed

\* A step that writes neither the disk nor a worktree row, nor moves a task.
LEMMA MovesKeep ==
  ASSUME IInv, NEW c \in Calls, Moves(c), Grown, refs' \subseteq Branches,
         UNCHANGED <<disk, row, task, late, synced>>,
         AboutToInsert(call'[c]) => Known(call[c].id)',
         call'[c].op = "reconcile" /\ call'[c].alone => Undisturbed(call[c])',
         Surprises(call[c])'
  PROVE  IInv'
<1> USE DEF IInv
<1>0. /\ call \in [Calls -> CallType]
      /\ \A d \in Calls : d # c => call'[d] = call[d]
      /\ \A d \in Calls : call[d] \in CallType
      /\ call' \in [Calls -> CallType]
  BY DEF TypeInv, Moves
<1>1. TypeInv'
  BY <1>0 DEF TypeInv, Grown, OneCheckout, Unique
<1>2. KnownInv'
  <2>1. ASSUME NEW r \in Rows, Live(r)'  PROVE Known(row[r].branch)'
    <3>1. Live(r)
      BY <2>1 DEF Live
    <3>2. row[r].branch \in BranchIds /\ Known(row[r].branch)
      BY <3>1, RowOf DEF KnownInv
    <3> PICK id : id = row[r].branch  OBVIOUS
    <3>3. Known(id)'
      BY <3>2, StaysKnown DEF TypeInv
    <3> QED  BY <3>3 DEF Known
  <2>2. ASSUME NEW d \in Calls, AboutToInsert(call[d])'  PROVE Known(call[d].id)'
    <3>1. CASE d = c
      BY <2>2, <3>1 DEF AboutToInsert
    <3>2. CASE d # c
      <4>1. AboutToInsert(call[d]) /\ Known(call[d].id) /\ call[d].id \in BranchIds
        BY <1>0, <2>2, <3>2, InsertOf DEF AboutToInsert, KnownInv
      <4> PICK id : id = call[d].id  OBVIOUS
      <4>2. Known(id)'
        BY <4>1, StaysKnown DEF TypeInv
      <4> QED  BY <1>0, <3>2, <4>2 DEF Known
    <3> QED  BY <3>1, <3>2
  <2> QED  BY <2>1, <2>2 DEF KnownInv, AboutToInsert
<1>3. AloneInv'
  <2> SUFFICES ASSUME NEW d \in Calls, call'[d].op = "reconcile", call'[d].alone
               PROVE  Undisturbed(call[d])'
    BY DEF AloneInv
  <2>1. CASE d = c
    BY <2>1
  <2>2. CASE d # c
    <3>1. call'[d] = call[d] /\ call[d] \in CallType /\ Undisturbed(call[d])
      BY <1>0, <2>2 DEF AloneInv
    <3> PICK k \in CallType : k = call[d]
      BY <3>1
    <3>2. Undisturbed(k)'
      BY <3>1, UndisturbedGrows
    <3> QED  BY <3>1, <3>2, SMTT(15), ZenonT(40) DEF Undisturbed
  <2> QED  BY <2>1, <2>2
<1>4. SyncedRowsHoldTheirBranch'
  <2> SUFFICES ASSUME synced, NEW r \in Rows, Live(r), BranchExists(row[r].branch, ids')
               PROVE  disk[row[r].path] \in {Detached, row[r].branch.name}
    BY DEF SyncedRowsHoldTheirBranch, Live
  <2>1. BranchExists(row[r].branch, ids)
    BY RowOf, NoRevival DEF KnownInv, TypeInv
  <2> QED  BY <2>1 DEF SyncedRowsHoldTheirBranch
<1>5. LateInv'
  BY <1>0 DEF LateInv, Surprises
<1> QED  BY <1>1, <1>2, <1>3, <1>4, <1>5

\* A step that writes the disk or the worktree rows: every reconcile on its way
\* is disturbed, and the registry no longer counts as synced. The request of the
\* step, if there is one, is in locals that promise nothing.
Writes(c, k) ==
  /\ k \in CallType /\ k.op # "reconcile" /\ k.op # "unregister" /\ ~AboutToInsert(k)
  /\ call' = [Disturbed(c) EXCEPT ![c] = k]

\* The locals of another request after such a step.
Shaken(old, k) ==
  /\ k \in CallType
  /\ old.op # "reconcile" => k = old
  /\ old.op = "reconcile" =>
       /\ k.op = "reconcile" /\ k.alone = FALSE /\ k.pc = old.pc
       /\ old.pc = "commit" => k.to = old.to /\ k.remove = old.remove

LEMMA DisturbedShakes ==
  ASSUME TypeInv, NEW but
  PROVE  /\ Disturbed(but) \in [Calls -> CallType]
         /\ \A d \in Calls : d # but => Shaken(call[d], Disturbed(but)[d])
<1>1. call \in [Calls -> CallType]
  BY DEF TypeInv
<1> DEFINE D == Disturbed(but)
<1>2. /\ D \in [Calls -> CallType]
      /\ \A c \in Calls :
           /\ call[c].op # "reconcile" => D[c] = call[c]
           /\ call[c].op = "reconcile" =>
                   /\ D[c].op = "reconcile"
                   /\ c # but => D[c].alone = FALSE
                   /\ D[c].pc = call[c].pc
                   /\ call[c].pc = "commit" => D[c].to = call[c].to /\ D[c].remove = call[c].remove
  BY <1>1, DisturbedKeeps
<1> HIDE DEF D
<1>3. \A d \in Calls : d # but => Shaken(call[d], D[d])
  BY <1>2 DEF Shaken
<1> QED  BY <1>2, <1>3 DEF D

\* The parts of the invariant that such a step keeps.
LEMMA DisturbedStep ==
  ASSUME IInv, call' \in [Calls -> CallType],
         \A d \in Calls :
           \/ Shaken(call[d], call'[d])
           \/ /\ ~(call'[d].op = "reconcile" /\ call'[d].alone)
              /\ ~AboutToInsert(call'[d])
              /\ Surprises(call[d])',
         disk' \in [Paths -> Checkouts], OneCheckout(disk'), refs' \subseteq Branches,
         row' \in [Rows -> Worktrees \cup {None, Gone}], Unique(row'),
         \A r \in Rows : Live(r)' => Known(row'[r].branch),
         synced' = FALSE \/ SyncedRowsHoldTheirBranch',
         synced' \in BOOLEAN,
         UNCHANGED <<ids, task, late>>
  PROVE  IInv'
<1> USE DEF IInv
<1>1. TypeInv'
  BY DEF TypeInv, OneCheckout, Unique
<1>2. KnownInv'
  <2>1. ASSUME NEW d \in Calls, AboutToInsert(call'[d])  PROVE Known(call'[d].id)
    <3>1. call'[d] = call[d]
      BY <2>1 DEF Shaken, AboutToInsert
    <3> QED  BY <2>1, <3>1 DEF KnownInv
  <2> QED  BY <2>1 DEF KnownInv, Known, AboutToInsert
<1>3. AloneInv'
  <2> SUFFICES ASSUME NEW d \in Calls  PROVE ~(call'[d].op = "reconcile" /\ call'[d].alone)
    BY DEF AloneInv
  <2> QED  BY DEF Shaken
<1>4. SyncedRowsHoldTheirBranch'
  BY DEF SyncedRowsHoldTheirBranch
<1>5. LateInv'
  <2> SUFFICES ASSUME NEW d \in Calls  PROVE Surprises(call[d])'
    BY DEF LateInv
  <2>1. CASE Shaken(call[d], call'[d])
    <3>1. Surprises(call[d])
      BY DEF LateInv
    <3> QED  BY <2>1, <3>1 DEF Surprises, Shaken
  <2> QED  BY <2>1
<1> QED  BY <1>1, <1>2, <1>3, <1>4, <1>5

LEMMA WritesKeep ==
  ASSUME IInv, NEW c \in Calls, NEW k, Writes(c, k),
         disk' \in [Paths -> Checkouts], OneCheckout(disk'), refs' \subseteq Branches,
         row' \in [Rows -> Worktrees \cup {None, Gone}], Unique(row'),
         \A r \in Rows : Live(r)' => Known(row'[r].branch),
         synced' = FALSE,
         UNCHANGED <<ids, task, late>>
  PROVE  IInv'
<1>0. call \in [Calls -> CallType]
  BY DEF IInv, TypeInv
<1>1. /\ call' \in [Calls -> CallType] /\ call'[c] = k
      /\ \A d \in Calls : d # c => Shaken(call[d], call'[d])
  BY <1>0, DisturbedShakes DEF Writes, IInv
<1>2. Surprises(call[c])'
  BY <1>1 DEF Writes, Surprises
<1> QED  BY <1>1, <1>2, DisturbedStep DEF Writes

----------------------------------------------------------------------------
(* The steps of the operator.                                               *)

\* The rows as they were, for a step that only writes the disk.
LEMMA RowsStay ==
  ASSUME IInv, UNCHANGED <<row, ids>>
  PROVE  /\ row' \in [Rows -> Worktrees \cup {None, Gone}] /\ Unique(row')
         /\ \A r \in Rows : Live(r)' => Known(row'[r].branch)
  BY DEF IInv, TypeInv, KnownInv, Live

LEMMA OnDiskKeeps ==
  ASSUME IInv, NEW d \in [Paths -> Checkouts], OneCheckout(d), OnDisk(d)
  PROVE  IInv'
<1>1. call' = Disturbed(None) /\ None \notin Calls
  BY NamesAssumption DEF OnDisk
<1>2. call' \in [Calls -> CallType] /\ refs' \subseteq Branches
  BY <1>1, DisturbedShakes DEF IInv, TypeInv, OnDisk
<1>3. /\ row' \in [Rows -> Worktrees \cup {None, Gone}] /\ Unique(row')
      /\ \A r \in Rows : Live(r)' => Known(row'[r].branch)
  BY RowsStay DEF OnDisk
<1>4. \A e \in Calls : Shaken(call[e], call'[e])
  BY <1>1, DisturbedShakes DEF IInv
<1>5. disk' = d /\ synced' = FALSE /\ UNCHANGED <<ids, task, late>>
  BY DEF OnDisk
<1> QED  BY <1>1, <1>2, <1>3, <1>4, <1>5, DisturbedStep

LEMMA OperatorKeeps ==
  ASSUME IInv,
         \/ \E p, q \in Paths : MoveCheckout(p, q)
         \/ \E p \in Paths : RemoveCheckout(p)
         \/ \E p \in Paths, x \in Branches \cup {Detached} : Checkout(p, x)
  PROVE  IInv'
<1> USE DEF Checkouts
<1>0. disk \in [Paths -> Checkouts] /\ OneCheckout(disk) /\ refs \subseteq Branches
      /\ None \notin Branches /\ Detached \notin Branches
  BY NamesAssumption DEF IInv, TypeInv
<1>1. ASSUME NEW p \in Paths, NEW q \in Paths, MoveCheckout(p, q)  PROVE IInv'
  <2> DEFINE d == [disk EXCEPT ![p] = None, ![q] = disk[p]]
  <2>1. d \in [Paths -> Checkouts] /\ OneCheckout(d)
    BY <1>0, <1>1 DEF OneCheckout, MoveCheckout
  <2> QED  BY <1>1, <2>1, OnDiskKeeps DEF MoveCheckout
<1>2. ASSUME NEW p \in Paths, RemoveCheckout(p)  PROVE IInv'
  <2> DEFINE d == [disk EXCEPT ![p] = None]
  <2>1. d \in [Paths -> Checkouts] /\ OneCheckout(d)
    BY <1>0, <1>2 DEF OneCheckout
  <2> QED  BY <1>2, <2>1, OnDiskKeeps DEF RemoveCheckout
<1>3. ASSUME NEW p \in Paths, NEW x \in Branches \cup {Detached}, Checkout(p, x)  PROVE IInv'
  <2> DEFINE d == [disk EXCEPT ![p] = x]
  <2>1. x \in Branches => \A q \in Paths : disk[q] # x
    BY <1>0, <1>3 DEF Checkout, CheckoutOf
  <2>2. d \in [Paths -> Checkouts] /\ OneCheckout(d)
    BY <1>0, <2>1 DEF OneCheckout
  <2> QED  BY <1>3, <2>2, OnDiskKeeps DEF Checkout
<1> QED  BY <1>1, <1>2, <1>3

----------------------------------------------------------------------------
(* The steps of a request.                                                  *)

\* Locals that promise nothing.
Harmless(k) == k.op # "reconcile" /\ k.op # "unregister" /\ ~AboutToInsert(k)

LEMMA SameIsGrown ==
  ASSUME TypeInv, ids' = ids
  PROVE  Grown
<1>1. \A b \in Branches : ids[b].gen \in Nat
  BY DEF TypeInv, Tables
<1> QED  BY <1>1 DEF Grown, TypeInv

\* Resolve adds a generation when there is no row.
LEMMA ResolveGrows ==
  ASSUME TypeInv, NEW b \in Branches, Resolve(b)
  PROVE  Grown /\ \A id : id = BranchId(b, ids') => id \in BranchIds /\ Known(id)'
<1>1. /\ ids[b] \in [gen : Nat, live : BOOLEAN] /\ ids[b].gen \in Nat
      /\ ids[b].gen <= ids[b].gen + 1 /\ ids[b].gen + 1 # ids[b].gen /\ ids[b].gen + 1 \in Nat
  BY DEF TypeInv, Tables
<1>2. CASE ids' = ids
  <2>1. ids'[b].gen \in Nat /\ ids'[b].gen <= ids'[b].gen
    BY <1>1, <1>2
  <2> QED  BY <1>2, <2>1, SameIsGrown DEF BranchId, BranchIds, Known
<1>3. CASE ids' = [ids EXCEPT ![b] = [gen |-> ids[b].gen + 1, live |-> TRUE]]
  <2>1. ids' \in Tables
    BY <1>1, <1>3 DEF TypeInv, Tables
  <2>2. ids'[b].gen = ids[b].gen + 1 /\ \A x \in Branches : x # b => ids'[x] = ids[x]
    BY <1>3 DEF TypeInv, Tables
  <2>3. \A x \in Branches : ids[x].gen \in Nat
    BY DEF TypeInv, Tables
  <2>4. Grown
    BY <1>1, <2>1, <2>2, <2>3 DEF Grown
  <2>5. ids'[b].gen \in Nat /\ ids'[b].gen <= ids'[b].gen
    BY <1>1, <2>2
  <2> QED  BY <2>4, <2>5 DEF BranchId, BranchIds, Known
<1> QED  BY <1>2, <1>3 DEF Resolve

LEMMA HarmlessKeeps ==
  ASSUME IInv, NEW c \in Calls, NEW k \in CallType, Harmless(k), call' = [call EXCEPT ![c] = k],
         Grown, refs' \subseteq Branches, UNCHANGED <<disk, row, task, late, synced>>
  PROVE  IInv'
<1>1. call'[c] = k
  BY DEF IInv, TypeInv
<1>2. Moves(c)
  BY <1>1 DEF Moves
<1>3. Surprises(call[c])'
  BY <1>1 DEF Harmless, Surprises
<1> QED  BY <1>1, <1>2, <1>3, MovesKeep DEF Harmless

LEMMA IdleIsHarmless == Idle \in CallType /\ Harmless(Idle)
  BY DEF CallType, Idle, Harmless, AboutToInsert

LEMMA ReturnKeeps ==
  ASSUME IInv, NEW c \in Calls, call' = [call EXCEPT ![c] = Idle],
         Grown, refs' \subseteq Branches, UNCHANGED <<disk, row, task, late, synced>>
  PROVE  IInv'
  BY IdleIsHarmless, HarmlessKeeps

LEMMA BindValidateKeeps ==
  ASSUME IInv, NEW c \in Calls, NEW t \in Tasks, NEW r \in Rows, BindValidate(c, t, r)
  PROVE  IInv'
<1> DEFINE k == [op |-> "bind", task |-> t, row |-> r]
<1>1. k \in CallType /\ Harmless(k)
  BY DEF CallType, Binds, Harmless, AboutToInsert
<1>2. call' = [call EXCEPT ![c] = k] /\ Grown /\ refs' \subseteq Branches
  BY SameIsGrown DEF BindValidate, Begin, IInv, TypeInv
<1> HIDE DEF k
<1> QED  BY <1>1, <1>2, HarmlessKeeps DEF BindValidate

\* A task that is bound to a row about to be deleted, or picked up, is late.
LEMMA BindTaskKeeps ==
  ASSUME IInv, NEW c \in Calls, BindTask(c)
  PROVE  IInv'
<1> DEFINE t == call[c].task  r == call[c].row
<1>0. call[c] \in Binds /\ t \in Tasks /\ r \in Rows
  BY KindOf DEF BindTask, IInv, TypeInv, Binds
<1>1. /\ task' = [task EXCEPT ![t].wt = r]
      /\ late' = IF AboutToDelete(r) \/ ~Live(r) THEN late \cup {t} ELSE late
      /\ call' = [call EXCEPT ![c] = Idle]
      /\ UNCHANGED <<disk, refs, ids, row, synced>>
  BY DEF BindTask, Return, Goto
<1> HIDE DEF t, r
<1>2. TypeInv'
  BY <1>0, <1>1, IdleIsHarmless DEF IInv, TypeInv, OneCheckout, Unique
<1>3. KnownInv'
  BY <1>1, IdleIsHarmless DEF IInv, TypeInv, KnownInv, Known, Live, Harmless, AboutToInsert
<1>4. AloneInv'
  BY <1>1, IdleIsHarmless DEF IInv, TypeInv, AloneInv, Undisturbed, Live, Harmless
<1>5. SyncedRowsHoldTheirBranch'
  BY <1>1 DEF IInv, SyncedRowsHoldTheirBranch, Live
<1>6. LateInv'
  <2> SUFFICES ASSUME NEW d \in Calls  PROVE Surprises(call[d])'
    BY DEF LateInv
  <2>1. CASE d = c
    <3>1. call'[d] = Idle
      BY <1>1, <2>1 DEF IInv, TypeInv
    <3> QED  BY <3>1, IdleIsHarmless DEF Surprises, Harmless
  <2>2. CASE d # c
    <3>1. call'[d] = call[d] /\ Surprises(call[d])
      BY <1>1, <2>2 DEF IInv, TypeInv, LateInv
    <3>2. late \subseteq late'
      BY <1>1
    <3>3. \A u \in Tasks : u # t => task'[u] = task[u]
      BY <1>1 DEF IInv, TypeInv
    <3>4. task'[t].wt = r
      BY <1>0, <1>1 DEF IInv, TypeInv
    <3>5. call[d].op = "unregister" /\ call[d].row = r => t \in late'
      BY <1>1 DEF AboutToDelete
    <3>6. call[d].op = "reconcile" /\ call[d].pc = "commit" /\ r \in call[d].remove => t \in late'
      BY <1>1 DEF AboutToDelete
    <3> QED  BY <3>1, <3>2, <3>3, <3>4, <3>5, <3>6 DEF Surprises
  <2> QED  BY <2>1, <2>2
<1> QED  BY <1>2, <1>3, <1>4, <1>5, <1>6 DEF IInv

LEMMA TaskKeeps ==
  ASSUME IInv, NEW t \in Tasks, PickUp(t) \/ Finish(t)
  PROVE  IInv'
<1>1. UNCHANGED <<disk, refs, ids, row, call, synced>>
  BY DEF PickUp, Finish
<1>2. TypeInv'
  <2>1. task' \in [Tasks -> [wt : Rows \cup {None}, running : BOOLEAN]] /\ late' \subseteq Tasks
    <3>1. task \in [Tasks -> [wt : Rows \cup {None}, running : BOOLEAN]] /\ late \subseteq Tasks
      BY DEF IInv, TypeInv
    <3>2. CASE PickUp(t)
      BY <3>1, <3>2 DEF PickUp
    <3>3. CASE Finish(t)
      <4>1. CASE task' = [task EXCEPT ![t].running = FALSE] /\ late' = late
        BY <3>1, <4>1
      <4>2. CASE task' = [task EXCEPT ![t] = [wt |-> None, running |-> FALSE]] /\ late' = late \ {t}
        BY <3>1, <4>2
      <4> QED  BY <3>3, <4>1, <4>2 DEF Finish
    <3> QED  BY <3>2, <3>3
  <2> QED  BY <1>1, <2>1 DEF IInv, TypeInv, OneCheckout, Unique
<1>3. KnownInv' /\ AloneInv' /\ SyncedRowsHoldTheirBranch'
  BY <1>1 DEF IInv, KnownInv, Known, Live, AboutToInsert, AloneInv, Undisturbed, SyncedRowsHoldTheirBranch
<1>4. LateInv'
  <2> SUFFICES ASSUME NEW d \in Calls  PROVE Surprises(call[d])'
    BY DEF LateInv
  <2>1. call'[d] = call[d] /\ Surprises(call[d]) /\ task \in [Tasks -> [wt : Rows \cup {None}, running : BOOLEAN]]
        /\ call[d] \in CallType
    BY <1>1 DEF IInv, LateInv, TypeInv
  <2>2. CASE PickUp(t)
    <3>1. /\ \A u \in Tasks : u # t => task'[u] = task[u]
          /\ task'[t].wt = task[t].wt
          /\ late \subseteq late' /\ (AboutToDelete(task[t].wt) => t \in late')
      BY <2>1, <2>2 DEF PickUp
    <3>2. call[d].op = "unregister" /\ call[d].row = task[t].wt => t \in late'
      BY <3>1 DEF AboutToDelete
    <3>3. call[d].op = "reconcile" /\ call[d].pc = "commit" /\ task[t].wt \in call[d].remove => t \in late'
      BY <3>1 DEF AboutToDelete
    <3> QED  BY <2>1, <3>1, <3>2, <3>3 DEF Surprises
  <2>3. CASE Finish(t)
    <3>1. /\ \A u \in Tasks : u # t => task'[u] = task[u] /\ (u \in late => u \in late')
          /\ task'[t].running = FALSE
          /\ \/ task'[t].wt = task[t].wt /\ late' = late
             \/ task'[t].wt = None
      BY <2>1, <2>3 DEF Finish
    <3>2. call[d].op = "reconcile" /\ call[d].pc = "commit" => None \notin call[d].remove
      BY <2>1, PlaceOf, NamesAssumption DEF Checked
    <3> QED  BY <2>1, <3>1, <3>2 DEF Surprises
  <2> QED  BY <2>2, <2>3
<1> QED  BY <1>2, <1>3, <1>4 DEF IInv

----------------------------------------------------------------------------
(* Reconcile.                                                               *)

\* A step in which a reconcile only reads.
LEMMA ReadingKeeps ==
  ASSUME IInv, NEW c \in Calls, NEW k \in CallType, k.op = "reconcile",
         call' = [call EXCEPT ![c] = k], UNCHANGED <<disk, refs, ids, row, task, late, synced>>,
         k.alone => Undisturbed(k), Surprises(k)
  PROVE  IInv'
<1>1. call'[c] = k
  BY DEF IInv, TypeInv
<1>2. Moves(c)
  BY <1>1 DEF Moves
<1>3. Surprises(call[c])'
  BY <1>1 DEF Surprises
<1>4. call'[c].alone => Undisturbed(call[c])'
  BY <1>1 DEF Undisturbed, Live
<1>5. Grown /\ refs' \subseteq Branches
  BY SameIsGrown DEF IInv, TypeInv
<1>6. ~AboutToInsert(call'[c])
  BY <1>1 DEF AboutToInsert
<1> QED  BY <1>2, <1>3, <1>4, <1>5, <1>6, MovesKeep

LEMMA ReconcileListKeeps ==
  ASSUME IInv, NEW c \in Calls, NEW remove \in BOOLEAN, ReconcileList(c, remove)
  PROVE  IInv'
<1> DEFINE k == [op |-> "reconcile", pc |-> "branches", list |-> disk, allow |-> remove, alone |-> TRUE]
<1>1. k \in CallType
  BY DEF CallType, Reconciles, Listed, IInv, TypeInv
<1>2. k.op = "reconcile" /\ Undisturbed(k) /\ Surprises(k)
  BY DEF Undisturbed, Surprises
<1>3. call' = [call EXCEPT ![c] = k] /\ UNCHANGED <<disk, refs, ids, row, task, late, synced>>
  BY DEF ReconcileList, Begin
<1> HIDE DEF k
<1> QED  BY <1>1, <1>2, <1>3, ReadingKeeps

LEMMA ReconcileBranchesKeeps ==
  ASSUME IInv, NEW c \in Calls, ReconcileBranches(c)
  PROVE  IInv'
<1> DEFINE k == [op |-> "reconcile", pc |-> "rows", list |-> call[c].list, allow |-> call[c].allow,
                 alone |-> call[c].alone, ids |-> ids]
<1>0. call[c] \in Listed /\ (call[c].alone => Undisturbed(call[c]))
  BY PlaceOf DEF IInv, TypeInv, AloneInv, ReconcileBranches
<1>1. k \in CallType
  BY <1>0 DEF CallType, Reconciles, Listed, Tabled, IInv, TypeInv
<1>2. k.op = "reconcile" /\ k.pc = "rows" /\ k.alone = call[c].alone /\ k.ids = ids /\ k.list = call[c].list
  OBVIOUS
<1>3. call' = [call EXCEPT ![c] = k] /\ UNCHANGED <<disk, refs, ids, row, task, late, synced>>
      /\ call[c].pc = "branches"
  BY DEF ReconcileBranches, Goto
<1> HIDE DEF k
<1>4. ASSUME k.alone  PROVE Undisturbed(k)
  <2>1. k.list = disk
    BY <1>0, <1>2, <1>3, <1>4 DEF Undisturbed
  <2>2. \A b \in Branches : ids[b].gen \in Nat
    BY DEF IInv, TypeInv, Tables
  <2>3. \A r \in Rows : Live(r) => row[r].branch.gen <= ids[row[r].branch.name].gen
    BY DEF IInv, KnownInv, Known
  <2> QED  BY <1>2, <2>1, <2>2, <2>3 DEF Undisturbed
<1>5. Surprises(k)
  BY <1>2 DEF Surprises
<1> QED  BY <1>1, <1>2, <1>3, <1>4, <1>5, ReadingKeeps

\* What is decided of a row is an outcome, and if the copies are true to the disk
\* a matched row is sent to a checkout of its branch or to a detached one.
LEMMA OutcomeIsSound ==
  ASSUME NEW list \in [Paths -> Checkouts], NEW table \in Tables, NEW rows, NEW r \in Rows,
         rows[r] \in Worktrees
  PROVE  LET o == Outcome(r, list, table, rows) IN
         /\ o \in Outcomes
         /\ o.is = "matched" => o.from = rows[r].path
         /\ o.is = "matched" /\ BranchExists(rows[r].branch, table)
              => list[o.path] \in {Detached, rows[r].branch.name}
<1> DEFINE path == rows[r].path  id == rows[r].branch
<1>0. path \in Paths /\ id.name \in Branches
  BY DEF Worktrees, BranchIds
<1>1. CASE list[path] # None /\ list[path] # Detached /\ BranchExists(id, table) /\ list[path] # id.name
  <2>1. Outcome(r, list, table, rows) = [is |-> "mismatch"]
    BY <1>1 DEF Outcome
  <2> QED  BY <2>1 DEF Outcomes
<1>2. CASE list[path] # None /\ ~(list[path] # Detached /\ BranchExists(id, table) /\ list[path] # id.name)
  <2>1. Outcome(r, list, table, rows) = [is |-> "matched", from |-> path, path |-> path]
    BY <1>2 DEF Outcome
  <2> QED  BY <1>0, <1>2, <2>1 DEF Outcomes
<1>3. CASE list[path] = None /\ BranchExists(id, table) /\ CheckoutOf(id.name, list) # {}
  <2> DEFINE p == CHOOSE x \in CheckoutOf(id.name, list) : TRUE
  <2>1. p \in CheckoutOf(id.name, list)
    BY <1>3
  <2>2. Outcome(r, list, table, rows) = [is |-> "matched", from |-> path, path |-> p]
    BY <1>3 DEF Outcome
  <2> HIDE DEF p
  <2> QED  BY <1>0, <2>1, <2>2 DEF Outcomes, CheckoutOf
<1>4. CASE list[path] = None /\ ~(BranchExists(id, table) /\ CheckoutOf(id.name, list) # {})
  <2>1. Outcome(r, list, table, rows) = [is |-> "not_found"]
    BY <1>4 DEF Outcome
  <2> QED  BY <2>1 DEF Outcomes
<1> QED  BY <1>1, <1>2, <1>3, <1>4

\* A row that is known to its branch now was so when the copy was made.
LEMMA CopyKnows ==
  ASSUME TypeInv, NEW k \in Tabled, Undisturbed(k), NEW r \in Rows, Live(r),
         BranchExists(row[r].branch, ids), Known(row[r].branch)
  PROVE  BranchExists(row[r].branch, k.ids)
<1> PICK id \in BranchIds : id = row[r].branch
  BY RowOf
<1>0. k.ids \in Tables /\ ids \in Tables /\ k.pc = "rows"
  BY DEF Tabled, TypeInv
<1>1. ids[id.name].gen = id.gen /\ ids[id.name].live = TRUE
  BY <1>0, ExistsMeans
<1>2. id.name \in Branches /\ id.gen \in Nat /\ k.ids[id.name].gen \in Nat /\ k.ids[id.name].live \in BOOLEAN
  BY <1>0 DEF BranchIds, Tables
<1>3. k.ids[id.name].gen <= ids[id.name].gen /\ id.gen <= k.ids[id.name].gen
  BY <1>0, <1>2 DEF Undisturbed
<1>4. k.ids[id.name].gen = id.gen
  BY <1>1, <1>2, <1>3
<1>5. k.ids[id.name].live = TRUE
  BY <1>0, <1>1, <1>2, <1>4 DEF Undisturbed
<1> QED  BY <1>0, <1>4, <1>5, ExistsMeans

LEMMA ReconcileRowsKeeps ==
  ASSUME IInv, NEW c \in Calls, ReconcileRows(c)
  PROVE  IInv'
<1> DEFINE known == {r \in Rows : Live(r)}
           to == [r \in known |-> Outcome(r, call[c].list, call[c].ids, row)]
           k == [op |-> "reconcile", pc |-> "check", allow |-> call[c].allow, alone |-> call[c].alone,
                 to |-> to]
<1>0. call[c] \in Tabled /\ (call[c].alone => Undisturbed(call[c]))
  BY PlaceOf DEF IInv, TypeInv, AloneInv, ReconcileRows
<1>1. /\ call[c].list \in [Paths -> Checkouts] /\ call[c].ids \in Tables
      /\ call[c].allow \in BOOLEAN /\ call[c].alone \in BOOLEAN /\ call[c].pc = "rows"
  BY <1>0 DEF Tabled
<1>2. /\ \A r \in known : row[r] \in Worktrees
      /\ \A r \in known : BranchExists(row[r].branch, ids) /\ call[c].alone
           => BranchExists(row[r].branch, call[c].ids)
  <2>1. \A r \in known : row[r] \in Worktrees /\ Known(row[r].branch)
    BY RowOf DEF IInv, KnownInv
  <2> QED  BY <1>0, <2>1, CopyKnows DEF IInv
<1>3. ASSUME NEW r \in known
      PROVE  /\ to[r] \in Outcomes
             /\ to[r].is = "matched" => to[r].from = row[r].path
             /\ to[r].is = "matched" /\ BranchExists(row[r].branch, call[c].ids)
                  => call[c].list[to[r].path] \in {Detached, row[r].branch.name}
  BY <1>1, <1>2, OutcomeIsSound
<1>4. to \in [known -> Outcomes] /\ DOMAIN to = known /\ known \in SUBSET Rows
  BY <1>3
<1>5. call' = [call EXCEPT ![c] = k] /\ UNCHANGED <<disk, refs, ids, row, task, late, synced>>
  BY DEF ReconcileRows, Goto
<1>6. k.op = "reconcile" /\ k.pc = "check" /\ k.alone = call[c].alone /\ k.to = to
  OBVIOUS
<1> HIDE DEF to
<1>7. to \in Decisions
  BY <1>4 DEF Decisions
<1>8. k \in CallType
  BY <1>1, <1>7 DEF CallType, Reconciles, Decided
<1> HIDE DEF k
<1>9. ASSUME k.alone  PROVE Undisturbed(k)
  <2>1. call[c].list = disk
    BY <1>0, <1>1, <1>6, <1>9 DEF Undisturbed
  <2>2. \A r \in known : to[r].is = "matched" =>
          /\ to[r].from = row[r].path
          /\ BranchExists(row[r].branch, ids)
               => disk[to[r].path] \in {Detached, row[r].branch.name}
    BY <1>2, <1>3, <1>6, <1>9, <2>1
  <2> QED  BY <1>4, <1>6, <2>2 DEF Undisturbed
<1>10. Surprises(k)
  BY <1>6 DEF Surprises
<1> QED  BY <1>5, <1>6, <1>8, <1>9, <1>10, ReadingKeeps

LEMMA ReconcileCheckKeeps ==
  ASSUME IInv, NEW c \in Calls, ReconcileCheck(c)
  PROVE  IInv'
<1> DEFINE to == call[c].to
           lost == {r \in DOMAIN to : to[r].is = "not_found"}
           remove == IF call[c].allow THEN {r \in lost : ~Referenced(r)} ELSE {}
           k == [op |-> "reconcile", pc |-> "commit", to |-> to, alone |-> call[c].alone,
                 remove |-> remove]
<1>0. call[c] \in Decided /\ (call[c].alone => Undisturbed(call[c])) /\ call[c].pc = "check"
  BY PlaceOf DEF IInv, TypeInv, AloneInv, ReconcileCheck
<1>1. to \in Decisions /\ call[c].alone \in BOOLEAN /\ DOMAIN to \subseteq Rows
  BY <1>0 DEF Decided, Decisions
<1>2. remove \subseteq lost /\ remove \in SUBSET Rows /\ \A r \in remove : ~Referenced(r)
  BY <1>1
<1>3. call' = [call EXCEPT ![c] = k] /\ UNCHANGED <<disk, refs, ids, row, task, late, synced>>
  BY DEF ReconcileCheck, Goto
<1>4. k.op = "reconcile" /\ k.pc = "commit" /\ k.alone = call[c].alone /\ k.to = to /\ k.remove = remove
  OBVIOUS
<1> HIDE DEF remove
<1>5. k \in CallType
  BY <1>1, <1>2 DEF CallType, Reconciles, Checked
<1> HIDE DEF k
<1>6. k.alone => Undisturbed(k)
  BY <1>0, <1>4 DEF Undisturbed
<1>7. Surprises(k)
  BY <1>2, <1>4 DEF Surprises, Referenced
<1> QED  BY <1>3, <1>4, <1>5, <1>6, <1>7, ReadingKeeps

\* What the transaction of a reconcile makes of one row.
LEMMA ReconciledRow ==
  ASSUME IInv, NEW c \in Calls, call[c] \in Checked, NEW r \in Rows
  PROVE  LET new == Reconciled(c)[r] IN
         /\ new \in Worktrees \cup {None, Gone}
         /\ new = Gone /\ Live(r) => r \in call[c].remove
         /\ new \notin {None, Gone} =>
              /\ Live(r) /\ new.branch = row[r].branch
              /\ r \in DOMAIN call[c].to /\ call[c].to[r].is = "matched"
                   => \/ r \in call[c].remove
                      \/ new.path = call[c].to[r].path
                      \/ call[c].to[r].path = call[c].to[r].from /\ new.path = row[r].path
<1> DEFINE to == call[c].to
           new == Reconciled(c)[r]
<1>0. to \in Decisions /\ row[r] \in Worktrees \cup {None, Gone}
      /\ (Live(r) => row[r] \in Worktrees) /\ None \notin Worktrees /\ Gone \notin Worktrees
  BY RowOf, NamesAssumption DEF Checked, IInv, TypeInv
<1>1. CASE ~Live(r) \/ r \notin DOMAIN to
  <2>1. new = row[r]
    BY <1>1 DEF Reconciled
  <2> QED  BY <1>0, <1>1, <2>1 DEF Live
<1>2. CASE Live(r) /\ r \in DOMAIN to /\ r \in call[c].remove
  <2>1. new = Gone
    BY <1>2 DEF Reconciled
  <2> QED  BY <1>0, <1>2, <2>1
<1> DEFINE Moved == to[r].is = "matched" /\ to[r].path # to[r].from
<1>3. CASE Live(r) /\ r \in DOMAIN to /\ r \notin call[c].remove /\ Moved
  <2>1. new = [row[r] EXCEPT !.path = to[r].path]
    BY <1>3 DEF Reconciled
  <2>2. to[r].path \in Paths
    BY <1>0, <1>3 DEF Decisions, Outcomes
  <2>3. new \in Worktrees /\ new.branch = row[r].branch /\ new.path = to[r].path
    BY <1>0, <1>3, <2>1, <2>2 DEF Worktrees
  <2> QED  BY <1>0, <1>3, <2>3
<1>4. CASE Live(r) /\ r \in DOMAIN to /\ r \notin call[c].remove /\ ~Moved
  <2>1. new = row[r]
    BY <1>4 DEF Reconciled
  <2> QED  BY <1>0, <1>4, <2>1 DEF Live
<1> QED  BY <1>1, <1>2, <1>3, <1>4

LEMMA ReconcileCommitKeeps ==
  ASSUME IInv, NEW c \in Calls, ReconcileCommit(c)
  PROVE  IInv'
<1>0. call[c] \in Checked /\ call[c].pc = "commit" /\ call[c].op = "reconcile"
  BY PlaceOf DEF IInv, TypeInv, ReconcileCommit
<1>1. CASE ~Unique(Reconciled(c))
  BY <1>1, ReturnKeeps, SameIsGrown DEF ReconcileCommit, IInv, TypeInv
<1>2. CASE Unique(Reconciled(c))
  <2>1. /\ row' = Reconciled(c)
        /\ call' = [Disturbed(c) EXCEPT ![c] = Idle]
        /\ synced' = (call[c].alone /\ \A r \in DOMAIN call[c].to : call[c].to[r].is = "matched")
        /\ UNCHANGED <<disk, refs, ids, task, late>>
    BY <1>2 DEF ReconcileCommit
  <2>2. \A r \in Rows :
          /\ row'[r] \in Worktrees \cup {None, Gone}
          /\ Live(r)' => /\ Live(r) /\ row'[r].branch = row[r].branch
                         /\ r \in DOMAIN call[c].to /\ call[c].to[r].is = "matched"
                              => \/ r \in call[c].remove
                                 \/ row'[r].path = call[c].to[r].path
                                 \/ /\ call[c].to[r].path = call[c].to[r].from
                                    /\ row'[r].path = row[r].path
    BY <1>0, <2>1, ReconciledRow DEF Live
  <2>3. row' \in [Rows -> Worktrees \cup {None, Gone}] /\ Unique(row')
    BY <1>2, <2>1, <2>2 DEF Reconciled
  <2>4. /\ call' \in [Calls -> CallType] /\ call'[c] = Idle
        /\ \A d \in Calls : d # c => Shaken(call[d], call'[d])
    BY <2>1, DisturbedShakes, IdleIsHarmless DEF IInv
  <2>5. \A d \in Calls :
           \/ Shaken(call[d], call'[d])
           \/ /\ ~(call'[d].op = "reconcile" /\ call'[d].alone)
              /\ ~AboutToInsert(call'[d])
              /\ Surprises(call[d])'
    BY <2>4, IdleIsHarmless DEF Harmless, Surprises
  <2>6. \A r \in Rows : Live(r)' => Known(row'[r].branch)
    BY <2>2 DEF IInv, KnownInv
  <2>7. SyncedRowsHoldTheirBranch'
    <3> SUFFICES ASSUME synced', NEW r \in Rows, Live(r)', BranchExists(row'[r].branch, ids)
                 PROVE  disk[row'[r].path] \in {Detached, row'[r].branch.name}
      BY <2>1 DEF SyncedRowsHoldTheirBranch
    <3>1. call[c].alone /\ \A q \in DOMAIN call[c].to : call[c].to[q].is = "matched"
      BY <2>1
    <3>2. Undisturbed(call[c])
      BY <1>0, <3>1 DEF IInv, AloneInv
    <3>3. r \in DOMAIN call[c].to /\ row'[r].branch = row[r].branch
      BY <1>0, <2>2, <3>2 DEF Undisturbed
    <3>4. r \notin call[c].remove
      <4>1. Surprises(call[c])
        BY DEF IInv, LateInv
      <4> QED  BY <1>0, <3>1, <4>1 DEF Surprises
    <3>5. row'[r].path = call[c].to[r].path
      <4>1. call[c].to[r].from = row[r].path
        BY <1>0, <3>1, <3>2, <3>3 DEF Undisturbed
      <4> QED  BY <2>2, <3>1, <3>3, <3>4, <4>1
    <3> QED  BY <1>0, <3>1, <3>2, <3>3, <3>5 DEF Undisturbed
  <2>8. synced' \in BOOLEAN
    <3>1. call[c].alone \in BOOLEAN
      BY <1>0 DEF Checked
    <3> QED  BY <2>1, <3>1
  <2>9. disk' \in [Paths -> Checkouts] /\ OneCheckout(disk') /\ refs' \subseteq Branches
    BY <2>1 DEF IInv, TypeInv
  <2> QED  BY <2>1, <2>3, <2>4, <2>5, <2>6, <2>7, <2>8, <2>9, DisturbedStep
<1> QED  BY <1>1, <1>2

----------------------------------------------------------------------------
(* The steps that write a worktree row.                                     *)

\* WriteRow ends the request and disturbs the reconciles of others.
LEMMA WriteRowKeeps ==
  ASSUME IInv, NEW c \in Calls, NEW rows \in [Rows -> Worktrees \cup {None, Gone}],
         Unique(rows), \A r \in Rows : rows[r] \notin {None, Gone} => Known(rows[r].branch),
         WriteRow(c, rows), UNCHANGED <<disk, refs, ids, task, late>>
  PROVE  IInv'
<1>1. Writes(c, Idle)
  BY IdleIsHarmless DEF WriteRow, Writes, Harmless
<1>2. row' = rows /\ synced' = FALSE
  BY DEF WriteRow
<1>3. disk' \in [Paths -> Checkouts] /\ OneCheckout(disk') /\ refs' \subseteq Branches
  BY DEF IInv, TypeInv
<1>4. \A r \in Rows : Live(r)' => Known(row'[r].branch)
  BY <1>2 DEF Live
<1> QED  BY <1>1, <1>2, <1>3, <1>4, WritesKeep

LEMMA UnregisterDeleteKeeps ==
  ASSUME IInv, NEW c \in Calls, UnregisterDelete(c)
  PROVE  IInv'
<1> DEFINE rows == [row EXCEPT ![call[c].row] = Gone]
<1>1. row \in [Rows -> Worktrees \cup {None, Gone}] /\ Unique(row)
      /\ \A r \in Rows : Live(r) => Known(row[r].branch)
  BY DEF IInv, TypeInv, KnownInv
<1>2. rows \in [Rows -> Worktrees \cup {None, Gone}] /\ Unique(rows)
  BY <1>1 DEF Unique
<1>3. \A r \in Rows : rows[r] \notin {None, Gone} => Known(rows[r].branch)
  BY <1>1 DEF Live
<1>4. WriteRow(c, rows) /\ UNCHANGED <<disk, refs, ids, task, late>>
  BY DEF UnregisterDelete
<1> HIDE DEF rows
<1> QED  BY <1>2, <1>3, <1>4, WriteRowKeeps

\* A row that an insert may write.
LEMMA InsertedRows ==
  ASSUME IInv, NEW p \in Paths, NEW id \in BranchIds, Known(id), NEW rows \in Insert(p, id)
  PROVE  /\ rows \in [Rows -> Worktrees \cup {None, Gone}]
         /\ \A r \in Rows : rows[r] \notin {None, Gone} => Known(rows[r].branch)
         /\ \E r \in Rows : rows[r] \notin {None, Gone} /\ rows[r].path = p
         /\ \A r \in Rows : Live(r) => rows[r] = row[r]
<1> PICK x \in Rows : row[x] = None /\ rows = [row EXCEPT ![x] = [path |-> p, branch |-> id]]
  BY DEF Insert
<1>1. [path |-> p, branch |-> id] \in Worktrees
  BY DEF Worktrees
<1>2. row \in [Rows -> Worktrees \cup {None, Gone}] /\ \A r \in Rows : Live(r) => Known(row[r].branch)
  BY DEF IInv, TypeInv, KnownInv
<1>3. [path |-> p, branch |-> id] \notin {None, Gone}
  BY <1>1, NamesAssumption
<1> QED  BY <1>1, <1>2, <1>3 DEF Live

LEMMA InsertKeeps ==
  ASSUME IInv, NEW c \in Calls, AboutToInsert(call[c]), NEW rows \in Insert(call[c].path, call[c].id),
         Unique(rows), WriteRow(c, rows), UNCHANGED <<disk, refs, ids, task, late>>
  PROVE  IInv'
<1>1. call[c].path \in Paths /\ call[c].id \in BranchIds /\ Known(call[c].id)
  BY InsertOf DEF IInv, TypeInv, KnownInv
<1> QED  BY <1>1, InsertedRows, WriteRowKeeps

LEMMA RegisterInsertKeeps ==
  ASSUME IInv, NEW c \in Calls, RegisterInsert(c)
  PROVE  IInv'
<1> PICK rows \in Insert(call[c].path, call[c].id) :
       IF Unique(rows) THEN WriteRow(c, rows) ELSE Return(c) /\ UNCHANGED <<row, synced>>
  BY DEF RegisterInsert
<1>1. AboutToInsert(call[c]) /\ UNCHANGED <<disk, refs, ids, task, late>>
  BY DEF RegisterInsert, AboutToInsert
<1>2. CASE Unique(rows)
  BY <1>1, <1>2, InsertKeeps
<1>3. CASE ~Unique(rows)
  BY <1>1, <1>3, ReturnKeeps, SameIsGrown DEF Return, Goto, IInv, TypeInv
<1> QED  BY <1>2, <1>3

LEMMA CreateInsertKeeps ==
  ASSUME IInv, NEW c \in Calls, CreateInsert(c)
  PROVE  IInv'
<1> DEFINE k == [op |-> "create", pc |-> "cleanup", path |-> call[c].path]
<1> PICK rows \in Insert(call[c].path, call[c].id) :
       IF Unique(rows) THEN WriteRow(c, rows) ELSE Goto(c, k) /\ UNCHANGED <<row, synced>>
  BY DEF CreateInsert
<1>1. AboutToInsert(call[c]) /\ UNCHANGED <<disk, refs, ids, task, late>>
  BY DEF CreateInsert, AboutToInsert
<1>2. CASE Unique(rows)
  BY <1>1, <1>2, InsertKeeps
<1>3. CASE ~Unique(rows)
  <2>1. k \in CallType /\ Harmless(k)
    BY <1>1, InsertOf DEF IInv, TypeInv, CallType, Cleanups, Harmless, AboutToInsert
  <2>2. call' = [call EXCEPT ![c] = k] /\ UNCHANGED <<row, synced>>
    BY <1>3 DEF Goto
  <2> HIDE DEF k
  <2> QED  BY <1>1, <2>1, <2>2, HarmlessKeeps, SameIsGrown DEF IInv, TypeInv
<1> QED  BY <1>2, <1>3

LEMMA RelocateUpdateKeeps ==
  ASSUME IInv, NEW c \in Calls, RelocateUpdate(c)
  PROVE  IInv'
<1> DEFINE r == call[c].row
           rows == IF Live(r) THEN [row EXCEPT ![r].path = call[c].path] ELSE row
<1>0. r \in Rows /\ call[c].path \in Paths
  BY KindOf DEF RelocateUpdate, IInv, TypeInv, Relocates
<1>1. row \in [Rows -> Worktrees \cup {None, Gone}] /\ \A x \in Rows : Live(x) => Known(row[x].branch)
  BY DEF IInv, TypeInv, KnownInv
<1>2. /\ IF Unique(rows) THEN WriteRow(c, rows) ELSE Return(c) /\ UNCHANGED <<row, synced>>
      /\ UNCHANGED <<disk, refs, ids, task, late>>
  BY DEF RelocateUpdate
<1>3. /\ rows \in [Rows -> Worktrees \cup {None, Gone}]
      /\ \A x \in Rows : rows[x] \notin {None, Gone} => Known(rows[x].branch)
  <2>1. CASE Live(r)
    <3>1. row[r] \in Worktrees
      BY <1>0, <2>1, RowOf DEF IInv
    <3>2. /\ [row[r] EXCEPT !.path = call[c].path] \in Worktrees
          /\ [row[r] EXCEPT !.path = call[c].path].branch = row[r].branch
      BY <1>0, <3>1 DEF Worktrees
    <3>3. rows = [row EXCEPT ![r] = [row[r] EXCEPT !.path = call[c].path]]
      BY <2>1
    <3> HIDE DEF rows, r
    <3> QED  BY <1>0, <1>1, <2>1, <3>2, <3>3 DEF Live
  <2>2. CASE ~Live(r)
    BY <1>1, <2>2 DEF Live
  <2> QED  BY <2>1, <2>2
<1> HIDE DEF rows
<1>4. CASE Unique(rows)
  BY <1>2, <1>3, <1>4, WriteRowKeeps
<1>5. CASE ~Unique(rows)
  BY <1>2, <1>5, ReturnKeeps, SameIsGrown DEF Return, Goto, IInv, TypeInv
<1> QED  BY <1>4, <1>5

----------------------------------------------------------------------------
(* The other steps of a request.                                            *)

LEMMA UnregisterGuardKeeps ==
  ASSUME IInv, NEW c \in Calls, NEW r \in Rows, UnregisterGuard(c, r)
  PROVE  IInv'
<1> DEFINE k == [op |-> "unregister", row |-> r]
<1>1. /\ call' = [call EXCEPT ![c] = k] /\ UNCHANGED <<disk, refs, ids, row, task, late, synced>>
      /\ \A t \in Tasks : ~(task[t].running /\ task[t].wt = r)
  BY DEF UnregisterGuard, Begin
<1>2. k \in CallType /\ k.op = "unregister" /\ k.row = r /\ ~AboutToInsert(k)
  BY DEF CallType, Unregisters, AboutToInsert
<1> HIDE DEF k
<1>3. call'[c] = k /\ Grown /\ refs' \subseteq Branches
  BY <1>1, SameIsGrown DEF IInv, TypeInv
<1>4. Moves(c)
  BY <1>1, <1>2, <1>3 DEF Moves
<1>5. Surprises(call[c])'
  BY <1>1, <1>2, <1>3 DEF Surprises
<1> QED  BY <1>1, <1>2, <1>3, <1>4, <1>5, MovesKeep

LEMMA LookupKeeps ==
  ASSUME IInv, NEW c \in Calls, NEW p \in Paths, NEW b \in Branches,
         CreateLookup(c, p, b) \/ RegisterInventory(c, p, b)
  PROVE  IInv'
<1>1. CASE CreateLookup(c, p, b)
  <2> DEFINE k == [op |-> "create", pc |-> "add", path |-> p, branch |-> b]
  <2>1. k \in CallType /\ Harmless(k)
    BY DEF CallType, Creates, Harmless, AboutToInsert
  <2>2. call' = [call EXCEPT ![c] = k] /\ refs' \subseteq Branches /\ Grown
    BY <1>1, ResolveGrows DEF CreateLookup, Begin, IInv, TypeInv
  <2> HIDE DEF k
  <2> QED  BY <1>1, <2>1, <2>2, HarmlessKeeps DEF CreateLookup
<1>2. CASE RegisterInventory(c, p, b)
  <2> DEFINE k == [op |-> "register", path |-> p, branch |-> b]
  <2>1. k \in CallType /\ Harmless(k)
    BY DEF CallType, Registers, Harmless, AboutToInsert
  <2>2. call' = [call EXCEPT ![c] = k] /\ refs' \subseteq Branches /\ Grown
    BY <1>2, SameIsGrown DEF RegisterInventory, Begin, IInv, TypeInv
  <2> HIDE DEF k
  <2> QED  BY <1>2, <2>1, <2>2, HarmlessKeeps DEF RegisterInventory
<1> QED  BY <1>1, <1>2

LEMMA CreateAddKeeps ==
  ASSUME IInv, NEW c \in Calls, CreateAdd(c)
  PROVE  IInv'
<1> DEFINE p == call[c].path  b == call[c].branch  k == [call[c] EXCEPT !.pc = "bind"]
<1>0. call[c] \in Creates /\ p \in Paths /\ b \in Branches
  BY CreateOf DEF CreateAdd, IInv, TypeInv, Creates
<1>1. CASE disk[p] = None /\ CheckoutOf(b, disk) = {}
  <2>0. PICK next \in {k, Idle} :
          /\ disk' = [disk EXCEPT ![p] = b] /\ refs' = refs \cup {b} /\ synced' = FALSE
          /\ call' = [Disturbed(c) EXCEPT ![c] = next]
          /\ UNCHANGED <<ids, row, task, late>>
    <3>1. Disturbed(c)[c] = call[c] /\ Disturbed(c) \in [Calls -> CallType]
      BY DisturbedKeeps DEF IInv, TypeInv
    <3> QED  BY <1>1, <3>1 DEF CreateAdd
  <2>1. k \in Creates /\ k.op = "create" /\ k.pc = "bind"
    BY <1>0 DEF Creates
  <2>2. next \in CallType /\ Harmless(next)
    BY <2>1, IdleIsHarmless DEF CallType, Harmless, AboutToInsert
  <2>6. Writes(c, next)
    BY <2>0, <2>2 DEF Writes, Harmless
  <2>7. disk' \in [Paths -> Checkouts] /\ OneCheckout(disk') /\ refs' \subseteq Branches
    <3>1. \A q \in Paths : disk[q] # b
      BY <1>1 DEF CheckoutOf
    <3>2. disk \in [Paths -> Checkouts] /\ OneCheckout(disk) /\ refs \subseteq Branches
      BY DEF IInv, TypeInv
    <3> QED  BY <1>0, <2>0, <3>1, <3>2 DEF OneCheckout, Checkouts
  <2> HIDE DEF k, p, b
  <2> QED  BY <2>0, <2>6, <2>7, RowsStay, WritesKeep
<1>2. CASE ~(disk[p] = None /\ CheckoutOf(b, disk) = {})
  BY <1>2, ReturnKeeps, SameIsGrown DEF CreateAdd, IInv, TypeInv
<1> QED  BY <1>1, <1>2

LEMMA CreateCleanupKeeps ==
  ASSUME IInv, NEW c \in Calls, CreateCleanup(c)
  PROVE  IInv'
<1>1. CASE call' = [Disturbed(c) EXCEPT ![c] = Idle] /\ disk' = [disk EXCEPT ![call[c].path] = None] /\ synced' = FALSE
  <2>1. Writes(c, Idle)
    BY <1>1, IdleIsHarmless DEF Writes, Harmless
  <2>2. UNCHANGED <<refs, ids, row, task, late>>
    BY DEF CreateCleanup
  <2>3. disk' \in [Paths -> Checkouts] /\ OneCheckout(disk') /\ refs' \subseteq Branches
    <3>1. disk \in [Paths -> Checkouts] /\ OneCheckout(disk) /\ refs \subseteq Branches /\ None \notin Branches
      BY NamesAssumption DEF IInv, TypeInv
    <3> QED  BY <1>1, <2>2, <3>1 DEF OneCheckout, Checkouts
  <2> QED  BY <1>1, <2>1, <2>2, <2>3, RowsStay, WritesKeep
<1>2. CASE Return(c) /\ UNCHANGED <<disk, synced>>
  BY <1>2, ReturnKeeps, SameIsGrown DEF CreateCleanup, Return, Goto, IInv, TypeInv
<1> QED  BY <1>1, <1>2 DEF CreateCleanup

\* A step to an insert whose id has just been resolved.
LEMMA ToInsert ==
  ASSUME IInv, NEW c \in Calls, NEW k \in CallType, AboutToInsert(k), NEW b \in Branches, Resolve(b),
         k.id = BranchId(b, ids'), call' = [call EXCEPT ![c] = k],
         UNCHANGED <<disk, refs, row, task, late, synced>>
  PROVE  IInv'
<1>1. call'[c] = k /\ k.op # "reconcile" /\ k.op # "unregister"
  BY DEF IInv, TypeInv, AboutToInsert
<1>2. Moves(c) /\ refs' \subseteq Branches
  BY <1>1 DEF Moves, IInv, TypeInv
<1>3. Grown /\ Known(call[c].id)'
  <2> PICK id : id = BranchId(b, ids')  OBVIOUS
  <2>1. Grown /\ Known(id)'
    BY ResolveGrows DEF IInv
  <2> QED  BY <1>1, <2>1 DEF Known
<1>4. Surprises(call[c])'
  BY <1>1 DEF Surprises
<1> QED  BY <1>1, <1>2, <1>3, <1>4, MovesKeep

LEMMA CreateBindKeeps ==
  ASSUME IInv, NEW c \in Calls, CreateBind(c)
  PROVE  IInv'
<1> DEFINE b == call[c].branch
           up == [call[c] EXCEPT !.pc = "cleanup"]
           k == [op |-> "create", pc |-> "insert", path |-> call[c].path, id |-> BranchId(b, ids')]
<1>0. call[c] \in Creates /\ call[c].path \in Paths /\ b \in Branches
  BY CreateOf DEF CreateBind, IInv, TypeInv, Creates
<1>1. /\ Resolve(b) /\ UNCHANGED <<disk, refs, row, task, late, synced>>
      /\ Grown /\ BranchId(b, ids') \in BranchIds
  BY <1>0, ResolveGrows DEF CreateBind, IInv
<1>2. CASE call' = [call EXCEPT ![c] = up]
  <2>1. up \in Creates /\ up.op = "create" /\ up.pc = "cleanup"
    BY <1>0 DEF Creates
  <2>2. up \in CallType /\ Harmless(up)
    BY <2>1 DEF CallType, Harmless, AboutToInsert
  <2> HIDE DEF up
  <2> QED  BY <1>1, <1>2, <2>2, HarmlessKeeps DEF IInv, TypeInv
<1>3. CASE call' = [call EXCEPT ![c] = k]
  <2>1. k \in CallType /\ AboutToInsert(k) /\ k.id = BranchId(b, ids')
    BY <1>0, <1>1 DEF CallType, CreateInserts, AboutToInsert
  <2> HIDE DEF k, b
  <2> QED  BY <1>0, <1>1, <1>3, <2>1, ToInsert
<1> QED  BY <1>2, <1>3 DEF CreateBind, Goto

LEMMA RegisterResolveKeeps ==
  ASSUME IInv, NEW c \in Calls, RegisterResolve(c)
  PROVE  IInv'
<1> DEFINE b == call[c].branch
           k == [op |-> "insert", path |-> call[c].path, id |-> BranchId(b, ids')]
<1>0. call[c].path \in Paths /\ b \in Branches
  BY KindOf DEF RegisterResolve, IInv, TypeInv, Registers
<1>1. /\ Resolve(b) /\ UNCHANGED <<disk, refs, row, task, late, synced>>
      /\ Grown /\ BranchId(b, ids') \in BranchIds
  BY <1>0, ResolveGrows DEF RegisterResolve, IInv
<1>2. CASE call' = [call EXCEPT ![c] = Idle]
  BY <1>1, <1>2, ReturnKeeps DEF IInv, TypeInv
<1>3. CASE call' = [call EXCEPT ![c] = k]
  <2>1. k \in CallType /\ AboutToInsert(k) /\ k.id = BranchId(b, ids')
    BY <1>0, <1>1 DEF CallType, Inserts, AboutToInsert
  <2> HIDE DEF k, b
  <2> QED  BY <1>0, <1>1, <1>3, <2>1, ToInsert
<1> QED  BY <1>2, <1>3 DEF RegisterResolve, Goto, Return

LEMMA CutKeeps ==
  ASSUME IInv, NEW c \in Calls, Cut(c)
  PROVE  IInv'
  BY ReturnKeeps, SameIsGrown DEF Cut, Return, Goto, IInv, TypeInv

LEMMA RelocateCheckKeeps ==
  ASSUME IInv, NEW c \in Calls, NEW r \in Rows, NEW p \in Paths, RelocateCheck(c, r, p)
  PROVE  IInv'
<1> DEFINE k == [op |-> "relocate", row |-> r, path |-> p]
<1>1. k \in CallType /\ Harmless(k)
  BY DEF CallType, Relocates, Harmless, AboutToInsert
<1>2. call' = [call EXCEPT ![c] = k] /\ Grown /\ refs' \subseteq Branches
  BY SameIsGrown DEF RelocateCheck, Begin, IInv, TypeInv
<1> HIDE DEF k
<1> QED  BY <1>1, <1>2, HarmlessKeeps DEF RelocateCheck

LEMMA BranchGitKeeps ==
  ASSUME IInv, NEW c \in Calls, NEW b \in Branches, CreateBranchGit(c, b) \/ DeleteBranchGit(c, b)
  PROVE  IInv'
<1>0. Grown
  BY SameIsGrown DEF CreateBranchGit, DeleteBranchGit, IInv
<1>1. CASE CreateBranchGit(c, b)
  <2> DEFINE k == [op |-> "newbranch", branch |-> b]
  <2>1. k \in CallType /\ Harmless(k)
    BY DEF CallType, NewBranches, Harmless, AboutToInsert
  <2>2. call' = [call EXCEPT ![c] = k] /\ refs' \subseteq Branches
    BY <1>1 DEF CreateBranchGit, Begin, IInv, TypeInv
  <2> HIDE DEF k
  <2> QED  BY <1>0, <1>1, <2>1, <2>2, HarmlessKeeps DEF CreateBranchGit
<1>2. CASE DeleteBranchGit(c, b)
  <2> DEFINE k == [op |-> "delbranch", id |-> BranchId(b, ids)]
  <2>1. BranchId(b, ids) \in BranchIds
    BY DEF BranchId, BranchIds, IInv, TypeInv, Tables
  <2>2. k \in CallType /\ Harmless(k)
    BY <2>1 DEF CallType, DelBranches, Harmless, AboutToInsert
  <2>3. call' = [call EXCEPT ![c] = k] /\ refs' \subseteq Branches
    BY <1>2 DEF DeleteBranchGit, Begin, IInv, TypeInv
  <2> HIDE DEF k
  <2> QED  BY <1>0, <1>2, <2>2, <2>3, HarmlessKeeps DEF DeleteBranchGit
<1> QED  BY <1>1, <1>2

LEMMA BranchRowKeeps ==
  ASSUME IInv, NEW c \in Calls, CreateBranchRow(c) \/ DeleteBranchRow(c)
  PROVE  IInv'
<1>0. /\ call' = [call EXCEPT ![c] = Idle] /\ refs' \subseteq Branches
      /\ UNCHANGED <<disk, row, task, late, synced>>
  BY DEF CreateBranchRow, DeleteBranchRow, Return, Goto, IInv, TypeInv
<1>1. Grown
  <2>0. ids \in Tables /\ \A b \in Branches : ids[b].gen \in Nat
    BY DEF IInv, TypeInv, Tables
  <2>1. CASE ids' = ids
    BY <2>1, SameIsGrown DEF IInv
  <2>2. ASSUME NEW b \in Branches, ids' = [ids EXCEPT ![b] = [gen |-> ids[b].gen + 1, live |-> TRUE]]
        PROVE  Grown
    <3>1. ids' \in Tables /\ ids'[b].gen = ids[b].gen + 1 /\ \A x \in Branches : x # b => ids'[x] = ids[x]
      BY <2>0, <2>2 DEF Tables
    <3> QED  BY <2>0, <3>1 DEF Grown
  <2>3. ASSUME NEW b \in Branches, ids' = [ids EXCEPT ![b].live = FALSE]
        PROVE  Grown
    <3>1. /\ ids' \in Tables /\ ids'[b].gen = ids[b].gen /\ ids'[b].live = FALSE
          /\ \A x \in Branches : x # b => ids'[x] = ids[x]
      BY <2>0, <2>3 DEF Tables
    <3> QED  BY <2>0, <3>1 DEF Grown
  <2>4. CASE CreateBranchRow(c)
    <3>1. call[c].branch \in Branches
      BY <2>4, KindOf DEF CreateBranchRow, IInv, TypeInv, NewBranches
    <3> QED  BY <2>1, <2>2, <2>4, <3>1 DEF CreateBranchRow
  <2>5. CASE DeleteBranchRow(c)
    <3>1. call[c].id.name \in Branches
      BY <2>5, KindOf DEF DeleteBranchRow, IInv, TypeInv, DelBranches, BranchIds
    <3> QED  BY <2>1, <2>3, <2>5, <3>1 DEF DeleteBranchRow
  <2> QED  BY <2>4, <2>5
<1> QED  BY <1>0, <1>1, ReturnKeeps

----------------------------------------------------------------------------
(* The invariant.                                                           *)

LEMMA InitInv ==
  ASSUME Init
  PROVE  IInv
<1>0. /\ None \notin Branches /\ None \notin Worktrees /\ Gone \notin Worktrees
      /\ disk \in [Paths -> Branches \cup {None}]
  BY NamesAssumption DEF Init
<1>1. disk \in [Paths -> Checkouts] /\ OneCheckout(disk)
  <2>1. disk \in [Paths -> Checkouts]
    BY <1>0 DEF Checkouts
  <2>2. \A b \in Branches : \A p, q \in CheckoutOf(b, disk) : p = q
    BY AtMostOne DEF Init
  <2> QED  BY <2>1, <2>2 DEF OneCheckout, CheckoutOf
<1>2. refs \subseteq Branches /\ late \subseteq Tasks /\ synced = FALSE
  BY DEF Init
<1>3. ids \in Tables /\ \A b \in Branches : ids[b].gen = 1
  BY DEF Init, Tables
<1>4. PICK some \in SUBSET {x \in Rows \X Paths : disk[x[2]] # None} :
        /\ \A x, y \in some : (x[1] = y[1]) <=> (x[2] = y[2])
        /\ row = [r \in Rows |-> IF \E x \in some : x[1] = r
                  THEN LET p == (CHOOSE x \in some : x[1] = r)[2]
                       IN [path |-> p, branch |-> [name |-> disk[p], gen |-> 1]]
                  ELSE None]
  BY DEF Init
<1>5. ASSUME NEW r \in Rows, Live(r)
      PROVE  \E x \in some : /\ x[1] = r /\ x[2] \in Paths /\ disk[x[2]] \in Branches
                             /\ row[r] = [path |-> x[2], branch |-> [name |-> disk[x[2]], gen |-> 1]]
  <2>1. \E x \in some : x[1] = r
    BY <1>4, <1>5 DEF Live
  <2> DEFINE x == CHOOSE y \in some : y[1] = r
  <2>2. x \in some /\ x[1] = r
    BY <2>1
  <2>3. row[r] = [path |-> x[2], branch |-> [name |-> disk[x[2]], gen |-> 1]]
    BY <1>4, <2>1
  <2> HIDE DEF x
  <2>4. x[2] \in Paths /\ disk[x[2]] \in Branches
    BY <1>0, <2>2
  <2> QED  BY <2>2, <2>3, <2>4
<1>6. \A r \in Rows : Live(r) => /\ row[r] \in Worktrees /\ row[r].branch.gen = 1
                                 /\ row[r].branch.name \in Branches
  <2> SUFFICES ASSUME NEW r \in Rows, Live(r)
               PROVE  row[r] \in Worktrees /\ row[r].branch.gen = 1 /\ row[r].branch.name \in Branches
    OBVIOUS
  <2>1. PICK p \in Paths : /\ disk[p] \in Branches
                           /\ row[r] = [path |-> p, branch |-> [name |-> disk[p], gen |-> 1]]
    BY <1>5
  <2>2. [name |-> disk[p], gen |-> 1] \in BranchIds
    BY <2>1 DEF BranchIds
  <2> QED  BY <2>1, <2>2 DEF Worktrees
<1>7. row \in [Rows -> Worktrees \cup {None, Gone}]
  BY <1>4, <1>6 DEF Live
<1>8. Unique(row)
  <2> SUFFICES ASSUME NEW r \in Rows, NEW s \in Rows, r # s, Live(r), Live(s)
               PROVE  row[r].path # row[s].path /\ row[r].branch # row[s].branch
    BY DEF Unique, Live
  <2>1. PICK x \in some : /\ x[1] = r /\ x[2] \in Paths /\ disk[x[2]] \in Branches
                          /\ row[r] = [path |-> x[2], branch |-> [name |-> disk[x[2]], gen |-> 1]]
    BY <1>5
  <2>2. PICK y \in some : /\ y[1] = s /\ y[2] \in Paths /\ disk[y[2]] \in Branches
                          /\ row[s] = [path |-> y[2], branch |-> [name |-> disk[y[2]], gen |-> 1]]
    BY <1>5
  <2>3. x[2] # y[2]
    BY <1>4, <2>1, <2>2
  <2>4. disk[x[2]] # disk[y[2]]
    BY <1>1, <2>1, <2>2, <2>3 DEF OneCheckout
  <2> QED  BY <2>1, <2>2, <2>3, <2>4
<1>9. task \in [Tasks -> [wt : Rows \cup {None}, running : BOOLEAN]]
  BY DEF Init
<1>10. call \in [Calls -> CallType] /\ \A c \in Calls : Harmless(call[c])
  BY IdleIsHarmless DEF Init
<1>11. TypeInv
  BY <1>1, <1>2, <1>3, <1>7, <1>8, <1>9, <1>10 DEF TypeInv
<1>12. KnownInv
  BY <1>3, <1>6, <1>10 DEF KnownInv, Known, Harmless
<1>13. AloneInv /\ LateInv /\ SyncedRowsHoldTheirBranch
  BY <1>2, <1>10 DEF AloneInv, LateInv, Surprises, Harmless, SyncedRowsHoldTheirBranch
<1> QED  BY <1>11, <1>12, <1>13 DEF IInv

LEMMA StepInv ==
  ASSUME IInv, [Next]_vars
  PROVE  IInv'
<1>1. CASE UNCHANGED vars
  <2>1. UNCHANGED <<disk, refs, ids, row, task, call, late, synced>>
    BY <1>1 DEF vars
  <2> QED  BY <2>1 DEF IInv, TypeInv, OneCheckout, Unique, KnownInv, Known, Live, AloneInv, Undisturbed,
                   LateInv, Surprises, SyncedRowsHoldTheirBranch
<1>2. CASE Next
  <2>1. CASE \/ \E p, q \in Paths : MoveCheckout(p, q)
             \/ \E p \in Paths : RemoveCheckout(p)
             \/ \E p \in Paths, x \in Branches \cup {Detached} : Checkout(p, x)
    BY <2>1, OperatorKeeps
  <2>2. CASE \E t \in Tasks : PickUp(t) \/ Finish(t)
    BY <2>2, TaskKeeps
  <2>3. ASSUME NEW c \in Calls,
               \/ \E t \in Tasks, r \in Rows : BindValidate(c, t, r)
               \/ BindTask(c)
        PROVE  IInv'
    BY <2>3, BindValidateKeeps, BindTaskKeeps
  <2>4. ASSUME NEW c \in Calls,
               \/ \E remove \in BOOLEAN : ReconcileList(c, remove)
               \/ ReconcileBranches(c)
               \/ ReconcileRows(c)
               \/ ReconcileCheck(c)
               \/ ReconcileCommit(c)
        PROVE  IInv'
    BY <2>4, ReconcileListKeeps, ReconcileBranchesKeeps, ReconcileRowsKeeps, ReconcileCheckKeeps,
       ReconcileCommitKeeps
  <2>5. ASSUME NEW c \in Calls,
               \/ \E r \in Rows : UnregisterGuard(c, r)
               \/ UnregisterDelete(c)
        PROVE  IInv'
    BY <2>5, UnregisterGuardKeeps, UnregisterDeleteKeeps
  <2>6. ASSUME NEW c \in Calls,
               \/ \E p \in Paths, b \in Branches : CreateLookup(c, p, b) \/ RegisterInventory(c, p, b)
               \/ CreateAdd(c)
               \/ CreateBind(c)
               \/ CreateInsert(c)
               \/ CreateCleanup(c)
               \/ Cut(c)
               \/ RegisterResolve(c)
               \/ RegisterInsert(c)
        PROVE  IInv'
    BY <2>6, LookupKeeps, CreateAddKeeps, CreateBindKeeps, CreateInsertKeeps, CreateCleanupKeeps, CutKeeps,
       RegisterResolveKeeps, RegisterInsertKeeps
  <2>7. ASSUME NEW c \in Calls,
               \/ \E r \in Rows, p \in Paths : RelocateCheck(c, r, p)
               \/ RelocateUpdate(c)
               \/ \E b \in Branches : CreateBranchGit(c, b) \/ DeleteBranchGit(c, b)
               \/ CreateBranchRow(c)
               \/ DeleteBranchRow(c)
        PROVE  IInv'
    BY <2>7, RelocateCheckKeeps, RelocateUpdateKeeps, BranchGitKeeps, BranchRowKeeps
  <2> QED  BY <1>2, <2>1, <2>2, <2>3, <2>4, <2>5, <2>6, <2>7 DEF Next
<1> QED  BY <1>1, <1>2

LEMMA AlwaysIInv == Spec => []IInv
  BY InitInv, StepInv, PTL DEF Spec

----------------------------------------------------------------------------
(* The theorems.                                                            *)

\* The rows are typed and unique however the checks and the writes of requests
\* interleave, and the disk keeps to git's rule of one checkout a branch.
THEOREM RegistryTypeCorrect == Spec => []TypeOK
<1>1. ASSUME IInv  PROVE TypeOK
  <2>1. \A b \in Branches : Cardinality(CheckoutOf(b, disk)) <= 1
    <3> SUFFICES ASSUME NEW b \in Branches
                 PROVE  \A p, q \in CheckoutOf(b, disk) : p = q
      BY AtMostOne
    <3> QED  BY <1>1 DEF IInv, TypeInv, OneCheckout, CheckoutOf
  <2>2. \A r \in Rows : Live(r) => row[r] \in Worktrees
    BY <1>1, RowOf DEF IInv
  <2> QED  BY <1>1, <2>1, <2>2 DEF IInv, TypeInv, TypeOK, Checkouts, Tables
<1> QED  BY <1>1, AlwaysIInv, PTL

\* A reconcile that reports ok and ran undisturbed leaves every row on a checkout
\* of its branch or on a detached one, from any disk (ReconcileGitRepository).
THEOREM OkReconcileHoldsBranches == Spec => []SyncedRowsHoldTheirBranch
<1>1. IInv => SyncedRowsHoldTheirBranch
  BY DEF IInv
<1> QED  BY <1>1, AlwaysIInv, PTL

\* A row leaves only while nobody uses it, or by surprise of a task that came
\* between a guard and its delete (store_git_guard.go, reconcile_git.go).
THEOREM RowsLeaveQuietly == Spec => RowLeavesQuietly
<1> DEFINE Quietly ==
      \A r \in Rows : Live(r) /\ row'[r] = Gone =>
        \A t \in Tasks : task[t].wt = r =>
          \/ t \in late
          \/ ~task[t].running /\ \E c \in Calls : call[c].op = "unregister" /\ call[c].row = r
<1>1. ASSUME IInv, [Next]_vars  PROVE Quietly
  <2> SUFFICES ASSUME NEW r \in Rows, Live(r), row'[r] = Gone, NEW t \in Tasks, task[t].wt = r, t \notin late
               PROVE  ~task[t].running /\ \E c \in Calls : call[c].op = "unregister" /\ call[c].row = r
    OBVIOUS
  <2>0. row[r] \in Worktrees /\ row'[r] # row[r] /\ row \in [Rows -> Worktrees \cup {None, Gone}]
        /\ Gone \notin Worktrees
    BY <1>1, RowOf, NamesAssumption DEF IInv, TypeInv
  <2>1. ASSUME NEW c \in Calls, UnregisterDelete(c)
        PROVE  ~task[t].running /\ \E d \in Calls : call[d].op = "unregister" /\ call[d].row = r
    <3>1. row' = [row EXCEPT ![call[c].row] = Gone] /\ call[c].op = "unregister"
      BY <2>1 DEF UnregisterDelete, WriteRow
    <3>2. call[c].row = r
      BY <2>0, <3>1
    <3>3. Surprises(call[c])
      BY <1>1 DEF IInv, LateInv
    <3>4. task \in [Tasks -> [wt : Rows \cup {None}, running : BOOLEAN]]
      BY <1>1 DEF IInv, TypeInv
    <3> QED  BY <3>1, <3>2, <3>3, <3>4 DEF Surprises
  <2>2. ASSUME NEW c \in Calls, ReconcileCommit(c)
        PROVE  FALSE
    <3>1. call[c] \in Checked /\ call[c].op = "reconcile" /\ call[c].pc = "commit" /\ Surprises(call[c])
      BY <1>1, <2>2, PlaceOf DEF IInv, TypeInv, LateInv, ReconcileCommit
    <3>2. row'[r] = Reconciled(c)[r]
      BY <2>0, <2>2 DEF ReconcileCommit
    <3>3. r \in call[c].remove
      BY <1>1, <3>1, <3>2, ReconciledRow
    <3> QED  BY <3>1, <3>3 DEF Surprises
  <2>3. ASSUME NEW c \in Calls, AboutToInsert(call[c]),
               \E rows \in Insert(call[c].path, call[c].id) : row' \in {row, rows}
        PROVE  FALSE
    <3>1. call[c].path \in Paths /\ call[c].id \in BranchIds /\ Known(call[c].id)
      BY <1>1, <2>3, InsertOf DEF IInv, TypeInv, KnownInv
    <3> QED  BY <1>1, <2>0, <2>3, <3>1, InsertedRows
  <2>4. ASSUME NEW c \in Calls, RegisterInsert(c) \/ CreateInsert(c)
        PROVE  FALSE
    <3>1. AboutToInsert(call[c])
      BY <2>4 DEF RegisterInsert, CreateInsert, AboutToInsert
    <3>2. \E rows \in Insert(call[c].path, call[c].id) : row' \in {row, rows}
      BY <2>4 DEF RegisterInsert, CreateInsert, WriteRow
    <3> QED  BY <2>3, <3>1, <3>2
  <2>5. ASSUME NEW c \in Calls, RelocateUpdate(c)
        PROVE  FALSE
    <3>1. call[c].path \in Paths /\ call[c].row \in Rows
      BY <1>1, <2>5, KindOf DEF RelocateUpdate, IInv, TypeInv, Relocates
    <3>2. row' = [row EXCEPT ![call[c].row].path = call[c].path]
      BY <2>0, <2>5 DEF RelocateUpdate, WriteRow
    <3>3. row'[r] = [row[r] EXCEPT !.path = call[c].path]
      BY <2>0, <3>1, <3>2
    <3>4. row'[r] \in Worktrees
      BY <2>0, <3>1, <3>3 DEF Worktrees
    <3> QED  BY <2>0, <3>4
  <2>6. Next
    BY <1>1, <2>0 DEF vars
  <2>7. CASE \/ \E p, q \in Paths : MoveCheckout(p, q)
             \/ \E p \in Paths : RemoveCheckout(p)
             \/ \E p \in Paths, x \in Branches \cup {Detached} : Checkout(p, x)
             \/ \E u \in Tasks : PickUp(u) \/ Finish(u)
    BY <2>0, <2>7 DEF MoveCheckout, RemoveCheckout, Checkout, OnDisk, PickUp, Finish
  <2>8. ASSUME NEW c \in Calls,
               \/ \E u \in Tasks, s \in Rows : BindValidate(c, u, s)
               \/ BindTask(c)
               \/ \E remove \in BOOLEAN : ReconcileList(c, remove)
               \/ ReconcileBranches(c)
               \/ ReconcileRows(c)
               \/ ReconcileCheck(c)
               \/ \E s \in Rows : UnregisterGuard(c, s)
               \/ \E p \in Paths, b \in Branches : CreateLookup(c, p, b) \/ RegisterInventory(c, p, b)
               \/ CreateAdd(c)
               \/ CreateBind(c)
               \/ CreateCleanup(c)
               \/ Cut(c)
               \/ RegisterResolve(c)
               \/ \E s \in Rows, p \in Paths : RelocateCheck(c, s, p)
               \/ \E b \in Branches : CreateBranchGit(c, b) \/ DeleteBranchGit(c, b)
               \/ CreateBranchRow(c)
               \/ DeleteBranchRow(c)
        PROVE  FALSE
    BY <2>0, <2>8 DEF BindValidate, BindTask, ReconcileList, ReconcileBranches, ReconcileRows, ReconcileCheck,
       UnregisterGuard, CreateLookup, RegisterInventory, CreateAdd, CreateBind, CreateCleanup, Cut,
       RegisterResolve, RelocateCheck, CreateBranchGit, DeleteBranchGit, CreateBranchRow, DeleteBranchRow
  <2> QED  BY <2>1, <2>2, <2>4, <2>5, <2>6, <2>7, <2>8 DEF Next
<1>2. IInv /\ [Next]_vars => [Quietly]_vars
  BY <1>1
<1>3. RowLeavesQuietly <=> [][Quietly]_vars
  BY DEF RowLeavesQuietly
<1> QED  BY <1>2, <1>3, AlwaysIInv, PTL DEF Spec

\* A request begins in the slot of an idle one.
Begun(c) ==
  \/ \E t \in Tasks, r \in Rows : BindValidate(c, t, r)
  \/ \E remove \in BOOLEAN : ReconcileList(c, remove)
  \/ \E r \in Rows : UnregisterGuard(c, r)
  \/ \E p \in Paths, b \in Branches : CreateLookup(c, p, b) \/ RegisterInventory(c, p, b)
  \/ \E r \in Rows, p \in Paths : RelocateCheck(c, r, p)
  \/ \E b \in Branches : CreateBranchGit(c, b) \/ DeleteBranchGit(c, b)

\* The steps that are made by a request.
RequestStep(c) ==
  \/ Begun(c) \/ BindTask(c) \/ ReconcileBranches(c) \/ ReconcileRows(c) \/ ReconcileCheck(c)
  \/ ReconcileCommit(c) \/ UnregisterDelete(c) \/ CreateAdd(c) \/ CreateBind(c) \/ CreateInsert(c)
  \/ CreateCleanup(c) \/ Cut(c) \/ RegisterResolve(c) \/ RegisterInsert(c) \/ RelocateUpdate(c)
  \/ CreateBranchRow(c) \/ DeleteBranchRow(c)

LEMMA WhoSteps ==
  ASSUME Next
  PROVE  \/ \E p, q \in Paths : MoveCheckout(p, q)
         \/ \E p \in Paths : RemoveCheckout(p)
         \/ \E p \in Paths, x \in Branches \cup {Detached} : Checkout(p, x)
         \/ \E t \in Tasks : PickUp(t) \/ Finish(t)
         \/ \E c \in Calls : RequestStep(c)
<1>1. ASSUME NEW c \in Calls,
             \E p \in Paths, b \in Branches : CreateLookup(c, p, b) \/ RegisterInventory(c, p, b)
      PROVE  RequestStep(c)
  BY <1>1 DEF RequestStep, Begun
<1>2. ASSUME NEW c \in Calls,
             \/ \E t \in Tasks, r \in Rows : BindValidate(c, t, r)
             \/ \E remove \in BOOLEAN : ReconcileList(c, remove)
             \/ \E r \in Rows : UnregisterGuard(c, r)
             \/ \E r \in Rows, p \in Paths : RelocateCheck(c, r, p)
             \/ \E b \in Branches : CreateBranchGit(c, b) \/ DeleteBranchGit(c, b)
      PROVE  RequestStep(c)
  BY <1>2 DEF RequestStep, Begun
<1>3. ASSUME NEW c \in Calls,
             \/ BindTask(c) \/ ReconcileBranches(c) \/ ReconcileRows(c) \/ ReconcileCheck(c)
             \/ ReconcileCommit(c) \/ UnregisterDelete(c) \/ CreateAdd(c) \/ CreateBind(c)
             \/ CreateInsert(c) \/ CreateCleanup(c) \/ Cut(c) \/ RegisterResolve(c)
             \/ RegisterInsert(c) \/ RelocateUpdate(c) \/ CreateBranchRow(c) \/ DeleteBranchRow(c)
      PROVE  RequestStep(c)
  BY <1>3 DEF RequestStep
<1> QED  BY <1>1, <1>2, <1>3 DEF Next

\* One request's step leaves the locals of another alone, unless that is a reconcile.
LEMMA OthersLeaveCreates ==
  ASSUME TypeInv, NEW c \in Calls, call[c].op = "create", NEW d \in Calls, d # c, RequestStep(d)
  PROVE  call'[c] = call[c]
<1>0. call \in [Calls -> CallType]
  BY DEF TypeInv
<1>1. CASE Begun(d)
  BY <1>0, <1>1 DEF Begun, BindValidate, ReconcileList, UnregisterGuard, CreateLookup, RegisterInventory,
     RelocateCheck, CreateBranchGit, DeleteBranchGit, Begin
<1>2. CASE \/ BindTask(d) \/ ReconcileBranches(d) \/ ReconcileRows(d) \/ ReconcileCheck(d)
           \/ CreateBind(d) \/ Cut(d) \/ RegisterResolve(d) \/ CreateBranchRow(d) \/ DeleteBranchRow(d)
  BY <1>0, <1>2 DEF BindTask, ReconcileBranches, ReconcileRows, ReconcileCheck, CreateBind, Cut,
     RegisterResolve, CreateBranchRow, DeleteBranchRow, Return, Goto
<1>3. CASE ReconcileCommit(d)
  BY <1>0, <1>3 DEF ReconcileCommit, Disturbed
<1>4. CASE UnregisterDelete(d) \/ CreateInsert(d) \/ RegisterInsert(d) \/ RelocateUpdate(d)
  BY <1>0, <1>4 DEF UnregisterDelete, CreateInsert, RegisterInsert, RelocateUpdate, WriteRow, Return, Goto,
     Disturbed
<1>5. CASE CreateAdd(d) \/ CreateCleanup(d)
  BY <1>0, <1>5 DEF CreateAdd, CreateCleanup, Disturbed, Return, Goto
<1> QED  BY <1>1, <1>2, <1>3, <1>4, <1>5 DEF RequestStep

\* A create that has added its checkout ends with a row for the directory or with
\* the directory gone, unless its client, the add or the cleanup failed it
\* (store_git_global.go:307-349, worktree.go:111).
THEOREM CreatesAreAllOrNothing == Spec => CreateIsAllOrNothing
<1> DEFINE Settled(c) ==
      \/ disk'[call[c].path] = None
      \/ \E r \in Rows : row'[r] \notin {None, Gone} /\ row'[r].path = call[c].path
      \/ faults' = faults + 1
    AllOrNothing ==
      \A c \in Calls :
       /\ call[c].op = "create" /\ (call[c].pc = "add" => disk' # disk)
       /\ call'[c] = Idle
       => Settled(c)
<1>1. ASSUME IInv, [Next]_vars  PROVE AllOrNothing
  <2> SUFFICES ASSUME NEW c \in Calls, call[c].op = "create", call[c].pc = "add" => disk' # disk,
                      call'[c] = Idle
               PROVE  Settled(c)
    OBVIOUS
  <2>0. /\ call \in [Calls -> CallType] /\ call[c] # Idle /\ call'[c] # call[c]
        /\ call[c].path \in Paths
    BY <1>1, CreateOf DEF IInv, TypeInv, Idle
  <2>1. ASSUME NEW d \in Calls, RequestStep(d)
        PROVE  d = c
    BY <1>1, <2>0, <2>1, OthersLeaveCreates DEF IInv
  <2>2. ~ \/ \E p, q \in Paths : MoveCheckout(p, q)
          \/ \E p \in Paths : RemoveCheckout(p)
          \/ \E p \in Paths, x \in Branches \cup {Detached} : Checkout(p, x)
    <3>1. call' # Disturbed(None)
      <4>1. Disturbed(None)[c] = call[c]
        BY <2>0 DEF Disturbed
      <4> QED  BY <2>0, <4>1
    <3> QED  BY <3>1 DEF MoveCheckout, RemoveCheckout, Checkout, OnDisk
  <2>3. ~ \E t \in Tasks : PickUp(t) \/ Finish(t)
    BY <2>0 DEF PickUp, Finish
  <2>4. Next
    BY <1>1, <2>0 DEF vars
  <2>5. RequestStep(c)
    BY <2>1, <2>2, <2>3, <2>4, WhoSteps
  <2>6. CreateCleanup(c) => Settled(c)
    <3>1. disk \in [Paths -> Checkouts]
      BY <1>1 DEF IInv, TypeInv
    <3> QED  BY <2>0, <3>1 DEF CreateCleanup, Fault
  <2>7. CreateAdd(c) => Settled(c)
    <3> SUFFICES ASSUME CreateAdd(c), disk' # disk  PROVE Settled(c)
      BY DEF CreateAdd
    <3>1. call' = [Disturbed(c) EXCEPT ![c].pc = "bind"] \/ Fault
      BY DEF CreateAdd
    <3>2. call[c] \in Creates /\ Disturbed(c)[c] = call[c] /\ c \in DOMAIN Disturbed(c)
      BY <1>1, <2>0, CreateOf, DisturbedKeeps DEF CreateAdd, IInv, TypeInv
    <3>3. call' # [Disturbed(c) EXCEPT ![c].pc = "bind"]
      <4>1. [call[c] EXCEPT !.pc = "bind"].op # "idle"
        BY <3>2 DEF Creates
      <4>2. [Disturbed(c) EXCEPT ![c].pc = "bind"][c] = [call[c] EXCEPT !.pc = "bind"]
        BY <3>2
      <4>3. call'[c].op = "idle"
        BY DEF Idle
      <4> DEFINE bound == [Disturbed(c) EXCEPT ![c].pc = "bind"]
      <4>4. bound[c].op # "idle"
        BY <4>1, <4>2
      <4> HIDE DEF bound
      <4>5. call' # bound
        BY <4>3, <4>4
      <4> QED  BY <4>5 DEF bound
    <3> QED  BY <3>1, <3>3 DEF Fault
  <2>8. ASSUME CreateInsert(c)  PROVE Settled(c)
    <3>1. AboutToInsert(call[c])
      BY <2>8 DEF CreateInsert, AboutToInsert
    <3>2. call[c].id \in BranchIds /\ Known(call[c].id)
      BY <1>1, <3>1, InsertOf DEF IInv, TypeInv, KnownInv
    <3>3. call' # [call EXCEPT ![c] = [op |-> "create", pc |-> "cleanup", path |-> call[c].path]]
      BY <2>0 DEF Idle
    <3>4. PICK rows \in Insert(call[c].path, call[c].id) : row' = rows
      BY <2>8, <3>3 DEF CreateInsert, WriteRow, Goto
    <3> QED  BY <1>1, <2>0, <3>2, <3>4, InsertedRows
  <2>9. ~CreateBind(c)
    <3> SUFFICES ASSUME CreateBind(c)  PROVE FALSE
      OBVIOUS
    <3>1. call[c] \in Creates
      BY <2>0, CreateOf DEF CreateBind
    <3>2. [call[c] EXCEPT !.pc = "cleanup"].op = "create"
      BY <3>1 DEF Creates
    <3>3. \/ call' = [call EXCEPT ![c] = [call[c] EXCEPT !.pc = "cleanup"]]
          \/ call' = [call EXCEPT ![c] = [op |-> "create", pc |-> "insert", path |-> call[c].path,
                                          id |-> BranchId(call[c].branch, ids')]]
      BY DEF CreateBind, Goto
    <3>4. call'[c].op = "create"
      <4>1. CASE call' = [call EXCEPT ![c] = [call[c] EXCEPT !.pc = "cleanup"]]
        <5>1. call'[c] = [call[c] EXCEPT !.pc = "cleanup"]
          BY <2>0, <4>1
        <5> QED  BY <3>2, <5>1
      <4>2. CASE call' = [call EXCEPT ![c] = [op |-> "create", pc |-> "insert", path |-> call[c].path,
                                             id |-> BranchId(call[c].branch, ids')]]
        BY <2>0, <4>2
      <4> QED  BY <3>3, <4>1, <4>2
    <3> QED  BY <3>4 DEF Idle
  <2>10. /\ ~BindTask(c) /\ ~ReconcileBranches(c) /\ ~ReconcileRows(c)
        /\ ~ReconcileCheck(c) /\ ~ReconcileCommit(c) /\ ~UnregisterDelete(c) /\ ~RegisterResolve(c)
        /\ ~RegisterInsert(c) /\ ~RelocateUpdate(c) /\ ~CreateBranchRow(c) /\ ~DeleteBranchRow(c)
    <3>1. call[c].op # "reconcile" /\ call[c].op # "bind" /\ call[c].op # "unregister"
          /\ call[c].op # "register" /\ call[c].op # "insert" /\ call[c].op # "relocate"
          /\ call[c].op # "newbranch" /\ call[c].op # "delbranch"
      OBVIOUS
    <3> QED  BY <3>1 DEF BindTask, ReconcileBranches, ReconcileRows, ReconcileCheck,
             ReconcileCommit, UnregisterDelete, RegisterResolve, RegisterInsert, RelocateUpdate,
             CreateBranchRow, DeleteBranchRow
  <2>11. ~Begun(c)
    BY <2>0 DEF Begun, Idle, BindValidate, ReconcileList, UnregisterGuard, CreateLookup, RegisterInventory,
       RelocateCheck, CreateBranchGit, DeleteBranchGit, Begin
  <2>12. Cut(c) => Settled(c)
    BY DEF Cut, Fault
  <2> QED  BY <2>5, <2>6, <2>8, <2>9, <2>10, <2>12, <2>7, <2>11 DEF RequestStep
<1>2. IInv /\ [Next]_vars => [AllOrNothing]_vars
  BY <1>1
<1>3. CreateIsAllOrNothing <=> [][AllOrNothing]_vars
  BY DEF CreateIsAllOrNothing
<1> QED  BY <1>2, <1>3, AlwaysIInv, PTL DEF Spec
=============================================================================

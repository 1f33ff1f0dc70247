----------------------------- MODULE MCTaskStore -----------------------------
(* Six small worlds of up to three tasks, each with the requests that stir  *)
(* what it is about.                                                         *)
EXTENDS TaskStore, TLC

CONSTANTS a, b, c, c1, c2, i1, i2

Row(status, pickup, gate) == [status |-> status, pickup |-> pickup, gate |-> gate]
Ready0 == Row("ready", 0, "none")

World(ra, rb, rc, es, items, asks, patches, calls, ticks, passes, restarts) ==
  [row   |-> (a :> ra) @@ (b :> rb) @@ (c :> rc),
   edges |-> es,
   crit  |-> [t \in Tasks |-> IF t = a THEN items ELSE {}],
   bound |-> [asks |-> asks, patches |-> patches, calls |-> calls,
             ticks |-> ticks, passes |-> passes, restarts |-> restarts]]

Patch(field, to) == [field |-> field, to |-> to]

MCWorlds ==
  { \* c waits for a and b, which finish or are marked done while others are edited
    World(Ready0, Ready0, Ready0, {<<c, a>>, <<c, b>>}, {}, {"patch", "delete"},
          {Patch("title", ""), Patch("status", "done")}, 1, 0, 2, 0),
    \* a chain of three, rewired by two requests
    World(Ready0, Ready0, Ready0, {<<c, b>>, <<b, a>>}, {}, {"depend", "remove", "replace"}, {}, 2, 0, 1, 0),
    \* b waits for a, which has a criterion
    World(Ready0, Ready0, Absent, {<<b, a>>}, {i1}, {"item", "undo", "delete"}, {}, 2, 0, 2, 0),
    \* a is scheduled
    World(Row("ready", 2, "none"), Absent, Absent, {}, {}, {"patch"},
          {Patch("title", ""), Patch("pickup", "soon"), Patch("pickup", "later"), Patch("pickup", "clear"),
           Patch("status", "on_hold"), Patch("status", "ready")}, 2, 2, 1, 0),
    \* a is scheduled and waits at its gate; the process dies once
    World(Row("ready", 2, "pending"), Absent, Absent, {}, {}, {"gate", "patch", "retry"},
          {Patch("gate", "held"), Patch("gate", "none")}, 3, 1, 1, 1),
    \* b and c are still to be created
    World(Ready0, Absent, Absent, {}, {}, {"create", "retry"}, {}, 2, 0, 1, 0)
  }

Symmetry == Permutations(Calls)
=============================================================================

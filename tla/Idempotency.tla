----------------------------- MODULE Idempotency -----------------------------
(****************************************************************************)
(* Requests with an Idempotency-Key (pkgs/tasks/middleware, idempotency.go  *)
(* and idempotency_cache.go): look the composite key up, and on a miss join *)
(* or lead the singleflight of that key; the leader runs the handler and    *)
(* caches a response of status 200, 201 or 204. The lookup and the flight   *)
(* are two critical sections. The cache holds at most MaxEntries responses  *)
(* and MaxBytes of bodies and evicts the oldest; entries expire.            *)
(****************************************************************************)
EXTENDS Integers, Sequences, FiniteSets, FiniteSetsExt, Subsequences

CONSTANTS
  Requests,    \* requests, each made once: a retry is another request
  Keys,        \* composite keys: method, path, header and body
  Sizes,       \* sizes a response body may have
  MaxEntries,  \* HAMIX_IDEMPOTENCY_MAX_ENTRIES, 0 for no limit
  MaxBytes,    \* HAMIX_IDEMPOTENCY_MAX_BYTES, 0 for no limit
  NoKey        \* the key of a request not made yet, the leader of no flight

ASSUME IdempotencyAssumption ==
  Sizes \subseteq Nat /\ MaxEntries \in Nat /\ MaxBytes \in Nat /\ NoKey \notin Requests

VARIABLES
  cache,      \* idempotencyCache.items, by seq: oldest first
  totalBytes, \* idempotencyCache.totalBytes
  flight,     \* idempSF: the leader of each key
  req,        \* where each request stands
  ran,        \* keys whose handler has taken effect
  forgotten,  \* ran, and no response is kept: expired, evicted or not cacheable
  gap         \* requests that missed the cache before a flight they did not join ended

idempVars == <<cache, totalBytes, flight, req, ran, forgotten, gap>>

IdempInit ==
  /\ cache = <<>> /\ totalBytes = 0
  /\ flight = [k \in Keys |-> NoKey]
  /\ req = [c \in Requests |-> [pc |-> "new", key |-> NoKey]]
  /\ ran = {} /\ forgotten = {} /\ gap = {}

Without(total, size) == IF total < size THEN 0 ELSE total - size

Entry(k) == {i \in DOMAIN cache : cache[i].key = k}

\* A request, its key computed: a live entry answers it, an expired one is deleted.
Lookup(c, k) ==
  /\ req[c].pc = "new"
  /\ IF \E i \in Entry(k) : ~cache[i].expired
     THEN /\ req' = [req EXCEPT ![c] = [pc |-> "done", key |-> k]]
          /\ UNCHANGED <<cache, totalBytes>>
     ELSE /\ req' = [req EXCEPT ![c] = [pc |-> "missed", key |-> k]]
          /\ cache' = Selected(cache, DOMAIN cache \ Entry(k))
          /\ totalBytes' = Without(totalBytes, Bytes(Selected(cache, Entry(k))))
  /\ UNCHANGED <<flight, ran, forgotten, gap>>

\* singleflight: lead, or wait for the one that leads.
DoAlone(c) ==
  LET k == req[c].key IN
  /\ req[c].pc = "missed"
  /\ flight' = [flight EXCEPT ![k] = c] /\ req' = [req EXCEPT ![c].pc = "run"]
  /\ UNCHANGED <<cache, totalBytes, ran, forgotten, gap>>

Do(c) ==
  LET k == req[c].key IN
  /\ req[c].pc = "missed"
  /\ IF flight[k] = NoKey
     THEN flight' = [flight EXCEPT ![k] = c] /\ req' = [req EXCEPT ![c].pc = "run"]
     ELSE req' = [req EXCEPT ![c].pc = "wait"] /\ UNCHANGED flight
  /\ UNCHANGED <<cache, totalBytes, ran, forgotten, gap>>

\* The handler takes effect. It may still answer with an error afterwards.
Effect(c) ==
  /\ req[c].pc = "run"
  /\ req' = [req EXCEPT ![c].pc = "ran"]
  /\ ran' = ran \cup {req[c].key}
  /\ UNCHANGED <<cache, totalBytes, flight, forgotten, gap>>

\* The flight ends for its leader and for all that wait.
EndFlight(c) ==
  LET k == req[c].key IN
  /\ flight' = [flight EXCEPT ![k] = NoKey]
  /\ req' = [r \in Requests |->
               IF r = c \/ (req[r].key = k /\ req[r].pc = "wait") THEN [pc |-> "done", key |-> k]
               ELSE req[r]]
  /\ gap' = gap \cup {r \in Requests : req[r].key = k /\ req[r].pc = "missed"}

\* No effect, or an effect and a status that is not cached.
Answer(c) ==
  /\ req[c].pc \in {"run", "ran"}
  /\ EndFlight(c)
  /\ forgotten' = IF req[c].pc = "ran" THEN forgotten \cup {req[c].key} ELSE forgotten
  /\ UNCHANGED <<cache, totalBytes, ran>>

Within(n, limit) == limit = 0 \/ n <= limit

\* enforceLimitsLocked: how many of the oldest entries have to go.
Surplus(entries, total) ==
  Min({n \in 0..Len(entries) :
         \/ n = Len(entries)
         \/ /\ Within(Len(entries) - n, MaxEntries)
            /\ Within(Without(total, Bytes(SubSeq(entries, 1, n))), MaxBytes)})

KeysOf(entries) == {entries[i].key : i \in DOMAIN entries}

Expired(entries) == {i \in DOMAIN entries : entries[i].expired}

Store(c, size, prune, replaced) ==
  LET k == req[c].key
      entries == Append(Selected(cache, DOMAIN cache \ Entry(k)), [key |-> k, size |-> size, expired |-> FALSE])
      kept == IF prune THEN Selected(entries, DOMAIN entries \ Expired(entries)) ELSE entries
      pruned == IF prune THEN Bytes(Selected(entries, Expired(entries))) ELSE 0
      total == Without(Without(totalBytes, replaced) + size, pruned)
      n == Surplus(kept, total)
  IN /\ req[c].pc = "ran"
     /\ EndFlight(c)
     /\ cache' = SubSeq(kept, n + 1, Len(kept))
     /\ totalBytes' = Without(total, Bytes(SubSeq(kept, 1, n)))
     /\ forgotten' = (forgotten \ {k}) \cup KeysOf(SubSeq(kept, 1, n))
     /\ UNCHANGED ran

SettleKeepsOldSize(c, size, prune) == Store(c, size, prune, 0)

\* idempotencyCache.set in place of any older entry, the pruning that every 256th
\* call does, the eviction of the oldest; the flight ends right after.
Settle(c, size, prune) ==
  Store(c, size, prune, Bytes(Selected(cache, Entry(req[c].key))))

\* HAMIX_IDEMPOTENCY_TTL passes for the oldest entry that is still good.
Expire ==
  /\ \E i \in DOMAIN cache :
       /\ \A j \in DOMAIN cache : ~cache[j].expired => j >= i
       /\ ~cache[i].expired
       /\ cache' = [cache EXCEPT ![i].expired = TRUE]
       /\ forgotten' = forgotten \cup {cache[i].key}
  /\ UNCHANGED <<totalBytes, flight, req, ran, gap>>

\* The process restarts: requests in flight fail, the cache is lost.
RestartIdempotency ==
  /\ cache' = <<>> /\ totalBytes' = 0
  /\ flight' = [k \in Keys |-> NoKey]
  /\ req' = [c \in Requests |-> IF req[c].pc = "new" THEN req[c] ELSE [pc |-> "done", key |-> req[c].key]]
  /\ forgotten' = ran
  /\ UNCHANGED <<ran, gap>>

----------------------------------------------------------------------------
(* Properties                                                               *)

\* The byte count the eviction relies on is the sum of the bodies held, and both
\* limits hold, through overwrites, expiry, pruning and eviction
\* (enforceLimitsLocked, idempotency_cache.go:99).
CacheAddsUp ==
  /\ totalBytes = Bytes(cache)
  /\ Within(Len(cache), MaxEntries) /\ Within(totalBytes, MaxBytes)
  /\ Cardinality(KeysOf(cache)) = Len(cache)

\* "Concurrent identical requests share one handler execution" (idempotency.go:219)
\* and later ones get its response: a handler takes effect again only when the
\* response is not kept any more, or for a request that had missed the cache
\* before an earlier flight of its key ended and came to the flight after.
RunsOnce ==
  [][\A c \in Requests : req[c].pc = "run" /\ req'[c].pc = "ran" /\ req[c].key \in ran =>
       c \in gap \/ req[c].key \in forgotten]_idempVars
=============================================================================

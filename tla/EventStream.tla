----------------------------- MODULE EventStream -----------------------------
(****************************************************************************)
(* The event stream (pkgs/tasks/handler, sse_hub.go and sse_stream.go) and  *)
(* one browser that follows it.                                             *)
(*                                                                          *)
(* A change is committed first and published after. Publish takes the hub's *)
(* mutex twice or three times, never across its steps: to coalesce, to      *)
(* append to the ring and copy the subscribers, to evict; the id is drawn   *)
(* from an atomic counter in between, and the sends happen outside.         *)
(*                                                                          *)
(* EventSource keeps the id of the last frame it received and sends it as   *)
(* Last-Event-ID when it reconnects. A frame is a hint: the browser fetches *)
(* what it names; a resync frame makes it fetch everything.                 *)
(****************************************************************************)
EXTENDS Integers, Sequences, FiniteSets, Subsequences

CONSTANTS
  Publishers,  \* goroutines that publish
  RingSize,    \* frames kept for replay
  SubBuf,      \* frames buffered for a subscriber
  MaxConns,    \* bound: connections of the browser
  NoPub        \* a goroutine that is not in Publish

\* NewSSEHubWith replaces sizes that are not positive.
ASSUME SizesAssumption == RingSize \in Nat \ {0} /\ SubBuf \in Nat \ {0} /\ MaxConns \in Nat

\* A goroutine in Publish: the change, and the subscribers still to send to.
Publishing == [pc : {"coalesce", "id", "append"}, change : Nat]
              \cup [pc : {"send"}, change : Nat, to : SUBSET (1..MaxConns)]

ASSUME NoPubAssumption == NoPub \notin Publishing

VARIABLES
  commits,   \* changes committed so far, numbered from 1
  nextId,    \* SSEHub.nextID
  ring,      \* SSEHub.ring, oldest first
  window,    \* the coalesce window of the hint key is open
  pub,       \* where each Publish stands
  conn,      \* the subscribers, one for each connection
  cur,       \* the connection in use
  streaming, \* streamEvents still serves it
  cursor,    \* Last-Event-ID and the process it comes from
  epoch,     \* restarts of the process
  known,     \* changes the browser has fetched
  idOf,      \* id of the frame of each change, 0 when it has none
  excused    \* changes the stream may have lost, see LossIsExcused

streamVars == <<commits, nextId, ring, window, pub, conn, cur, streaming, cursor,
                epoch, known, idOf, excused>>

NewSubscriber == [registered |-> FALSE, evicted |-> FALSE, buf |-> <<>>, todo |-> <<>>]

StreamInit ==
  /\ commits = 0 /\ nextId = 0 /\ epoch = 0
  /\ ring = <<>> /\ idOf = <<>>
  /\ window = FALSE
  /\ pub = [p \in Publishers |-> NoPub]
  /\ conn = [i \in 1..MaxConns |-> NewSubscriber]
  /\ cur = 0 /\ streaming = FALSE
  /\ cursor = [id |-> 0, epoch |-> 0]
  /\ known = {} /\ excused = {}

----------------------------------------------------------------------------
(* Publish                                                                  *)

\* The caller has committed a change and calls Publish.
CommitChange(p) ==
  /\ pub[p] = NoPub
  /\ commits' = commits + 1
  /\ idOf' = Append(idOf, 0)
  /\ pub' = [pub EXCEPT ![p] = [pc |-> "coalesce", change |-> commits + 1]]
  /\ UNCHANGED <<nextId, ring, window, conn, cur, streaming, cursor, epoch, known, excused>>

\* A hint-only frame inside the window of an equal one is dropped, although the
\* change it stands for may be newer than what the browser fetched for that one.
Coalesce(p, hint) ==
  /\ pub[p] # NoPub /\ pub[p].pc = "coalesce"
  /\ IF hint /\ window
     THEN /\ pub' = [pub EXCEPT ![p] = NoPub]
          /\ excused' = excused \cup {pub[p].change}
          /\ UNCHANGED window
     ELSE /\ pub' = [pub EXCEPT ![p].pc = "id"]
          /\ window' = (window \/ hint)
          /\ UNCHANGED excused
  /\ UNCHANGED <<commits, nextId, ring, conn, cur, streaming, cursor, epoch, known, idOf>>

WindowPasses ==
  /\ window
  /\ window' = FALSE
  /\ UNCHANGED <<commits, nextId, ring, pub, conn, cur, streaming, cursor, epoch, known, idOf, excused>>

AllocateId(p) ==
  /\ pub[p] # NoPub /\ pub[p].pc = "id"
  /\ nextId' = nextId + 1
  /\ idOf' = [idOf EXCEPT ![pub[p].change] = nextId + 1]
  /\ pub' = [pub EXCEPT ![p].pc = "append"]
  /\ UNCHANGED <<commits, ring, window, conn, cur, streaming, cursor, epoch, known, excused>>

FrameIn(change, seq) == \E i \in DOMAIN seq : seq[i].change = change

\* Changes of this process whose frame is in the ring or was.
Appended ==
  {c \in 1..commits : idOf[c] > 0 /\ ~ \E p \in Publishers :
     pub[p] # NoPub /\ pub[p].change = c /\ pub[p].pc = "append"}

\* appendRingLocked, and the copy of the subscribers, under one lock. Ids need not
\* arrive in order; a frame that has left while a smaller id is the oldest in the ring
\* leaves no gap to see.
AppendRing(p) ==
  /\ pub[p] # NoPub /\ pub[p].pc = "append"
  /\ LET change == pub[p].change
         full == Append(ring, [id |-> idOf[change], change |-> change])
         kept == IF Len(full) > RingSize THEN Tail(full) ELSE full
     IN /\ ring' = kept
        /\ excused' = excused \cup {c \in Appended : idOf[c] > Head(kept).id /\ ~FrameIn(c, kept)}
        /\ pub' = [pub EXCEPT ![p] = [pc |-> "send", change |-> change,
                     to |-> {i \in DOMAIN conn : conn[i].registered}]]
  /\ UNCHANGED <<commits, nextId, window, conn, cur, streaming, cursor, epoch, known, idOf>>

Sent(p, to) == pub' = [pub EXCEPT ![p] = IF to = {} THEN NoPub ELSE [@ EXCEPT !.to = to]]

\* Nobody reads the buffer of an ended stream any more.
Served(i) == streaming /\ i = cur

SendDrops(p) ==
  /\ pub[p] # NoPub /\ pub[p].pc = "send"
  /\ \/ pub[p].to = {} /\ Sent(p, {}) /\ UNCHANGED conn
     \/ \E i \in pub[p].to :
          /\ conn' = IF ~Served(i) THEN conn
                     ELSE IF Len(conn[i].buf) < SubBuf
                     THEN [conn EXCEPT ![i].buf = Append(@, [id |-> idOf[pub[p].change], change |-> pub[p].change])]
                     ELSE conn
          /\ Sent(p, pub[p].to \ {i})
  /\ UNCHANGED <<commits, nextId, ring, window, cur, streaming, cursor, epoch, known, idOf, excused>>

\* One subscriber of the copy: its buffer takes the frame, or evictSubscriber.
Send(p) ==
  /\ pub[p] # NoPub /\ pub[p].pc = "send"
  /\ \/ pub[p].to = {} /\ Sent(p, {}) /\ UNCHANGED conn
     \/ \E i \in pub[p].to :
          /\ conn' = IF ~Served(i) THEN conn
                     ELSE IF Len(conn[i].buf) < SubBuf
                     THEN [conn EXCEPT ![i].buf = Append(@, [id |-> idOf[pub[p].change], change |-> pub[p].change])]
                     ELSE IF conn[i].registered
                     THEN [conn EXCEPT ![i].registered = FALSE, ![i].evicted = TRUE]
                     ELSE conn
          /\ Sent(p, pub[p].to \ {i})
  /\ UNCHANGED <<commits, nextId, ring, window, cur, streaming, cursor, epoch, known, idOf, excused>>

----------------------------------------------------------------------------
(* streamEvents, and the browser at the other end                           *)

Resync == [id |-> 0, change |-> 0]

\* snapshotSinceLocked: the retained frames newer than the cursor, or a gap.
HasGap(since) == ring # <<>> /\ since < Head(ring).id - 1

Replay(since) == Selected(ring, {i \in DOMAIN ring : ring[i].id > since})

\* Nothing ties an absent or a foreign cursor to this ring.
BlindCursor == cursor.id = 0 \/ cursor.epoch # epoch

\* subscribe: the snapshot and the registration under one lock.
Subscribe ==
  /\ ~streaming /\ cur < MaxConns
  /\ cur' = cur + 1 /\ streaming' = TRUE
  /\ conn' = [conn EXCEPT ![cur + 1] =
       [registered |-> TRUE, evicted |-> FALSE, buf |-> <<>>,
        todo |-> IF cursor.id = 0 THEN <<>>
                 ELSE IF HasGap(cursor.id) THEN <<Resync>>
                 ELSE Replay(cursor.id)]]
  /\ excused' = IF BlindCursor THEN excused \cup Appended ELSE excused
  /\ UNCHANGED <<commits, nextId, ring, window, pub, cursor, epoch, known, idOf>>

\* The browser fetches what the frame names. Frames of smaller ids that come
\* later are behind its cursor from now on.
Receive(f) ==
  IF f = Resync
  THEN known' = 1..commits /\ UNCHANGED <<cursor, excused>>
  ELSE /\ known' = known \cup {f.change}
       /\ cursor' = [id |-> f.id, epoch |-> epoch]
       /\ excused' = excused \cup {c \in 1..commits : idOf[c] \in 1..(f.id - 1) /\ c \notin known}

WriteReplay ==
  /\ streaming /\ conn[cur].todo # <<>>
  /\ Receive(Head(conn[cur].todo))
  /\ conn' = [conn EXCEPT ![cur].todo = Tail(@)]
  /\ UNCHANGED <<commits, nextId, ring, window, pub, cur, streaming, epoch, idOf>>

WriteLive ==
  /\ streaming /\ conn[cur].todo = <<>> /\ conn[cur].buf # <<>>
  /\ Receive(Head(conn[cur].buf))
  /\ conn' = [conn EXCEPT ![cur].buf = Tail(@)]
  /\ UNCHANGED <<commits, nextId, ring, window, pub, cur, streaming, epoch, idOf>>

\* The deferred cancel of streamEvents; frames still in the buffer are gone.
EndStream ==
  /\ streaming' = FALSE
  /\ conn' = [conn EXCEPT ![cur] = NewSubscriber]

\* The eviction may be taken while frames are still in the buffer.
WriteEvicted ==
  /\ streaming /\ conn[cur].todo = <<>> /\ conn[cur].evicted
  /\ Receive(Resync)
  /\ EndStream
  /\ UNCHANGED <<commits, nextId, ring, window, pub, cur, epoch, idOf>>

\* The connection drops, before whatever the server would have written next.
Disconnect ==
  /\ streaming
  /\ EndStream
  /\ UNCHANGED <<commits, nextId, ring, window, pub, cur, cursor, epoch, known, idOf, excused>>

\* The process ends and starts again with an empty hub, whose ids restart at 1.
RestartHub ==
  /\ epoch' = epoch + 1
  /\ nextId' = 0 /\ ring' = <<>> /\ window' = FALSE
  /\ pub' = [p \in Publishers |-> NoPub]
  /\ conn' = [i \in 1..MaxConns |-> NewSubscriber]
  /\ streaming' = FALSE
  /\ idOf' = [c \in 1..commits |-> 0]
  /\ excused' = 1..commits
  /\ UNCHANGED <<commits, cur, cursor, known>>

StreamNext ==
  \/ Subscribe
  \/ WriteReplay
  \/ WriteLive
  \/ WriteEvicted
  \/ Disconnect
  \/ WindowPasses
  \/ \E p \in Publishers :
       \/ \E hint \in BOOLEAN : Coalesce(p, hint)
       \/ AllocateId(p)
       \/ AppendRing(p)
       \/ Send(p)

----------------------------------------------------------------------------
(* Properties                                                               *)

\* The browser is going to learn of the change without anything else happening.
OnItsWay(change) ==
  IF streaming
  THEN \/ conn[cur].evicted
       \/ FrameIn(0, conn[cur].todo)
       \/ FrameIn(change, conn[cur].todo) \/ FrameIn(change, conn[cur].buf)
       \/ \E p \in Publishers : pub[p] # NoPub /\ pub[p].pc = "send" /\ pub[p].change = change /\ cur \in pub[p].to
  ELSE BlindCursor \/ HasGap(cursor.id) \/ FrameIn(change, Replay(cursor.id))

\* However connections drop, buffers fill up and the ring turns over, a published
\* change reaches the browser as a frame or under a resync. "The /events stream is
\* semantically lossless" (sse_hub.go:40) but for what the code does give up:
\* a change coalesced away, a frame out of the order of ids on the wire or in the
\* ring, and what was published before a subscription whose cursor is absent or of an earlier process.
LossIsExcused ==
  \A c \in Appended : c \in known \cup excused \/ OnItsWay(c)
=============================================================================

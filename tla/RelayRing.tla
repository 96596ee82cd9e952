----------------------------- MODULE RelayRing -----------------------------
(***************************************************************************)
(* One channel's in-memory buffer (relay/buffer/ring.go) together with the *)
(* two sides that use it: the channel's run loop, which feeds it one       *)
(* upstream connection after another (relay/channel/channel.go,            *)
(* boundary.go, advance.go), and the client goroutines that read it        *)
(* (httpapi/stream.go, serveClient).                                       *)
(*                                                                         *)
(* Every method of the ring holds r.mu for its whole body, so each is one  *)
(* action.  What is NOT atomic is what the callers do with it: Read and    *)
(* Wait are two calls, MarkBoundary and the recording of its result are    *)
(* two locks, and an operator's switch resets the packetiser while the     *)
(* attempt it replaces is still writing.                                   *)
(***************************************************************************)
EXTENDS Integers, Sequences, SequencesExt

CONSTANTS
  Readers,           \* the client goroutines
  TSPacketSize,      \* bytes of one transport stream packet (188)
  ChunkBytes,        \* the ring's write unit (Config.ChunkBytes)
  Capacity,          \* resident chunks, chunksFor(BudgetBytes, chunkBytes)
  Retention,         \* age bound of a resident chunk, in clock units
  MaxChunksPerRead,  \* the cap of one Read (20)
  MaxBoundaries,     \* how many source boundaries a channel remembers (64)
  JoinBehinds,       \* the values of Tuning.JoinBehind that are tried
  MaxWrite,          \* bound: bytes of one Write
  MaxBytes,          \* bound: bytes the upstreams send in all
  MaxConn,           \* bound: upstream connections
  MaxNow             \* bound: the clock

ASSUME ConstantsAssumption ==
  /\ TSPacketSize \in Nat \ {0}
  /\ ChunkBytes \in Nat \ {0}
  /\ Capacity \in Nat \ {0}
  /\ Retention \in Nat \ {0}
  /\ MaxChunksPerRead \in Nat \ {0}
  /\ MaxBoundaries \in Nat \ {0}
  /\ JoinBehinds \subseteq Nat
  /\ MaxWrite \in Nat /\ MaxBytes \in Nat /\ MaxConn \in Nat /\ MaxNow \in Nat

\* ChunkBytes = TSPacketSize * 1361, which the control plane's setting is pinned to.
ASSUME ChunksArePackets == \E k \in 1..ChunkBytes : ChunkBytes = k * TSPacketSize

VARIABLES
  chunks,      \* the store, oldest first
  head,        \* the highest index ever published
  partial,     \* the tail of the stream that is not yet a whole packet
  pending,     \* whole packets that are not yet a full chunk
  closed,      \* Close was called
  total,       \* bytes handed to the ring
  now,         \* the injectable clock
  phase,       \* the run loop: idle, marked, attempt, ended
  conn,        \* upstream connections begun so far
  sent,        \* bytes the running connection has sent
  mark,        \* what MarkBoundary returned, until it is recorded
  boundaries,  \* boundaryLog.boundaries
  pc,          \* per reader: out, reading, empty, waiting, closing, ended, left
  cursor,      \* per reader: the last consumed index
  woken,       \* per reader: the notify channel it subscribed to is closed
  log,         \* history: the data of every chunk ever published, by index
  from,        \* history: the cursor the reader joined at
  got,         \* history: what the reader was handed
  lost         \* history: how many indices Read reported skipped

ringVars   == <<chunks, head, partial, pending, closed, total, log>>
loopVars   == <<phase, conn, sent, mark, boundaries>>
readerVars == <<pc, cursor, woken, from, got, lost>>
vars == <<ringVars, now, loopVars, readerVars>>

\* A byte is known by the connection that sent it and its place in that
\* connection's stream: the properties tell nothing else apart.
Byte  == [conn : Nat, off : Nat]
Chunk == [index : Nat, at : Nat, data : Seq(Byte)]

Lower(a, b)  == IF a < b THEN a ELSE b
Higher(a, b) == IF a > b THEN a ELSE b

\* The whole units in n bytes, as Go's integer division counts them.
Whole(n, unit) == n \div unit

TypeOK ==
  /\ chunks \in Seq(Chunk)
  /\ head \in Nat
  /\ partial \in Seq(Byte) /\ pending \in Seq(Byte)
  /\ closed \in BOOLEAN
  /\ total \in Nat
  /\ now \in Nat
  /\ phase \in {"idle", "marked", "attempt", "ended"}
  /\ conn \in Nat /\ sent \in Nat /\ mark \in Nat
  /\ boundaries \in Seq(Nat)
  /\ pc \in [Readers -> {"out", "reading", "empty", "waiting", "closing",
                         "ended", "left"}]
  /\ cursor \in [Readers -> Nat]
  /\ woken \in [Readers -> BOOLEAN]
  /\ log \in Seq(Seq(Byte))
  /\ from \in [Readers -> Nat]
  /\ got \in [Readers -> Seq(Seq(Byte))]
  /\ lost \in [Readers -> Nat]

Init ==
  /\ chunks = << >> /\ head = 0 /\ log = << >>
  /\ partial = << >> /\ pending = << >>
  /\ closed = FALSE /\ total = 0 /\ now = 0
  /\ phase = "idle" /\ conn = 0 /\ sent = 0 /\ mark = 0
  /\ boundaries = << >>
  /\ pc = [r \in Readers |-> "out"]
  /\ cursor = [r \in Readers |-> 0]
  /\ woken = [r \in Readers |-> FALSE]
  /\ from = [r \in Readers |-> 0]
  /\ got = [r \in Readers |-> << >>]
  /\ lost = [r \in Readers |-> 0]

----------------------------------------------------------------------------
(* Publishing.  evictLocked drops the expired prefix of the store, then    *)
(* the oldest chunks until there is room; a call that publishes several    *)
(* chunks does so before each of them, which leaves the last Capacity of   *)
(* what the expiry kept.                                                   *)

Expired(c) == c.at < now - Retention

\* The length of the store's expired prefix.
IsExpiredPrefix(n) ==
  /\ \A i \in 1..n : Expired(chunks[i])
  /\ n < Len(chunks) => ~Expired(chunks[n + 1])

Evicted(aged, n) == Higher(aged, n - Capacity)

Stamped(datas) ==
  [i \in 1..Len(datas) |-> [index |-> head + i, at |-> now, data |-> datas[i]]]

\* Mutant: the notify channel is not closed after a publish.
PublishSilently(datas) ==
  \/ Len(datas) = 0 /\ UNCHANGED <<chunks, head, log, woken>>
  \/ /\ Len(datas) > 0
     /\ \E aged \in 0..Len(chunks) :
          /\ IsExpiredPrefix(aged)
          /\ LET all == chunks \o Stamped(datas)
             IN  chunks' = SubSeq(all, 1 + Evicted(aged, Len(all)), Len(all))
     /\ head' = head + Len(datas) /\ log' = log \o datas
     /\ UNCHANGED woken

\* Publish a sequence of chunk data; every reader that is subscribed to the
\* current notify channel is woken when anything was published.
Publish(datas) ==
  \/ /\ Len(datas) = 0
     /\ UNCHANGED <<chunks, head, log, woken>>
  \/ /\ Len(datas) > 0
     /\ \E aged \in 0..Len(chunks) :
          /\ IsExpiredPrefix(aged)
          /\ LET all == chunks \o Stamped(datas)
             IN  chunks' = SubSeq(all, 1 + Evicted(aged, Len(all)), Len(all))
     /\ head' = head + Len(datas)
     /\ log' = log \o datas
     /\ woken' = [r \in Readers |-> TRUE]

\* The full chunks cut from the pending packets, and what stays pending.
FullChunks(packets) ==
  [i \in 1..Whole(Len(packets), ChunkBytes) |->
     SubSeq(packets, (i - 1) * ChunkBytes + 1, i * ChunkBytes)]

\* Mutant: the carry starts at the last byte already consumed.
LeftoverOverlaps(bytes, unit) ==
  SubSeq(bytes, Higher(1, Whole(Len(bytes), unit) * unit), Len(bytes))

Leftover(bytes, unit) ==
  SubSeq(bytes, Whole(Len(bytes), unit) * unit + 1, Len(bytes))

WholePart(bytes, unit) == SubSeq(bytes, 1, Whole(Len(bytes), unit) * unit)

----------------------------------------------------------------------------
(* The run loop's side.                                                    *)

Tick ==
  /\ now < MaxNow
  /\ now' = now + 1
  /\ UNCHANGED <<ringVars, loopVars, readerVars>>

\* Mutant: the carried partial packet survives the boundary.
MarkBoundaryKeepsPartial ==
  /\ phase = "idle" /\ conn < MaxConn
  /\ phase' = "marked"
  /\ conn' = conn + 1 /\ sent' = 0
  /\ pending' = << >> /\ UNCHANGED partial
  /\ Publish(IF Len(pending) > 0 /\ ~closed THEN <<pending>> ELSE << >>)
  /\ mark' = head' + 1
  /\ UNCHANGED <<closed, total, now, boundaries, pc, cursor, from, got, lost>>

\* runAttempt opens a connection: the ring ends the previous byte stream,
\* publishing its whole packets as one short chunk and dropping the rest.
MarkBoundary ==
  /\ phase = "idle" /\ conn < MaxConn
  /\ phase' = "marked"
  /\ conn' = conn + 1 /\ sent' = 0
  /\ partial' = << >> /\ pending' = << >>
  /\ Publish(IF Len(pending) > 0 /\ ~closed THEN <<pending>> ELSE << >>)
  /\ mark' = head' + 1
  /\ UNCHANGED <<closed, total, now, boundaries, pc, cursor, from, got, lost>>

\* Mutant: a boundary right after the previous one is taken for the same.
RecordBoundaryMerges ==
  /\ phase = "marked"
  /\ phase' = "attempt"
  /\ boundaries' = IF Len(boundaries) > 0 /\ Last(boundaries) + 1 >= mark
                    THEN boundaries ELSE Append(boundaries, mark)
  /\ UNCHANGED <<ringVars, now, conn, sent, mark, readerVars>>

\* recordBoundary, under boundaryMu and not under the ring's lock.
RecordBoundary ==
  /\ phase = "marked"
  /\ phase' = "attempt"
  /\ boundaries' =
       IF Len(boundaries) > 0 /\ Last(boundaries) >= mark
       THEN boundaries
       ELSE LET grown == Append(boundaries, mark)
            IN  SubSeq(grown, 1 + Higher(0, Len(grown) - MaxBoundaries), Len(grown))
  /\ UNCHANGED <<ringVars, now, conn, sent, mark, readerVars>>

\* The running source hands the ring n bytes.
Write(n) ==
  /\ phase = "attempt" /\ ~closed
  /\ total + n <= MaxBytes
  /\ LET fresh    == [i \in 1..n |-> [conn |-> conn, off |-> sent + i]]
         combined == partial \o fresh
         packets  == pending \o WholePart(combined, TSPacketSize)
     IN  /\ partial' = Leftover(combined, TSPacketSize)
         /\ pending' = Leftover(packets, ChunkBytes)
         /\ Publish(FullChunks(packets))
  /\ total' = total + n
  /\ sent' = sent + n
  /\ UNCHANGED <<closed, now, phase, conn, mark, boundaries,
                 pc, cursor, from, got, lost>>

\* source.Run returned: an upstream end, an error, or a cancelled attempt.
EndAttempt ==
  /\ phase = "attempt"
  /\ phase' = "idle"
  /\ UNCHANGED <<ringVars, now, conn, sent, mark, boundaries, readerVars>>

\* applySwitch.  The run loop's own failover makes it between attempts; the
\* buffering failover and an operator's Advance make it from a goroutine of
\* their own, whatever the run loop is doing, and cancel the attempt later.
ResetPosition ==
  /\ partial' = << >> /\ pending' = << >>
  /\ UNCHANGED <<chunks, head, closed, total, log, now, phase, conn, sent, mark,
                 boundaries, readerVars>>

\* The run loop returned and its deferred ring.Close ran.
Close ==
  /\ phase = "idle"
  /\ phase' = "ended"
  /\ closed' = TRUE
  /\ woken' = [r \in Readers |-> TRUE]
  /\ UNCHANGED <<chunks, head, partial, pending, total, log, now, conn, sent, mark,
                 boundaries, pc, cursor, from, got, lost>>

----------------------------------------------------------------------------
(* The readers' side: serveClient.                                         *)

\* Join's cursor: just before the newest chunk at least `behind' old, or
\* before the oldest chunk when none is; the head of an empty ring.
IsJoinCursor(behind, c) ==
  LET Old(i) == chunks[i].at <= now - behind
  IN  \/ Len(chunks) = 0 /\ c = head
      \/ \E i \in 1..Len(chunks) :
           /\ Old(i) /\ \A j \in (i + 1)..Len(chunks) : ~Old(j)
           /\ c = chunks[i].index - 1
      \/ /\ Len(chunks) > 0 /\ \A i \in 1..Len(chunks) : ~Old(i)
         /\ c = chunks[1].index - 1

Join(r, behind) ==
  /\ pc[r] = "out"
  /\ \E start \in 0..head :
       /\ IF behind = 0 THEN start = head ELSE IsJoinCursor(behind, start)
       /\ cursor' = [cursor EXCEPT ![r] = start]
       /\ from' = [from EXCEPT ![r] = start]
  /\ pc' = [pc EXCEPT ![r] = "reading"]
  /\ UNCHANGED <<ringVars, now, loopVars, woken, got, lost>>

\* Mutant: the first chunk past the cursor is passed over.
IsBatchPassesOver(c, first, last) ==
  /\ chunks[first].index > c + 1
  /\ \A i \in 1..(first - 1) : chunks[i].index <= c + 1
  /\ last = Lower(Len(chunks), first + MaxChunksPerRead - 1)

\* The store's positions [first, last] that Read(c) returns.
IsBatch(c, first, last) ==
  /\ chunks[first].index > c
  /\ \A i \in 1..(first - 1) : chunks[i].index <= c
  /\ last = Lower(Len(chunks), first + MaxChunksPerRead - 1)

Fresh(c) == \E i \in 1..Len(chunks) : chunks[i].index > c

\* The state a Read leaves behind when it returned something.
Deliver(r) ==
  \E first, last \in 1..Len(chunks) :
    /\ IsBatch(cursor[r], first, last)
    /\ cursor' = [cursor EXCEPT ![r] = chunks[last].index]
    /\ got' = [got EXCEPT ![r] =
                 @ \o [i \in 1..(last - first + 1) |-> chunks[first + i - 1].data]]
    /\ lost' = [lost EXCEPT ![r] = @ + Higher(0, chunks[1].index - (cursor[r] + 1))]

\* A Read that returned chunks: they are written to the socket and the loop
\* goes round.
ReadChunks(r) ==
  /\ pc[r] = "reading"
  /\ Deliver(r)
  /\ UNCHANGED <<ringVars, now, loopVars, pc, woken, from>>

\* A Read that returned none.
ReadNothing(r) ==
  /\ pc[r] = "reading"
  /\ ~Fresh(cursor[r])
  /\ pc' = [pc EXCEPT ![r] = "empty"]
  /\ UNCHANGED <<ringVars, now, loopVars, cursor, woken, from, got, lost>>

\* Mutant: a Wait that does not take the caller's cursor.
WaitWithoutCursor(r) ==
  /\ pc[r] = "empty"
  /\ pc' = [pc EXCEPT ![r] = IF closed THEN "closing" ELSE "waiting"]
  /\ woken' = [woken EXCEPT ![r] = FALSE]
  /\ UNCHANGED <<ringVars, now, loopVars, cursor, from, got, lost>>

\* Wait's snapshot of notify, closed and head under one RLock.
Wait(r) ==
  /\ pc[r] = "empty"
  /\ \/ /\ head > cursor[r]
        /\ pc' = [pc EXCEPT ![r] = "reading"]
        /\ UNCHANGED woken
     \/ /\ head <= cursor[r] /\ closed
        /\ pc' = [pc EXCEPT ![r] = "closing"]
        /\ UNCHANGED woken
     \/ /\ head <= cursor[r] /\ ~closed
        /\ pc' = [pc EXCEPT ![r] = "waiting"]
        /\ woken' = [woken EXCEPT ![r] = FALSE]
  /\ UNCHANGED <<ringVars, now, loopVars, cursor, from, got, lost>>

\* The notify channel it selected on was closed.
Wake(r) ==
  /\ pc[r] = "waiting" /\ woken[r]
  /\ pc' = [pc EXCEPT ![r] = "reading"]
  /\ UNCHANGED <<ringVars, now, loopVars, cursor, woken, from, got, lost>>

\* The wait's own deadline (at most one second) passed first.
Timeout(r) ==
  /\ pc[r] = "waiting"
  /\ pc' = [pc EXCEPT ![r] = "reading"]
  /\ UNCHANGED <<ringVars, now, loopVars, cursor, woken, from, got, lost>>

\* ErrClosed: one last Read, then the client ends.  The Read finds nothing
\* (FinalReadIsEmpty), so nothing but the goroutine's place changes.
FinalRead(r) ==
  /\ pc[r] = "closing"
  /\ pc' = [pc EXCEPT ![r] = "ended"]
  /\ UNCHANGED <<ringVars, now, loopVars, cursor, woken, from, got, lost>>

\* The client hung up, was stopped, or was dropped by a timeout.
Leave(r) ==
  /\ pc[r] \in {"reading", "empty", "waiting"}
  /\ pc' = [pc EXCEPT ![r] = "left"]
  /\ UNCHANGED <<ringVars, now, loopVars, cursor, woken, from, got, lost>>

----------------------------------------------------------------------------
LoopNext == \/ MarkBoundary \/ RecordBoundary
            \/ \E n \in 1..MaxWrite : Write(n)
            \/ EndAttempt \/ ResetPosition \/ Close

\* What a reader's goroutine does by itself when it is scheduled.
ReaderStep(r) == ReadChunks(r) \/ ReadNothing(r) \/ Wait(r) \/ Wake(r) \/ FinalRead(r)

Next ==
  \/ Tick
  \/ LoopNext
  \/ \E r \in Readers :
       \/ \E behind \in JoinBehinds : Join(r, behind)
       \/ ReaderStep(r)
       \/ Timeout(r)
       \/ Leave(r)

Spec == Init /\ [][Next]_vars

\* The scheduler runs every runnable reader; nothing forces an upstream to
\* send, a channel to end or a client to leave.
FairSpec == Spec /\ \A r \in Readers : WF_vars(ReaderStep(r))
----------------------------------------------------------------------------
(* Properties.                                                             *)

Resident == {chunks[i].index : i \in 1..Len(chunks)}

\* The store is a contiguous run of indices that ends at head, and never more
\* than Capacity of them.  ArrivedAt and Join compute positions from indices
\* and rely on it; eviction works from two bounds at once, and short chunks
\* from a boundary and batches from one Write both pass through it.
StoreIsContiguous ==
  /\ Len(chunks) <= Capacity
  /\ \A i \in 1..Len(chunks) : chunks[i].index = head - Len(chunks) + i
  /\ head > 0 => Len(chunks) > 0

\* Every resident chunk still holds what was published under its index: the
\* reader that lags and the one that keeps up are handed the same bytes.
ResidentIsLog ==
  \A i \in 1..Len(chunks) : chunks[i].data = log[chunks[i].index]

\* Between them, the chunks a reader was handed and the indices reported
\* skipped are every index from where it joined to its cursor, however far
\* it lagged and however Read's cap and eviction fell.
EveryIndexAccountedFor ==
  \A r \in Readers : cursor[r] = from[r] + Len(got[r]) + lost[r]

\* No lost wakeup: a reader blocked on a notify channel that is still open has
\* nothing to read and the ring is not closed.  Wait's snapshot takes notify,
\* closed and head under one lock for this.
NoLostWakeup ==
  \A r \in Readers :
    pc[r] = "waiting" /\ ~woken[r] => cursor[r] = head /\ ~closed

\* When Wait reports ErrClosed nothing is left past the cursor and nothing
\* will be, so the tail of a stream that ended was already handed over.
FinalReadIsEmpty ==
  \A r \in Readers : pc[r] \in {"closing", "ended"} => closed /\ cursor[r] = head

\* Every chunk is a whole number of packets, and no packet is spliced from two
\* streams: its bytes are consecutive bytes of one connection.  The carried
\* partial packet and the pending packets must be cleared or flushed at every
\* boundary and reset for this, wherever in an attempt a reset falls.
PacketsAreOneConnection ==
  \A k \in 1..Len(log) :
    /\ Len(log[k]) > 0 /\ Len(log[k]) % TSPacketSize = 0
    /\ \A i \in 1..(Len(log[k]) - 1) :
         i % TSPacketSize # 0 =>
           /\ log[k][i + 1].conn = log[k][i].conn
           /\ log[k][i + 1].off = log[k][i].off + 1

\* The upstreams' bytes in the order they were sent.
Before(a, b) == a.conn < b.conn \/ (a.conn = b.conn /\ a.off < b.off)

\* No byte is published twice or out of order, within a chunk or across two:
\* what is carried, flushed or reset at a boundary never comes back.
BytesInOrder ==
  /\ \A k \in 1..Len(log) :
       \A i \in 1..(Len(log[k]) - 1) : Before(log[k][i], log[k][i + 1])
  /\ \A k \in 1..(Len(log) - 1) : Before(log[k][Len(log[k])], log[k + 1][1])

\* Chunk k begins the stream of another connection than its predecessor's.
Begins(k) == k > 1 => log[k - 1][1].conn # log[k][1].conn

\* boundary.go: a reader that holds the first chunk of a connection can trust
\* NextBoundary to report it.  Every chunk is of one connection, and every
\* resident chunk that begins one is on record, unless MaxBoundaries later
\* boundaries have pushed it out, none of them at a chunk before it.
BoundaryOnRecord ==
  \A k \in Resident :
    /\ \A i \in 1..Len(log[k]) : log[k][i].conn = log[k][1].conn
    /\ Begins(k) => \/ \E i \in 1..Len(boundaries) : boundaries[i] = k
                    \/ Len(boundaries) = MaxBoundaries /\ k < boundaries[1]

\* What the ring promises its readers, without packets, clocks or wake-ups.
Floor == IF Len(chunks) = 0 THEN head + 1 ELSE chunks[1].index

FanOutReader(r) ==
  CASE pc[r] = "out" -> "out"
    [] pc[r] \in {"ended", "left"} -> "gone"
    [] OTHER -> "in"

FanOutBar == INSTANCE FanOut
  WITH floor <- Floor, pos <- cursor,
       at <- [r \in Readers |-> FanOutReader(r)]

ImplementsFanOut == FanOutBar!Spec

DeliversLikeFanOut == FanOutBar!Live
============================================================================

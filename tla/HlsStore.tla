------------------------------ MODULE HlsStore ------------------------------
(***************************************************************************)
(* One HLS pipeline's segments (relay/hls/store.go) and their rewind window *)
(* on disk (relay/hls/rewind.go): the segmenter publishes, the one writer  *)
(* goroutine copies to disk, unlinks and keeps the cap, requests render    *)
(* the playlist and read segments, all under the store's mutex but for the *)
(* file operations.                                                        *)
(*                                                                         *)
(* A segment is its media sequence number, from 1; its program date is that *)
(* number too, in target durations, and the clock ticks in the same unit.  *)
(* A segment's files are one file.  Left out: other windows of the writer  *)
(* (so the cap is this window's), the files and bytes of init segments,    *)
(* waits for a first segment, the process's end.                           *)
(***************************************************************************)
EXTENDS Integers, FiniteSets, FiniteSetsExt

CONSTANTS
  Segments,       \* bound: sequence numbers, 1..n
  StoreSegments,  \* segments the store keeps
  LiveEdge,       \* segments a playlist lists when memory alone holds them
  Depth,          \* of the window, in target durations
  Sizes,          \* bytes of a segment
  ByteLimit,      \* byteLimitLocked
  DiskCap,        \* Rewind.capBytes
  Gets,           \* requests for a segment
  MaxGens,        \* bound: generations
  MaxDiskFaults   \* bound: file operations that fail

ASSUME StoreAssumption ==
  /\ IsFiniteSet(Segments) /\ Segments = 1..Cardinality(Segments)
  /\ LiveEdge \in Nat \ {0} /\ StoreSegments \in Nat /\ StoreSegments >= LiveEdge
  /\ {Depth, ByteLimit, DiskCap, MaxDiskFaults} \subseteq Nat
  /\ Sizes \subseteq Nat \ {0} /\ MaxGens \in Nat \ {0}

VARIABLES
  store,    \* Store and window
  writer,   \* Rewind.work: its place, jobs, unlinks and victim
  kicked,   \* Rewind.kick
  files,    \* segment files of this run directory
  reads,    \* per request: the segment it has pinned, or 0
  gen,      \* the pipeline's generation
  shown,    \* the playlist in cache: its segments and discontinuity sequence
  fresh,    \* its version is the store's
  diskFaults

storeVars == <<store, writer, kicked, files, reads, gen, shown, fresh, diskFaults>>

Unlisted == StoreSegments - LiveEdge    \* unlistedRetentionLocked, in target durations

Unborn == [gen |-> 0, size |-> 0, disc |-> FALSE, held |-> FALSE, onDisk |-> FALSE,
           pending |-> FALSE, retired |-> FALSE, age |-> 0, doomed |-> FALSE,
           left |-> FALSE, kept |-> FALSE, ticks |-> 0, pubs |-> 0]
Resting == [at |-> "idle", jobs |-> {}, hand |-> {}, victim |-> 0, fromList |-> FALSE]

\* low and next: the list is low..(next - 1).  passed is discontinuitiesGone, disk
\* the window's diskBytes.  The queue and the writer's jobs are in publication
\* order, so a set is enough.  History: a segment's left, kept, ticks and pubs (it
\* has left the playlist; it was durable then; what has passed since), and
\* forgone, the segments the store had to give up.
StoreInit ==
  /\ \E w \in BOOLEAN :
       store = [low |-> 1, next |-> 1, seg |-> [s \in Segments |-> Unborn], lastGen |-> 0,
                inits |-> {1}, passed |-> 0, window |-> w, queue |-> {}, unlinks |-> {},
                disk |-> 0, degraded |-> FALSE, closed |-> FALSE, removing |-> FALSE, forgone |-> {}]
  /\ writer = Resting /\ kicked = FALSE /\ files = {}
  /\ reads = [g \in Gets |-> 0] /\ gen = 1
  /\ shown = [list |-> {}, gone |-> 0] /\ fresh = FALSE /\ diskFaults = 0

----------------------------------------------------------------------------
(* The list                                                                *)

Stored(st)   == st.low..(st.next - 1)
Found(st, s) == s \in Stored(st) \/ (s \in Segments /\ st.seg[s].retired)   \* findLocked
Durable(x)   == x.onDisk \/ x.pending
Pinned(s)    == {g \in Gets : reads[g] = s}
SizeOf(st, S) == Cardinality(UNION {{s} \X (1..st.seg[s].size) : s \in S})    \* byte by byte

\* A bug to plant: the playlist lists what memory will not keep.
ListsAllItStores(st) == Stored(st)

\* renderFromLocked: from the first segment after which all are durable or at
\* the live edge.
Listed(st) ==
  LET bare == {s \in Stored(st) : ~Durable(st.seg[s]) /\ s + LiveEdge < st.next}
  IN IF bare = {} THEN Stored(st) ELSE (Max(bare) + 1)..(st.next - 1)

Gone(st) == st.passed + Cardinality({s \in Stored(st) : s < Min(Listed(st)) /\ st.seg[s].disc})

\* retireHeadLocked, until h is the head.
Retire(x) ==
  IF Durable(x) THEN [x EXCEPT !.retired = TRUE, !.age = 0, !.held = x.held /\ x.pending]
                ELSE [x EXCEPT !.held = FALSE]
RetireTo(st, h) ==
  LET out == {s \in Stored(st) : s < h}
  IN [st EXCEPT !.low = h,
                !.passed = @ + Cardinality({s \in out : st.seg[s].disc}),
                !.seg = [s \in Segments |-> IF s \in out THEN Retire(st.seg[s]) ELSE st.seg[s]]]

\* trimLocked's three rules.  The first: outside the newest StoreSegments and
\* older than the window's depth.
ByDepth(st) ==
  LET within == {h \in st.low..st.next : h + StoreSegments >= st.next \/ h + Depth >= st.next - 1}
  IN IF st.window /\ Stored(st) # {} THEN RetireTo(st, Min(within)) ELSE st

\* The second.  What is on disk gives its data up; what is neither on disk nor
\* on its way there leaves, with everything older.
Released(st, h) ==
  [st EXCEPT !.seg = [s \in Segments |->
     IF s \in Stored(st) /\ s < h /\ st.seg[s].onDisk THEN [st.seg[s] EXCEPT !.held = FALSE] ELSE st.seg[s]]]
Below(st) == {s \in Stored(st) : s + StoreSegments < st.next}
ByMemory(st) ==
  LET bare == {s \in Below(st) : ~Durable(st.seg[s])}
      cut  == IF bare = {} THEN st ELSE RetireTo(st, Max(bare) + 1)
  IN Released(cut, cut.next - StoreSegments)

\* The third: first what is on disk gives its data up, oldest first, then the head
\* leaves, until the bytes fit or only the writer can free any.
HeldOf(st, S) == {s \in S : st.seg[s].held}
Fits(st) ==
  \/ SizeOf(st, HeldOf(st, Segments)) <= ByteLimit
  \/ Cardinality(HeldOf(st, Stored(st))) <= 1
GivesUpTo(st, h) ==
  [RetireTo(st, h) EXCEPT !.forgone = @ \cup {s \in Stored(st) : s < h /\ ~Durable(st.seg[s])}]
ByBytes(st) ==
  LET Enough(c)  == Fits(c) \/ \A s \in HeldOf(c, Stored(c)) : c.seg[s].pending
      Heads      == st.low..st.next
      freed      == Released(st, Min({h \in Heads : h = st.next \/ Fits(Released(st, h))}))
  IN GivesUpTo(freed, Min({h \in Heads : h = st.next \/ Enough(GivesUpTo(freed, h))}))

Trim(st) == ByBytes(ByMemory(ByDepth(st)))

\* degradeLocked.
Stops(x) ==
  IF x.pending THEN [x EXCEPT !.pending = FALSE, !.retired = FALSE, !.held = @ /\ ~x.retired] ELSE x
Degrade(st) ==
  LET late(s) == st.seg[s].pending /\ (st.seg[s].retired \/ s + LiveEdge < st.next)
  IN IF st.degraded THEN st
     ELSE Trim([st EXCEPT !.degraded = TRUE, !.queue = {},
                          !.seg = [s \in Segments |-> Stops(st.seg[s])],
                          !.forgone = @ \cup {s \in Segments : late(s)}])

\* The store becomes st: history notes what has left the list.
Notes(x, listed, pubs) ==
  CASE listed             -> x
    [] ~listed /\ x.left  -> [x EXCEPT !.pubs = Min({@ + pubs, Unlisted})]
    [] ~listed /\ ~x.left -> [x EXCEPT !.left = TRUE, !.kept = Durable(x)]
Noted(st, pubs) ==
  [st EXCEPT !.seg = [s \in Segments |-> Notes(st.seg[s], s >= st.next \/ s \in Listed(st), pubs)]]
Becomes(st, pubs) == store' = Noted(st, pubs)

----------------------------------------------------------------------------
(* The segmenter                                                           *)

\* evictInitsLocked.
EvictInits(st) ==
  LET live == {st.lastGen} \cup {st.seg[s].gen : s \in {t \in 1..(st.next - 1) : Found(st, t)}}
  IN [st EXCEPT !.inits = {i \in @ : i >= st.lastGen \/ i \in live}]

\* A later generation's init segments come before its first segment.
NewGeneration ==
  /\ ~store.closed /\ gen < MaxGens
  /\ gen' = gen + 1
  /\ store' = [store EXCEPT !.inits = @ \cup {gen'}]
  /\ fresh' = FALSE
  /\ UNCHANGED <<writer, kicked, files, reads, shown, diskFaults>>

\* The segment is queued for the writer, unless that is too far behind.
Queues == store.window /\ ~store.degraded
Full   == Cardinality({t \in Segments : store.seg[t].pending}) >= StoreSegments
Queued(size) ==
  LET s     == store.next
      new   == [Unborn EXCEPT !.gen = gen, !.size = size, !.held = TRUE,
                              !.disc = s > 1 /\ gen # store.lastGen]
      added == [store EXCEPT !.next = s + 1, !.lastGen = gen, !.seg[s] = new]
  IN CASE ~Queues         -> added
       [] Queues /\ Full  -> Degrade(added)
       [] Queues /\ ~Full -> [added EXCEPT !.seg[s].pending = TRUE, !.queue = @ \cup {s}]

PublishSegment(size) ==
  /\ ~store.closed /\ store.next \in Segments
  /\ Becomes(EvictInits(Trim(Queued(size))), 1)
  /\ kicked' = (kicked \/ (Queues /\ ~Full))
  /\ fresh' = FALSE
  /\ UNCHANGED <<writer, files, reads, gen, shown, diskFaults>>

CloseStore ==
  /\ ~store.closed
  /\ store' = [store EXCEPT !.closed = TRUE]
  /\ kicked' = (kicked \/ store.window)
  /\ fresh' = FALSE
  /\ UNCHANGED <<writer, files, reads, gen, shown, diskFaults>>

----------------------------------------------------------------------------
(* The writer: one batch                                                   *)

\* Mutant: a retired segment goes under a read in flight.
ExpiredUnderARead(st) == {s \in Segments : st.seg[s].retired /\ st.seg[s].age >= Unlisted}

\* The retired segments whose retention has passed and which no read holds.
ExpiredOf(st) ==
  {s \in Segments : st.seg[s].retired /\ st.seg[s].age >= Unlisted /\ Pinned(s) = {}}

\* collect.
Drops(x) == [x EXCEPT !.retired = FALSE, !.pending = FALSE, !.onDisk = FALSE, !.held = @ /\ ~x.pending]
Collect ==
  LET old    == ExpiredOf(store)
      onDisk == {s \in old : store.seg[s].onDisk}
      ends   == store.closed /\ \A g \in Gets : reads[g] = 0
      queue  == store.queue \ old
      jobs   == IF store.degraded \/ ends THEN {} ELSE queue
  IN /\ writer.at = "idle" /\ kicked /\ kicked' = FALSE
     /\ Becomes([store EXCEPT !.seg = [s \in Segments |-> IF s \in old THEN Drops(@[s]) ELSE @[s]],
                              !.disk = @ - SizeOf(store, onDisk), !.unlinks = {},
                              !.queue = IF ends \/ store.degraded THEN queue ELSE {},
                              !.removing = ends], 0)
     /\ fresh' = (fresh /\ old = {})
     /\ writer' = IF ends THEN [Resting EXCEPT !.at = "removing"]
                  ELSE [Resting EXCEPT !.at = IF jobs # {} THEN "writing" ELSE "unlinking",
                                       !.jobs = jobs, !.hand = onDisk \cup store.unlinks]
     /\ UNCHANGED <<files, reads, gen, shown, diskFaults>>

\* removeWindow.
RemoveWindow ==
  /\ writer.at = "removing" /\ writer' = Resting
  /\ files' = {} /\ store' = [store EXCEPT !.disk = 0]
  /\ UNCHANGED <<kicked, reads, gen, shown, fresh, diskFaults>>

\* writeJob: the next segment's file is in place, or an operation fails, before
\* or after that.
WriteJob ==
  /\ writer.at = "writing"
  /\ files' = files \cup {Min(writer.jobs)}
  /\ writer' = [writer EXCEPT !.at = "committing"]
  /\ UNCHANGED <<store, kicked, reads, gen, shown, fresh, diskFaults>>

WriteFails ==
  /\ writer.at = "writing" /\ diskFaults < MaxDiskFaults /\ diskFaults' = diskFaults + 1
  /\ files' \in {files, files \cup {Min(writer.jobs)}}
  /\ Becomes(Degrade(store), 0)
  /\ fresh' = (fresh /\ store.degraded)
  /\ writer' = [writer EXCEPT !.at = "unlinking", !.jobs = {}]
  /\ UNCHANGED <<kicked, reads, gen, shown>>

\* commit, of a window that has not degraded and a segment that has not gone.
Lands(x, listed) == [x EXCEPT !.pending = FALSE, !.onDisk = TRUE, !.held = x.held /\ listed]
Commit(st, s) ==
  Trim([st EXCEPT !.disk = @ + st.seg[s].size, !.seg[s] = Lands(st.seg[s], s \in Stored(st))])

CommitJob ==
  LET s == Min(writer.jobs)
  IN /\ writer.at = "committing"
     /\ CASE store.degraded -> UNCHANGED <<store, kicked, fresh>>
          [] ~store.degraded /\ Found(store, s) ->
               Becomes(Commit(store, s), 0) /\ fresh' = FALSE /\ UNCHANGED kicked
          [] OTHER ->
               store' = [store EXCEPT !.unlinks = @ \cup {s}] /\ kicked' = TRUE /\ UNCHANGED fresh
     /\ writer' = [writer EXCEPT !.jobs = @ \ {s},
                                 !.at = IF writer.jobs = {s} THEN "unlinking" ELSE "writing"]
     /\ UNCHANGED <<files, reads, gen, shown, diskFaults>>

Unlink ==
  /\ writer.at = "unlinking"
  /\ files' = files \ writer.hand
  /\ writer' = [Resting EXCEPT !.at = "capping"]
  /\ UNCHANGED <<store, kicked, reads, gen, shown, fresh, diskFaults>>

\* pickVictim: a retired segment, or the head of the list when the list goes
\* beyond the newest StoreSegments.
PickVictim ==
  LET retired == {s \in Segments : store.seg[s].retired /\ store.seg[s].onDisk}
      head    == {s \in Below(store) : s = store.low /\ store.seg[s].onDisk}
      choice  == IF retired # {} THEN retired ELSE head
  IN /\ writer.at = "capping"
     /\ writer' = IF store.disk <= DiskCap \/ choice = {} THEN Resting
                  ELSE [writer EXCEPT !.at = "evicting", !.victim = Min(choice),
                                      !.fromList = retired = {}]
     /\ UNCHANGED <<store, kicked, files, reads, gen, shown, fresh, diskFaults>>

\* Mutant: a listed victim leaves without its discontinuity.
TakenUncounted(st, s) ==
  [st EXCEPT !.low = IF st.seg[s].retired THEN @ ELSE s + 1,
             !.disk = @ - st.seg[s].size,
             !.seg[s] = [@ EXCEPT !.retired = FALSE, !.onDisk = FALSE, !.doomed = Pinned(s) # {}],
             !.forgone = @ \cup {s}]

Taken(st, s) ==
  [st EXCEPT !.low = IF st.seg[s].retired THEN @ ELSE s + 1,
             !.passed = IF ~st.seg[s].retired /\ st.seg[s].disc THEN @ + 1 ELSE @,
             !.disk = @ - st.seg[s].size,
             !.seg[s] = [@ EXCEPT !.retired = FALSE, !.onDisk = FALSE, !.doomed = Pinned(s) # {}],
             !.forgone = @ \cup {s}]

\* evict: a victim that has moved since it was picked is left.
Evict ==
  LET s     == writer.victim
      still == IF writer.fromList THEN s = store.low /\ s \in Below(store)
                                  ELSE store.seg[s].retired
  IN /\ writer.at = "evicting"
     /\ IF still THEN Becomes(Taken(store, s), 0) /\ fresh' = FALSE
                 ELSE UNCHANGED <<store, fresh>>
     /\ writer' = [Resting EXCEPT !.at = "unlinking",
                                  !.hand = IF still /\ Pinned(s) = {} THEN {s} ELSE {}]
     /\ UNCHANGED <<kicked, files, reads, gen, shown, diskFaults>>

----------------------------------------------------------------------------
(* The requests                                                            *)

\* MediaPlaylist, when the cache does not answer.
Render ==
  /\ ~fresh /\ Stored(store) # {}
  /\ shown' = [list |-> Listed(store), gone |-> Gone(store)] /\ fresh' = TRUE
  /\ UNCHANGED <<store, writer, kicked, files, reads, gen, diskFaults>>

\* SegmentAt of a segment that is on disk alone; any other is answered at once.
Pin(g, s) ==
  /\ reads[g] = 0 /\ Found(store, s) /\ s < store.next
  /\ store.window /\ store.seg[s].onDisk /\ ~store.seg[s].held /\ ~store.closed /\ ~store.removing
  /\ reads' = [reads EXCEPT ![g] = s]
  /\ UNCHANGED <<store, writer, kicked, files, gen, shown, fresh, diskFaults>>

\* The file is read; unpinLocked.
Unpin(g) ==
  LET s    == reads[g]
      last == store.seg[s].doomed /\ Pinned(s) = {g}
  IN /\ s # 0
     /\ reads' = [reads EXCEPT ![g] = 0]
     /\ store' = IF last THEN [store EXCEPT !.unlinks = @ \cup {s}] ELSE store
     /\ kicked' = (kicked \/ last \/ (store.closed /\ \A h \in Gets \ {g} : reads[h] = 0))
     /\ UNCHANGED <<writer, files, gen, shown, fresh, diskFaults>>

\* A target duration passes.
Later(n) == Min({n + 1, Unlisted})
Older(x) == [x EXCEPT !.age   = IF x.retired THEN Later(@) ELSE @,
                      !.ticks = IF x.left THEN Later(@) ELSE @]
StoreTick ==
  /\ ~store.closed
  /\ store' = [store EXCEPT !.seg = [s \in Segments |-> Older(@[s])]]
  /\ store' # store
  /\ UNCHANGED <<writer, kicked, files, reads, gen, shown, fresh, diskFaults>>

SegmenterStep == NewGeneration \/ (\E n \in Sizes : PublishSegment(n)) \/ CloseStore
WriterStep ==
  \/ Collect \/ RemoveWindow \/ WriteJob \/ WriteFails \/ CommitJob \/ Unlink
  \/ PickVictim \/ Evict
FetchStep == Render \/ (\E g \in Gets : Unpin(g) \/ \E s \in Segments : Pin(g, s)) \/ StoreTick

StoreNext == SegmenterStep \/ WriterStep \/ FetchStep
StoreSpec == StoreInit /\ [][StoreNext]_storeVars

----------------------------------------------------------------------------
(* Properties                                                              *)

StoreTypeOK ==
  /\ store.low \in 1..store.next /\ store.passed \in Nat /\ store.disk \in Int
  /\ store.inits \subseteq 1..MaxGens /\ store.unlinks \subseteq Segments
  /\ writer.at \in {"idle", "writing", "committing", "unlinking", "capping", "evicting", "removing"}
  /\ files \subseteq Segments /\ reads \in [Gets -> Segments \cup {0}]
  /\ {kicked, fresh} \subseteq BOOLEAN /\ diskFaults \in 0..MaxDiskFaults

Fetchable(s) ==
  LET x == store.seg[s]
  IN /\ Found(store, s) /\ x.gen \in store.inits
     /\ x.held \/ (store.window /\ x.onDisk /\ s \in files)

\* A player fetches what its playlist lists, for as long as RFC 8216 asks: a
\* segment in the list is there with its generation's init segment, and one that has
\* left it stays for its own and the playlist's duration (store.go:19-27,
\* :186-191): on the clock when it was on its way to the disk, in publications when
\* memory alone held it.  But for what the cap, the byte ceiling or a window that
\* degrades gives up.
WantedIsFetchable ==
  ~store.closed =>
    \A s \in 1..(store.next - 1) \ store.forgone :
      LET x == store.seg[s]
      IN \/ Fetchable(s)
         \/ x.left /\ IF x.kept THEN x.ticks >= Unlisted ELSE x.pubs >= Unlisted

\* The cached playlist is the one that would be rendered, and a segment's
\* discontinuity number is the same in every one (store.go:611-620): as many as
\* there were before the list, whichever way they left it.
PlaylistIsTrue ==
  /\ fresh => shown.list = Listed(store) /\ shown.gone = Gone(store)
  /\ Stored(store) # {} =>
       Gone(store) = Cardinality({s \in 1..(Min(Listed(store)) - 1) : store.seg[s].disc})

\* The bytes on record are those of the segments on disk, no file is beyond
\* everybody's reach while the window persists, and no read loses its file
\* (rewind.go:579-597, :691-722).
DiskIsAccounted ==
  LET inHand == writer.hand \cup (IF writer.at = "committing" THEN {Min(writer.jobs)} ELSE {})
  IN /\ ~store.removing => store.disk = SizeOf(store, {s \in Segments : store.seg[s].onDisk})
     /\ ~store.degraded =>
          \A s \in files : \/ store.seg[s].onDisk /\ Found(store, s)
                           \/ s \in store.unlinks \cup inHand
                           \/ store.seg[s].doomed /\ Pinned(s) # {}
                           \/ store.removing
     /\ \A g \in Gets : reads[g] # 0 => reads[g] \in files
=============================================================================

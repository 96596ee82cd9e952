--------------------------- MODULE HlsStore_proofs ---------------------------
(***************************************************************************)
(* The segments of one HLS pipeline, for any number of segments, sizes,    *)
(* generations, reads and faults of the disk: what a playlist lists, or    *)
(* listed a moment ago, can be fetched; the playlist is the store's, and   *)
(* numbers its discontinuities; the window's bytes and files add up.       *)
(*                                                                         *)
(* A segment's life is the argument.  It is in the list, then retired (out *)
(* of the list, its file still served) or gone (PlaceIsSound), and since   *)
(* it left the playlist as much has passed as its retention needs before   *)
(* it may go (PastIsSound).  An operation is a change of the store, then a *)
(* trim, then the note of what has left: the lemmas follow a store through *)
(* those, the list one publication ahead of the notes in between (k = 1).  *)
(***************************************************************************)
EXTENDS HlsStore, FiniteSetTheorems, WellFoundedInduction, TLAPS

----------------------------------------------------------------------------
(* The invariant's parts                                                   *)

\* The types.
SegmentType ==
  [gen : Nat, size : Nat, disc : BOOLEAN, held : BOOLEAN, onDisk : BOOLEAN,
   pending : BOOLEAN, retired : BOOLEAN, age : Nat, doomed : BOOLEAN,
   left : BOOLEAN, kept : BOOLEAN, ticks : Nat, pubs : Nat]
StoreType ==
  [low : Nat, next : Nat, seg : [Segments -> SegmentType], lastGen : Nat,
   inits : SUBSET (1..MaxGens), passed : Nat, window : BOOLEAN, queue : SUBSET Segments,
   unlinks : SUBSET Segments, disk : Int, degraded : BOOLEAN, closed : BOOLEAN,
   removing : BOOLEAN, forgone : SUBSET Segments]

\* The list is a stretch of the sequence numbers, and the discontinuities before
\* it are counted.
ListIsSound(st) ==
  /\ st \in StoreType
  /\ 1 <= st.low /\ st.low <= st.next /\ 1..(st.next - 1) \subseteq Segments
  /\ st.passed = Cardinality({s \in 1..(st.low - 1) : st.seg[s].disc})

\* Where a segment is: in the list, retired, or gone.
PlaceIsSound(st, s) ==
  LET x == st.seg[s]
  IN /\ s >= st.next => ~x.held /\ ~x.onDisk /\ ~x.pending /\ ~x.retired /\ ~x.doomed
     /\ s \in Stored(st) => ~x.retired /\ (x.held \/ x.onDisk)
     /\ s < st.low /\ ~x.retired => ~x.held /\ ~x.onDisk /\ ~x.pending
     /\ x.retired => s < st.low /\ (x.onDisk \/ x.pending) /\ (x.held => x.pending)
     /\ x.pending => x.held /\ ~x.onDisk /\ ~st.degraded
     /\ (x.onDisk \/ x.pending) => st.window
     /\ x.doomed => ~x.onDisk /\ ~x.pending

\* What has passed since a segment left the playlist, k publications being under
\* way.
PastIsSound(st, s, k) ==
  LET x == st.seg[s]
  IN s < st.next =>
     /\ x.left => s < st.low \/ s + LiveEdge < st.next
     /\ x.left /\ ~x.kept => ~x.onDisk /\ ~x.pending
     /\ x.retired /\ x.left => x.kept /\ x.ticks >= x.age
     /\ x.retired /\ ~x.left => x.age = 0
     /\ s \notin st.forgone /\ ~x.onDisk /\ ~x.pending =>
          /\ ~x.left => s + LiveEdge + k >= st.next
          /\ x.left /\ x.kept => x.ticks >= Unlisted
          /\ x.left /\ ~x.kept => x.pubs + k >= Unlisted \/ x.pubs + k >= st.next - 1 - s - LiveEdge
          /\ s < st.low /\ ~(x.left /\ x.kept) => s + StoreSegments < st.next

SoundStore(st, k) ==
  /\ ListIsSound(st)
  /\ \A s \in Segments : PlaceIsSound(st, s) /\ PastIsSound(st, s, k)

\* What holds besides when no call is under way.
AtRest(st) ==
  \A s \in Segments :
    /\ s < st.next /\ s \notin Listed(st) => st.seg[s].left
    /\ s \in Below(st) /\ st.seg[s].onDisk => ~st.seg[s].held
    /\ s < st.next /\ Found(st, s) => st.seg[s].gen \in st.inits

\* The writer's jobs were pending when it took them, and are until its window
\* degrades; its victim's file is there until it goes.
WriterType ==
  [at : {"idle", "writing", "committing", "unlinking", "capping", "evicting", "removing"},
   jobs : SUBSET Segments, hand : SUBSET Segments, victim : Segments \cup {0}, fromList : BOOLEAN]

WriterIsSound ==
  /\ writer \in WriterType
  /\ writer.jobs # {} <=> writer.at \in {"writing", "committing"}
  /\ writer.hand # {} => writer.at \in {"writing", "committing", "unlinking"}
  /\ writer.at = "committing" => Min(writer.jobs) \in files
  /\ writer.at = "evicting" => writer.victim \in Segments /\ store.seg[writer.victim].onDisk
  /\ writer.at = "removing" => store.removing
  /\ store.removing => store.closed /\ \A g \in Gets : reads[g] = 0
  /\ ~store.degraded =>
       /\ store.queue \cap writer.jobs = {}
       /\ \A s \in store.queue \cup writer.jobs : store.seg[s].pending

\* Only files of no use are unlinked; what is on disk has its file, and what is read
\* keeps it, also when it was evicted meanwhile (doomed).
FilesAreSound ==
  /\ files \subseteq Segments /\ reads \in [Gets -> Segments \cup {0}]
  /\ \A s \in store.unlinks \cup writer.hand :
       s < store.next /\ ~store.seg[s].onDisk /\ ~store.seg[s].pending
  /\ ~store.removing => \A s \in Segments : store.seg[s].onDisk => s \in files
  /\ \A g \in Gets : reads[g] # 0 =>
       /\ reads[g] \in files /\ reads[g] \notin store.unlinks \cup writer.hand
       /\ store.seg[reads[g]].onDisk \/ store.seg[reads[g]].doomed

\* The generation under way has its init segment.
GensAreSound ==
  /\ gen \in 1..MaxGens /\ gen \in store.inits /\ store.lastGen <= gen
  /\ diskFaults \in 0..MaxDiskFaults
  /\ {kicked, fresh} \subseteq BOOLEAN

\* All of it, with the two properties of the runs that need no more.
StoreInv ==
  /\ SoundStore(store, 0) /\ AtRest(store)
  /\ WriterIsSound /\ FilesAreSound /\ GensAreSound
  /\ PlaylistIsTrue /\ DiskIsAccounted
----------------------------------------------------------------------------
(* Numbers and sizes                                                       *)

\* Sequence numbers are positive, few, and without gaps.
LEMMA SegmentsAreNumbers ==
  /\ Segments \subseteq Nat \ {0} /\ IsFiniteSet(Segments)
  /\ \A s \in Segments : 1..s \subseteq Segments
BY StoreAssumption, FS_CardinalityType

\* What the constants are.
LEMMA BoundsAreNumbers ==
  /\ LiveEdge \in Nat /\ LiveEdge > 0 /\ StoreSegments \in Nat /\ StoreSegments >= LiveEdge
  /\ Unlisted \in Nat /\ Unlisted = StoreSegments - LiveEdge
  /\ Depth \in Nat /\ ByteLimit \in Nat /\ DiskCap \in Nat /\ MaxDiskFaults \in Nat
  /\ Sizes \subseteq Nat /\ MaxGens \in Nat /\ MaxGens > 0
BY StoreAssumption DEF Unlisted

\* A set of numbers has a least one.
LEMMA LeastOf ==
  ASSUME NEW S, S \subseteq Nat, S # {}
  PROVE  Min(S) \in S /\ \A y \in S : Min(S) <= y
<1> DEFINE R == {ss \in Nat \X Nat : ss[1] < ss[2]}
<1>1. IsWellFoundedOn(R, Nat)
  BY NatLessThanWellFounded DEF OpToRel
<1>2. \A x, y \in Nat : <<y, x>> \in R <=> y < x
  OBVIOUS
<1> HIDE DEF R
<1>3. \E x \in S : \A y \in S : ~ (<<y, x>> \in R)
  BY <1>1, WFMin
<1>4. PICK x \in S : \A y \in S : ~ (<<y, x>> \in R)
  BY <1>3
<1>5. \A y \in S : x =< y
  <2> SUFFICES ASSUME NEW y \in S
               PROVE  x =< y
    OBVIOUS
  <2>1. x \in Nat /\ y \in Nat
    BY <1>4
  <2>2. ~ (y < x)
    BY <1>2, <1>4, <2>1
  <2> QED
    BY <2>1, <2>2
<1> QED
  BY <1>4, <1>5 DEF Min

\* A set of numbers under a bound has a greatest one.
LEMMA GreatestOf ==
  ASSUME NEW S, S \subseteq Nat, S # {}, NEW n \in Nat, \A y \in S : y <= n
  PROVE  Max(S) \in S /\ \A y \in S : Max(S) >= y
<1> DEFINE B == {m \in Nat : \A y \in S : y <= m}
<1>1. B \subseteq Nat /\ B # {}
  OBVIOUS
<1> DEFINE m == Min(B)
<1>2. m \in B /\ \A y \in B : m <= y
  <2> HIDE DEF B
  <2> QED
    BY <1>1, LeastOf
<1>3. m \in Nat /\ \A y \in S : y <= m
  BY <1>2
<1> HIDE DEF m
<1>4. m \in S
  <2> SUFFICES ASSUME m \notin S
               PROVE  FALSE
    OBVIOUS
  <2>1. PICK y0 \in S : TRUE
    OBVIOUS
  <2>2. \A y \in S : y <= m - 1
    BY <1>3
  <2>3. m - 1 \in Nat
    BY <1>3, <2>1, <2>2
  <2> QED
    BY <1>2, <1>3, <2>2, <2>3
<1>5. \E x \in S : \A y \in S : x >= y
  BY <1>3, <1>4
<1> QED
  BY <1>5 DEF Max

\* Sizes are finite, and add up over segments that differ.
LEMMA SizeOfParts ==
  ASSUME NEW st, \A s \in Segments : st.seg[s].size \in Nat,
         NEW A, NEW B, A \subseteq Segments, B \subseteq Segments, A \cap B = {}
  PROVE  /\ SizeOf(st, A) \in Nat
         /\ SizeOf(st, A \cup B) = SizeOf(st, A) + SizeOf(st, B)
<1> DEFINE bytes(s) == {s} \X (1..st.seg[s].size)
           all(S) == UNION {bytes(s) : s \in S}
<1>1. \A S : S \subseteq Segments => IsFiniteSet(all(S))
  <2> SUFFICES ASSUME NEW S, S \subseteq Segments
               PROVE  IsFiniteSet(all(S))
    OBVIOUS
  <2>1. IsFiniteSet(S)
    BY SegmentsAreNumbers, FS_Subset
  <2>2. \A s \in S : IsFiniteSet(bytes(s))
    <3> SUFFICES ASSUME NEW s \in S
                 PROVE  IsFiniteSet(bytes(s))
      OBVIOUS
    <3>1. IsFiniteSet({s})
      BY FS_Singleton
    <3>2. st.seg[s].size \in Nat
      OBVIOUS
    <3>3. IsFiniteSet(1..st.seg[s].size)
      BY <3>2, FS_Interval
    <3> QED
      BY <3>1, <3>3, FS_Product
  <2> HIDE DEF bytes
  <2>3. IsFiniteSet({bytes(s) : s \in S})
    <3> DEFINE f == [s \in S |-> bytes(s)]
    <3>1. f \in Surjection(S, {bytes(s) : s \in S})
      BY DEF Surjection
    <3> QED
      BY <2>1, <3>1, FS_Surjection
  <2> QED
    BY <2>2, <2>3, FS_UNION
<1>2. all(A \cup B) = all(A) \cup all(B) /\ all(A) \cap all(B) = {}
  <2>1. all(A) \cap all(B) = {}
    <3> SUFFICES ASSUME NEW p \in all(A), p \in all(B)
                 PROVE  FALSE
      OBVIOUS
    <3>1. PICK a \in A : p \in {a} \X (1..st.seg[a].size)
      OBVIOUS
    <3>2. PICK b \in B : p \in {b} \X (1..st.seg[b].size)
      OBVIOUS
    <3> QED
      BY <3>1, <3>2
  <2> HIDE DEF bytes
  <2>2. all(A \cup B) = all(A) \cup all(B)
    OBVIOUS
  <2> QED
    BY <2>1, <2>2
<1>3. SizeOf(st, A) = Cardinality(all(A)) /\ SizeOf(st, B) = Cardinality(all(B))
      /\ SizeOf(st, A \cup B) = Cardinality(all(A \cup B))
  BY DEF SizeOf
<1> DEFINE x == all(A)
           y == all(B)
           z == all(A \cup B)
<1>4. SizeOf(st, A) = Cardinality(x) /\ SizeOf(st, B) = Cardinality(y)
        /\ SizeOf(st, A \cup B) = Cardinality(z)
  BY <1>3
<1>5. z = x \cup y /\ x \cap y = {} /\ IsFiniteSet(x) /\ IsFiniteSet(y)
  <2> HIDE DEF all
  <2> QED
    BY <1>1, <1>2
<1> HIDE DEF all, x, y, z
<1>6. Cardinality(x) \in Nat /\ Cardinality(y) \in Nat
  BY <1>5, FS_CardinalityType
<1>7. Cardinality(x \cap y) = 0
  BY <1>5, FS_EmptySet
<1>8. Cardinality(x \cup y) = Cardinality(x) + Cardinality(y) - Cardinality(x \cap y)
  BY <1>5, FS_Union
<1>9. Cardinality(z) = Cardinality(x) + Cardinality(y)
  BY <1>5, <1>6, <1>7, <1>8
<1> QED
  BY <1>4, <1>6, <1>9

\* The size of one segment, and of none.
LEMMA SizeOfOne ==
  ASSUME NEW st, NEW s, st.seg[s].size \in Nat
  PROVE  SizeOf(st, {s}) = st.seg[s].size /\ SizeOf(st, {}) = 0
<1>1. UNION {{t} \X (1..st.seg[t].size) : t \in {s}} = {s} \X (1..st.seg[s].size)
  OBVIOUS
<1>2. IsFiniteSet({s}) /\ Cardinality({s}) = 1
  BY FS_Singleton
<1> DEFINE n == st.seg[s].size
<1>3. IsFiniteSet(1..n) /\ Cardinality(1..n) = n
  <2> HIDE DEF n
  <2>1. n \in Nat
    BY DEF n
  <2>2. IsFiniteSet(1..n) /\ Cardinality(1..n) = IF 1 > n THEN 0 ELSE n - 1 + 1
    BY <2>1, FS_Interval
  <2> QED
    BY <2>1, <2>2
<1>4. Cardinality({s} \X (1..n)) = n
  <2> HIDE DEF n
  <2>1. n \in Nat
    BY DEF n
  <2>2. Cardinality({s} \X (1..n)) = Cardinality({s}) * Cardinality(1..n)
    BY <1>2, <1>3, FS_Product
  <2> QED
    BY <1>2, <1>3, <2>1, <2>2
<1>5. UNION {{t} \X (1..st.seg[t].size) : t \in {}} = {}
  OBVIOUS
<1> QED
  <2>1. SizeOf(st, {s}) = n
    BY <1>1, <1>4 DEF SizeOf
  <2>2. SizeOf(st, {}) = 0
    BY <1>5, FS_EmptySet DEF SizeOf
  <2> QED
    BY <2>1, <2>2

\* Sizes depend on the segments' sizes alone.
LEMMA SizeOfSame ==
  ASSUME NEW a, NEW b, NEW S, \A s \in S : b.seg[s].size = a.seg[s].size
  PROVE  SizeOf(b, S) = SizeOf(a, S)
<1>1. UNION {{s} \X (1..b.seg[s].size) : s \in S} = UNION {{s} \X (1..a.seg[s].size) : s \in S}
  OBVIOUS
<1> QED
  BY <1>1 DEF SizeOf

\* How many of some sequence numbers there are, with more of them.
LEMMA CountOfParts ==
  ASSUME NEW A, NEW B, A \subseteq Segments, B \subseteq Segments, A \cap B = {}
  PROVE  /\ Cardinality(A) \in Nat
         /\ Cardinality(A \cup B) = Cardinality(A) + Cardinality(B)
<1>1. IsFiniteSet(A) /\ IsFiniteSet(B)
  BY SegmentsAreNumbers, FS_Subset
<1>2. Cardinality(A) \in Nat /\ Cardinality(B) \in Nat
  BY <1>1, FS_CardinalityType
<1>3. Cardinality(A \cap B) = 0
  BY FS_EmptySet
<1>4. Cardinality(A \cup B) = Cardinality(A) + Cardinality(B) - Cardinality(A \cap B)
  BY <1>1, FS_Union
<1> QED
  BY <1>2, <1>3, <1>4
----------------------------------------------------------------------------
(* Trimming                                                                *)

\* What no trimming touches of a segment.
Stays(x, y) ==
  /\ y.gen = x.gen /\ y.size = x.size /\ y.disc = x.disc
  /\ y.onDisk = x.onDisk /\ y.pending = x.pending /\ y.doomed = x.doomed
  /\ y.left = x.left /\ y.kept = x.kept /\ y.ticks = x.ticks /\ y.pubs = x.pubs

\* What trimming a to b does to segment s: it gives up its data, or leaves the list.
Thins(a, b, s) ==
  LET x == a.seg[s]
      y == b.seg[s]
      leaves == a.low <= s /\ s < b.low
  IN /\ Stays(x, y)
     /\ y.held => x.held
     /\ leaves /\ Durable(x) =>
          y.retired /\ y.age = 0 /\ (y.held => x.pending) /\ (x.held /\ ~x.onDisk => y.held)
     /\ leaves /\ ~Durable(x) =>
          /\ ~y.held /\ y.retired = x.retired /\ y.age = x.age
          /\ s \in b.forgone \/ s + StoreSegments < a.next
     /\ ~leaves => y.retired = x.retired /\ y.age = x.age /\ (x.held /\ ~x.onDisk => y.held)

\* What trimming does to the store.
Rests(a, b) ==
  /\ b.next = a.next /\ b.lastGen = a.lastGen /\ b.inits = a.inits /\ b.window = a.window
  /\ b.queue = a.queue /\ b.unlinks = a.unlinks /\ b.disk = a.disk
  /\ b.degraded = a.degraded /\ b.closed = a.closed /\ b.removing = a.removing
Shrinks(a, b) ==
  /\ b \in StoreType /\ Rests(a, b)
  /\ a.low <= b.low /\ b.low <= b.next
  /\ b.passed = a.passed + Cardinality({s \in a.low..(b.low - 1) : a.seg[s].disc})
  /\ a.forgone \subseteq b.forgone
  /\ \A s \in Segments : Thins(a, b, s)

\* The list is made of segments.
LEMMA ListedAreSegments ==
  ASSUME NEW st, ListIsSound(st)
  PROVE  /\ st.low \in Nat /\ st.next \in Nat /\ st.low >= 1 /\ st.low <= st.next
         /\ Stored(st) \subseteq Segments /\ Stored(st) = st.low..(st.next - 1)
         /\ \A s \in Segments : s \in Nat /\ s >= 1 /\ st.seg[s] \in SegmentType
         /\ \A s \in Nat : s >= 1 /\ s < st.next => s \in Segments
<1>1. st.low \in Nat /\ st.next \in Nat /\ st.seg \in [Segments -> SegmentType]
  BY DEF ListIsSound, StoreType
<1> QED
  BY <1>1, SegmentsAreNumbers DEF ListIsSound, Stored

\* A segment that retires is fetchable from where it was; any other gives up its data.
LEMMA RetiredSegment ==
  ASSUME NEW x \in SegmentType
  PROVE  /\ Retire(x) \in SegmentType /\ Stays(x, Retire(x))
         /\ Durable(x) => Retire(x).retired /\ Retire(x).age = 0
              /\ (Retire(x).held <=> (x.held /\ x.pending))
         /\ ~Durable(x) => Retire(x).retired = x.retired /\ Retire(x).age = x.age /\ ~Retire(x).held
<1>1. CASE Durable(x)
  <2> DEFINE h == x.held /\ x.pending
  <2>1. h \in BOOLEAN
    BY DEF SegmentType
  <2>2. Retire(x) = [x EXCEPT !.retired = TRUE, !.age = 0, !.held = h]
    BY <1>1 DEF Retire
  <2> HIDE DEF h
  <2>3. Retire(x) \in SegmentType
    <3>1. [x EXCEPT !.retired = TRUE] \in SegmentType
      BY DEF SegmentType
    <3>2. [x EXCEPT !.retired = TRUE, !.age = 0] \in SegmentType
      BY <3>1 DEF SegmentType
    <3>3. [x EXCEPT !.retired = TRUE, !.age = 0, !.held = h] \in SegmentType
      BY <2>1, <3>2 DEF SegmentType
    <3> QED
      BY <2>2, <3>3
  <2>4. Stays(x, Retire(x))
    BY <2>1, <2>2 DEF SegmentType, Stays
  <2>5. Retire(x).retired = TRUE /\ Retire(x).age = 0 /\ Retire(x).held = h
    BY <2>1, <2>2 DEF SegmentType
  <2> QED
    BY <1>1, <2>3, <2>4, <2>5 DEF h
<1>2. CASE ~Durable(x)
  <2>1. Retire(x) = [x EXCEPT !.held = FALSE]
    BY <1>2 DEF Retire
  <2> QED
    BY <1>2, <2>1 DEF SegmentType, Stays
<1> QED
  BY <1>1, <1>2

\* The fields of a store that retires heads.
LEMMA RetireToFields ==
  ASSUME NEW st \in StoreType, NEW h \in Nat, NEW n \in Nat,
         n = Cardinality({s \in {t \in Stored(st) : t < h} : st.seg[s].disc})
  PROVE  /\ RetireTo(st, h) \in StoreType /\ Rests(st, RetireTo(st, h))
         /\ RetireTo(st, h).low = h /\ RetireTo(st, h).forgone = st.forgone
         /\ RetireTo(st, h).passed = st.passed + n
         /\ \A s \in Segments :
              /\ s \in Stored(st) /\ s < h => RetireTo(st, h).seg[s] = Retire(st.seg[s])
              /\ ~(s \in Stored(st) /\ s < h) => RetireTo(st, h).seg[s] = st.seg[s]
<1> DEFINE out == {s \in Stored(st) : s < h}
           segs == [s \in Segments |-> IF s \in out THEN Retire(st.seg[s]) ELSE st.seg[s]]
           p == st.passed + n
<1>1. RetireTo(st, h) = [st EXCEPT !.low = h, !.passed = p, !.seg = segs]
  BY DEF RetireTo
<1>2. \A s \in Segments : st.seg[s] \in SegmentType
  BY DEF StoreType
<1>3. segs \in [Segments -> SegmentType]
  BY <1>2, RetiredSegment
<1>4. p \in Nat
  BY DEF StoreType
<1>5. \A s \in Segments :
        /\ s \in Stored(st) /\ s < h => segs[s] = Retire(st.seg[s])
        /\ ~(s \in Stored(st) /\ s < h) => segs[s] = st.seg[s]
  OBVIOUS
<1> HIDE DEF segs, p, out
<1>6. /\ RetireTo(st, h) \in StoreType /\ Rests(st, RetireTo(st, h))
      /\ RetireTo(st, h).low = h /\ RetireTo(st, h).forgone = st.forgone
      /\ RetireTo(st, h).passed = p /\ RetireTo(st, h).seg = segs
  BY <1>1, <1>3, <1>4 DEF StoreType, Rests
<1> QED
  BY <1>5, <1>6 DEF p

\* A store whose heads have retired is a trimmed one, if each was durable, given up or
\* in nobody's playlist.
LEMMA HeadsLeave ==
  ASSUME NEW st, ListIsSound(st), NEW b \in StoreType, NEW h \in Nat,
         st.low <= h, h <= st.next, Rests(st, b), b.low = h, st.forgone \subseteq b.forgone,
         b.passed = st.passed + Cardinality({s \in {t \in Stored(st) : t < h} : st.seg[s].disc}),
         \A s \in Segments :
           /\ s \in Stored(st) /\ s < h => b.seg[s] = Retire(st.seg[s])
           /\ ~(s \in Stored(st) /\ s < h) => b.seg[s] = st.seg[s],
         \A s \in Segments : st.low <= s /\ s < h /\ ~Durable(st.seg[s]) =>
           s \in b.forgone \/ s + StoreSegments < st.next
  PROVE  Shrinks(st, b)
<1>1. {s \in {t \in Stored(st) : t < h} : st.seg[s].disc} = {s \in st.low..(h - 1) : st.seg[s].disc}
  BY ListedAreSegments
<1>2. ASSUME NEW s \in Segments
      PROVE  Thins(st, b, s)
  <2>1. /\ st.low \in Nat /\ st.next \in Nat /\ s \in Nat /\ st.seg[s] \in SegmentType
        /\ s \in Stored(st) <=> (st.low <= s /\ s < st.next)
    BY ListedAreSegments DEF Stored
  <2>2. CASE st.low <= s /\ s < h
    <3>1. b.seg[s] = Retire(st.seg[s])
      BY <2>1, <2>2
    <3> QED
      BY <2>1, <2>2, <3>1, RetiredSegment DEF Thins, Durable, Stays
  <2>3. CASE ~(st.low <= s /\ s < h)
    <3>1. b.seg[s] = st.seg[s]
      BY <2>1, <2>3
    <3> QED
      BY <2>3, <3>1 DEF Thins, Stays
  <2> QED
    BY <2>2, <2>3
<1>3. st.low <= b.low /\ b.low <= b.next /\ b.next = st.next
  BY DEF Rests
<1> QED
  BY <1>1, <1>2, <1>3 DEF Shrinks

\* How many discontinuities leave is a number.
LEMMA LeavingCount ==
  ASSUME NEW st, ListIsSound(st), NEW h
  PROVE  Cardinality({s \in {t \in Stored(st) : t < h} : st.seg[s].disc}) \in Nat
<1> DEFINE S == {s \in {t \in Stored(st) : t < h} : st.seg[s].disc}
<1>1. S \subseteq Segments
  BY ListedAreSegments
<1> HIDE DEF S
<1>2. S \cap {} = {} /\ {} \subseteq Segments
  OBVIOUS
<1>3. Cardinality(S) \in Nat
  BY <1>1, <1>2, CountOfParts
<1> QED
  BY <1>3 DEF S

\* Retiring heads trims, if each was durable or in nobody's playlist.
LEMMA RetireToShrinks ==
  ASSUME NEW st, ListIsSound(st), NEW h \in Nat, st.low <= h, h <= st.next,
         \A s \in Segments : st.low <= s /\ s < h /\ ~Durable(st.seg[s]) =>
           s \in st.forgone \/ s + StoreSegments < st.next
  PROVE  Shrinks(st, RetireTo(st, h)) /\ RetireTo(st, h).low = h
<1> DEFINE b == RetireTo(st, h)
           n == Cardinality({s \in {t \in Stored(st) : t < h} : st.seg[s].disc})
<1>1. st \in StoreType
  BY DEF ListIsSound
<1>2. n \in Nat
  BY LeavingCount
<1>3. /\ b \in StoreType /\ Rests(st, b)
      /\ b.low = h /\ b.forgone = st.forgone
      /\ b.passed = st.passed + n
      /\ \A s \in Segments :
           /\ s \in Stored(st) /\ s < h => b.seg[s] = Retire(st.seg[s])
           /\ ~(s \in Stored(st) /\ s < h) => b.seg[s] = st.seg[s]
  BY <1>1, <1>2, RetireToFields
<1> HIDE DEF b
<1>4. Shrinks(st, b)
  BY <1>3, HeadsLeave
<1> QED
  BY <1>3, <1>4 DEF b

\* So does giving heads up.
LEMMA GivesUpShrinks ==
  ASSUME NEW st, ListIsSound(st), NEW h \in Nat, st.low <= h, h <= st.next
  PROVE  Shrinks(st, GivesUpTo(st, h))
<1> DEFINE b == RetireTo(st, h)
           n == Cardinality({s \in {t \in Stored(st) : t < h} : st.seg[s].disc})
           G == {s \in Stored(st) : s < h /\ ~Durable(st.seg[s])}
           F == b.forgone \cup G
           c == GivesUpTo(st, h)
<1>1. st \in StoreType
  BY DEF ListIsSound
<1>2. n \in Nat
  BY LeavingCount
<1>3. /\ b \in StoreType /\ Rests(st, b)
      /\ b.low = h /\ b.forgone = st.forgone
      /\ b.passed = st.passed + n
      /\ \A s \in Segments :
           /\ s \in Stored(st) /\ s < h => b.seg[s] = Retire(st.seg[s])
           /\ ~(s \in Stored(st) /\ s < h) => b.seg[s] = st.seg[s]
  BY <1>1, <1>2, RetireToFields
<1>4. c = [b EXCEPT !.forgone = F]
  BY DEF GivesUpTo
<1>5. G \subseteq Segments
  BY ListedAreSegments
<1>6. F \in SUBSET Segments
  BY <1>3, <1>5 DEF StoreType
<1>7. \A s \in Segments : st.low <= s /\ s < h /\ ~Durable(st.seg[s]) => s \in F
  BY ListedAreSegments
<1> HIDE DEF b, c, F, n
<1>8. c \in StoreType
  BY <1>3, <1>4, <1>6 DEF StoreType
<1>9. Rests(st, c) /\ c.low = h /\ c.passed = b.passed /\ c.seg = b.seg /\ c.forgone = F
  BY <1>3, <1>4 DEF StoreType, Rests
<1>10. st.forgone \subseteq F
  BY <1>3 DEF F
<1>11. c.passed = st.passed + Cardinality({s \in {t \in Stored(st) : t < h} : st.seg[s].disc})
  BY <1>3, <1>9 DEF n
<1>12. Shrinks(st, c)
  BY <1>3, <1>7, <1>8, <1>9, <1>10, <1>11, HeadsLeave
<1> QED
  BY <1>12 DEF c

\* Segments on disk give up their data.
LEMMA ReleasedShrinks ==
  ASSUME NEW st, ListIsSound(st), NEW h \in Int
  PROVE  /\ Shrinks(st, Released(st, h)) /\ Released(st, h).low = st.low
         /\ Released(st, h).forgone = st.forgone
         /\ \A s \in Segments : s \in Stored(st) /\ s < h /\ st.seg[s].onDisk =>
              ~Released(st, h).seg[s].held
<1> DEFINE b == Released(st, h)
           goes(s) == s \in Stored(st) /\ s < h /\ st.seg[s].onDisk
           segs == [s \in Segments |-> IF goes(s) THEN [st.seg[s] EXCEPT !.held = FALSE] ELSE st.seg[s]]
<1>1. st \in StoreType /\ \A s \in Segments : st.seg[s] \in SegmentType
  BY ListedAreSegments DEF ListIsSound
<1>2. b = [st EXCEPT !.seg = segs]
  BY DEF Released
<1>3. segs \in [Segments -> SegmentType]
  <2> HIDE DEF goes
  <2> QED
    BY <1>1 DEF SegmentType
<1>4. \A s \in Segments : segs[s] = IF goes(s) THEN [st.seg[s] EXCEPT !.held = FALSE] ELSE st.seg[s]
  OBVIOUS
<1> HIDE DEF segs, b
<1>5. /\ b \in StoreType /\ Rests(st, b) /\ b.low = st.low /\ b.forgone = st.forgone
      /\ b.passed = st.passed /\ b.seg = segs
  BY <1>1, <1>2, <1>3 DEF StoreType, Rests
<1>6. ASSUME NEW s \in Segments
      PROVE  /\ Thins(st, b, s)
             /\ goes(s) => ~b.seg[s].held
  <2>1. st.seg[s] \in SegmentType /\ st.low \in Nat /\ s \in Nat
    BY ListedAreSegments
  <2>2. CASE goes(s)
    <3>1. b.seg[s] = [st.seg[s] EXCEPT !.held = FALSE] /\ st.seg[s].onDisk = TRUE
      BY <1>4, <1>5, <2>1, <2>2 DEF SegmentType
    <3>2. /\ Stays(st.seg[s], b.seg[s]) /\ b.seg[s].held = FALSE
          /\ b.seg[s].retired = st.seg[s].retired /\ b.seg[s].age = st.seg[s].age
      BY <2>1, <3>1 DEF SegmentType, Stays
    <3> QED
      BY <1>5, <2>1, <3>1, <3>2 DEF Thins
  <2>3. CASE ~goes(s)
    <3>1. b.seg[s] = st.seg[s]
      BY <1>4, <1>5, <2>3
    <3> HIDE DEF goes
    <3> QED
      BY <1>5, <2>1, <2>3, <3>1 DEF Thins, Stays
  <2> QED
    BY <2>2, <2>3
<1>7. Cardinality({s \in st.low..(st.low - 1) : st.seg[s].disc}) = 0
  <2>1. {s \in st.low..(st.low - 1) : st.seg[s].disc} = {}
    BY ListedAreSegments
  <2> QED
    BY <2>1, FS_EmptySet
<1>8. st.passed \in Nat /\ st.low <= st.next
  BY <1>1, ListedAreSegments DEF StoreType
<1>9. st.low <= b.low /\ b.low <= b.next /\ b.passed = st.passed + 0
  BY <1>5, <1>8, ListedAreSegments DEF Rests
<1> QED
  BY <1>5, <1>6, <1>7, <1>9 DEF Shrinks, b
\* A trimmed store still counts the discontinuities before its list.
LEMMA ShrinksCounts ==
  ASSUME NEW a, NEW b, ListIsSound(a), Shrinks(a, b)
  PROVE  ListIsSound(b)
<1>1. /\ a.low \in Nat /\ a.low >= 1 /\ b.low \in Nat /\ b.next = a.next /\ a.low <= b.low
      /\ b.low <= a.next
  BY ListedAreSegments DEF Shrinks, Rests, StoreType
<1> DEFINE A == {s \in 1..(a.low - 1) : a.seg[s].disc}
           B == {s \in a.low..(b.low - 1) : a.seg[s].disc}
           C == {s \in 1..(b.low - 1) : b.seg[s].disc}
<1>2. 1..(b.low - 1) \subseteq Segments
  BY <1>1, ListedAreSegments
<1>3. \A s \in Segments : b.seg[s].disc = a.seg[s].disc
  BY DEF Shrinks, Thins, Stays
<1>4. C = A \cup B /\ A \cap B = {} /\ A \subseteq Segments /\ B \subseteq Segments
  <2>1. A \cap B = {} /\ A \subseteq Segments /\ B \subseteq Segments
    BY <1>1, <1>2
  <2>2. \A s : s \in C <=> s \in 1..(b.low - 1) /\ a.seg[s].disc
    BY <1>2, <1>3
  <2>3. \A s : s \in 1..(b.low - 1) <=> s \in 1..(a.low - 1) \/ s \in a.low..(b.low - 1)
    BY <1>1
  <2>4. \A s : s \in C <=> s \in A \cup B
    BY <2>2, <2>3
  <2> QED
    BY <2>1, <2>4
<1>5. a.passed = Cardinality(A) /\ b.passed = a.passed + Cardinality(B)
  BY DEF ListIsSound, Shrinks
<1> HIDE DEF A, B, C
<1>6. Cardinality(C) = Cardinality(A) + Cardinality(B)
  BY <1>4, CountOfParts
<1>7. b.passed = Cardinality(C)
  BY <1>5, <1>6
<1> QED
  BY <1>1, <1>7 DEF C, Shrinks, ListIsSound

\* One trimming after another is one.
LEMMA ShrinksTwice ==
  ASSUME NEW a, NEW b, NEW c, ListIsSound(a), Shrinks(a, b), Shrinks(b, c)
  PROVE  Shrinks(a, c)
<1>1. ListIsSound(b)
  BY ShrinksCounts
<1>2. /\ a.low \in Nat /\ b.low \in Nat /\ c.low \in Nat /\ a.low >= 1
      /\ a.low <= b.low /\ b.low <= c.low /\ b.next = a.next /\ c.next = a.next /\ c.low <= c.next
      /\ a.next \in Nat
  BY ListedAreSegments DEF Shrinks, Rests, StoreType
<1>3. c \in StoreType /\ Rests(a, c) /\ a.forgone \subseteq c.forgone /\ a.low <= c.low
  <2>1. Rests(a, c)
    BY DEF Shrinks, Rests
  <2>2. a.forgone \subseteq c.forgone
    BY DEF Shrinks
  <2> QED
    BY <1>2, <2>1, <2>2 DEF Shrinks
<1> DEFINE A == {s \in a.low..(b.low - 1) : a.seg[s].disc}
           B == {s \in b.low..(c.low - 1) : b.seg[s].disc}
           C == {s \in a.low..(c.low - 1) : a.seg[s].disc}
<1>4. c.passed = a.passed + Cardinality(C)
  <2>1. a.low..(c.low - 1) \subseteq Segments
    BY <1>2, ListedAreSegments
  <2>2. \A s \in Segments : b.seg[s].disc = a.seg[s].disc
    BY DEF Shrinks, Thins, Stays
  <2>3. A \cap B = {} /\ A \subseteq Segments /\ B \subseteq Segments
    BY <1>2, <2>1
  <2>4. \A s : s \in B <=> s \in b.low..(c.low - 1) /\ a.seg[s].disc
    BY <1>2, <2>1, <2>2
  <2>5. \A s : s \in a.low..(c.low - 1) <=> s \in a.low..(b.low - 1) \/ s \in b.low..(c.low - 1)
    BY <1>2
  <2>6. C = A \cup B
    BY <2>4, <2>5
  <2>7. b.passed = a.passed + Cardinality(A) /\ c.passed = b.passed + Cardinality(B)
    BY DEF Shrinks
  <2>8. a.passed \in Nat
    BY DEF ListIsSound, StoreType
  <2> HIDE DEF A, B, C
  <2>9. Cardinality(C) = Cardinality(A) + Cardinality(B) /\ Cardinality(A) \in Nat
    BY <2>3, <2>6, CountOfParts
  <2>10. Cardinality(B) \in Nat
    BY <2>3, CountOfParts
  <2> QED
    BY <2>7, <2>8, <2>9, <2>10
<1>5. ASSUME NEW s \in Segments
      PROVE  Thins(a, c, s)
  <2>1. Thins(a, b, s) /\ Thins(b, c, s) /\ s \in Nat
    BY ListedAreSegments DEF Shrinks
  <2>2. b.forgone \subseteq c.forgone
    BY DEF Shrinks
  <2>3. Stays(a.seg[s], c.seg[s]) /\ (c.seg[s].held => a.seg[s].held)
        /\ (Durable(b.seg[s]) <=> Durable(a.seg[s]))
    BY <2>1 DEF Thins, Stays, Durable
  <2>4. CASE ~(a.low <= s /\ s < b.low)
    BY <1>2, <2>1, <2>2, <2>3, <2>4 DEF Thins, Stays
  <2>5. CASE a.low <= s /\ s < b.low
    <3>1. a.low <= s /\ s < c.low /\ ~(b.low <= s /\ s < c.low)
      BY <1>2, <2>1, <2>5
    <3>2. CASE Durable(a.seg[s])
      BY <2>1, <2>3, <2>5, <3>1, <3>2 DEF Thins, Stays
    <3>3. CASE ~Durable(a.seg[s])
      BY <2>1, <2>2, <2>3, <2>5, <3>1, <3>3 DEF Thins, Stays
    <3> QED
      BY <3>2, <3>3
  <2> QED
    BY <2>4, <2>5
<1> QED
  BY <1>2, <1>3, <1>4, <1>5 DEF Shrinks

\* By depth.
LEMMA ByDepthShrinks ==
  ASSUME NEW st, ListIsSound(st)
  PROVE  Shrinks(st, ByDepth(st))
<1>1. /\ st.low \in Nat /\ st.next \in Nat /\ st.low >= 1 /\ st.low <= st.next
      /\ \A s \in Segments : s \in Nat
  BY ListedAreSegments
<1> DEFINE W == {h \in st.low..st.next : h + StoreSegments >= st.next \/ h + Depth >= st.next - 1}
<1>2. W \subseteq Nat /\ W # {}
  <2>1. st.next \in W
    BY <1>1, BoundsAreNumbers
  <2> QED
    BY <1>1, <2>1
<1>3. Min(W) \in W /\ \A y \in W : Min(W) <= y
  <2> HIDE DEF W
  <2> QED
    BY <1>2, LeastOf
<1> DEFINE h == Min(W)
<1>4. h \in Nat /\ st.low <= h /\ h <= st.next
  BY <1>1, <1>3
<1>5. \A s \in Segments : st.low <= s /\ s < h => s + StoreSegments < st.next
  <2> SUFFICES ASSUME NEW s \in Segments, st.low <= s, s < h
               PROVE  s + StoreSegments < st.next
    OBVIOUS
  <2>1. s \notin W
    <3> HIDE DEF W
    <3> QED
      BY <1>1, <1>3, <1>4
  <2> HIDE DEF h
  <2> QED
    BY <1>1, <1>4, <2>1, BoundsAreNumbers
<1>6. Shrinks(st, RetireTo(st, h))
  <2> HIDE DEF h
  <2> QED
    BY <1>4, <1>5, RetireToShrinks
<1>7. Shrinks(st, st)
  <2>1. Cardinality({s \in st.low..(st.low - 1) : st.seg[s].disc}) = 0
    <3>1. {s \in st.low..(st.low - 1) : st.seg[s].disc} = {}
      BY <1>1
    <3> QED
      BY <3>1, FS_EmptySet
  <2>2. st.passed \in Nat /\ st \in StoreType
    BY DEF ListIsSound, StoreType
  <2> QED
    BY <1>1, <2>1, <2>2 DEF Shrinks, Rests, Thins, Stays
<1> QED
  BY <1>6, <1>7 DEF ByDepth

\* By memory: what is on disk outside the newest has given its data up.
LEMMA ByMemoryShrinks ==
  ASSUME NEW st, ListIsSound(st)
  PROVE  /\ Shrinks(st, ByMemory(st))
         /\ \A s \in Segments : s \in Below(ByMemory(st)) /\ ByMemory(st).seg[s].onDisk =>
              ~ByMemory(st).seg[s].held
<1>1. /\ st.low \in Nat /\ st.next \in Nat /\ st.low >= 1 /\ st.low <= st.next
      /\ \A s \in Segments : s \in Nat
  BY ListedAreSegments
<1> DEFINE bare == {s \in Below(st) : ~Durable(st.seg[s])}
           cut == IF bare = {} THEN st ELSE RetireTo(st, Max(bare) + 1)
           e == cut.next - StoreSegments
           b == Released(cut, e)
<1>2. ByMemory(st) = b
  BY DEF ByMemory
<1>3. Shrinks(st, cut)
  <2>1. CASE bare = {}
    <3>1. Cardinality({s \in st.low..(st.low - 1) : st.seg[s].disc}) = 0
      <4>1. {s \in st.low..(st.low - 1) : st.seg[s].disc} = {}
        BY <1>1
      <4> QED
        BY <4>1, FS_EmptySet
    <3>2. st.passed \in Nat /\ st \in StoreType
      BY DEF ListIsSound, StoreType
    <3>3. Shrinks(st, st)
      BY <1>1, <3>1, <3>2 DEF Shrinks, Rests, Thins, Stays
    <3> QED
      BY <2>1, <3>3
  <2>2. CASE bare # {}
    <3>1. \A s \in bare : s \in Nat /\ st.low <= s /\ s + StoreSegments < st.next
      BY <1>1, BoundsAreNumbers DEF Below, Stored
    <3>2. bare \subseteq Nat /\ \A y \in bare : y <= st.next
      BY <1>1, <3>1, BoundsAreNumbers
    <3> DEFINE m == Max(bare)
    <3>3. m \in bare
      <4> HIDE DEF bare
      <4> QED
        BY <1>1, <2>2, <3>2, GreatestOf
    <3>4. m \in Nat /\ st.low <= m /\ m + StoreSegments < st.next
      BY <3>1, <3>3
    <3> HIDE DEF m
    <3>5. \A s \in Segments : st.low <= s /\ s < m + 1 => s + StoreSegments < st.next
      BY <1>1, <3>4, BoundsAreNumbers
    <3>6. m + 1 \in Nat /\ st.low <= m + 1 /\ m + 1 <= st.next
      BY <1>1, <3>4, BoundsAreNumbers
    <3>7. Shrinks(st, RetireTo(st, m + 1))
      BY <3>5, <3>6, RetireToShrinks
    <3> QED
      BY <2>2, <3>7 DEF m
  <2> QED
    BY <2>1, <2>2
<1> HIDE DEF cut
<1>4. ListIsSound(cut)
  BY <1>3, ShrinksCounts
<1>5. cut.next \in Nat /\ e \in Int
  BY <1>4, ListedAreSegments, BoundsAreNumbers
<1>6. /\ Shrinks(cut, b) /\ b.low = cut.low
      /\ \A s \in Segments : s \in Stored(cut) /\ s < e /\ cut.seg[s].onDisk => ~b.seg[s].held
  <2> HIDE DEF e
  <2> QED
    BY <1>4, <1>5, ReleasedShrinks
<1> HIDE DEF b
<1>7. Shrinks(st, b)
  BY <1>3, <1>6, ShrinksTwice
<1>8. ASSUME NEW s \in Segments, s \in Below(b), b.seg[s].onDisk
      PROVE  ~b.seg[s].held
  <2>1. b.next = cut.next /\ cut.seg[s].onDisk
    BY <1>6, <1>8 DEF Shrinks, Rests, Thins, Stays
  <2>2. s \in Stored(cut) /\ s < e
    BY <1>1, <1>5, <1>6, <1>8, <2>1, BoundsAreNumbers DEF Below, Stored
  <2> QED
    BY <1>6, <2>1, <2>2
<1> QED
  BY <1>2, <1>7, <1>8

\* By bytes.
LEMMA ByBytesShrinks ==
  ASSUME NEW st, ListIsSound(st)
  PROVE  Shrinks(st, ByBytes(st))
<1>1. /\ st.low \in Nat /\ st.next \in Nat /\ st.low >= 1 /\ st.low <= st.next
  BY ListedAreSegments
<1> DEFINE Enough(c) == Fits(c) \/ \A s \in HeldOf(c, Stored(c)) : c.seg[s].pending
           Heads == st.low..st.next
           P == {h \in Heads : h = st.next \/ Fits(Released(st, h))}
           freed == Released(st, Min(P))
           Q == {h \in Heads : h = st.next \/ Enough(GivesUpTo(freed, h))}
<1>2. ByBytes(st) = GivesUpTo(freed, Min(Q))
  BY DEF ByBytes
<1>3. P \subseteq Heads /\ st.next \in P /\ Q \subseteq Heads /\ st.next \in Q
  <2> HIDE DEF Enough, freed
  <2> QED
    BY <1>1
<1> HIDE DEF P, Q
<1>4. Min(P) \in Heads /\ Min(Q) \in Heads
  <2>1. P \subseteq Nat /\ Q \subseteq Nat /\ P # {} /\ Q # {}
    BY <1>1, <1>3
  <2> QED
    BY <1>3, <2>1, LeastOf
<1>5. Min(P) \in Int /\ Min(Q) \in Nat /\ st.low <= Min(Q) /\ Min(Q) <= st.next
  BY <1>1, <1>4
<1> DEFINE p == Min(P)
           q == Min(Q)
<1> HIDE DEF freed
<1>6. Shrinks(st, freed) /\ freed.low = st.low
  BY <1>5, ReleasedShrinks DEF freed
<1>7. ListIsSound(freed) /\ freed.next = st.next
  BY <1>6, ShrinksCounts DEF Shrinks, Rests
<1>8. Shrinks(freed, GivesUpTo(freed, q))
  <2>1. q \in Nat /\ freed.low <= q /\ q <= freed.next
    BY <1>5, <1>6, <1>7
  <2> HIDE DEF q
  <2> QED
    BY <1>7, <2>1, GivesUpShrinks
<1> HIDE DEF q
<1>9. Shrinks(st, GivesUpTo(freed, q))
  BY <1>6, <1>8, ShrinksTwice
<1> QED
  BY <1>2, <1>9 DEF q

\* The trim.
LEMMA TrimShrinks ==
  ASSUME NEW st, ListIsSound(st)
  PROVE  /\ Shrinks(st, Trim(st)) /\ ListIsSound(Trim(st))
         /\ \A s \in Segments : s \in Below(Trim(st)) /\ Trim(st).seg[s].onDisk
                                  => ~Trim(st).seg[s].held
<1> DEFINE a == ByDepth(st)
           b == ByMemory(a)
           c == ByBytes(b)
<1>1. Trim(st) = c
  BY DEF Trim
<1>2. Shrinks(st, a) /\ ListIsSound(a)
  BY ByDepthShrinks, ShrinksCounts
<1> HIDE DEF a
<1>3. /\ Shrinks(a, b) /\ ListIsSound(b)
      /\ \A s \in Segments : s \in Below(b) /\ b.seg[s].onDisk => ~b.seg[s].held
  BY <1>2, ByMemoryShrinks, ShrinksCounts
<1> HIDE DEF b
<1>4. Shrinks(b, c) /\ ListIsSound(c)
  BY <1>3, ByBytesShrinks, ShrinksCounts
<1> HIDE DEF c
<1>5. Shrinks(st, c)
  BY <1>2, <1>3, <1>4, ShrinksTwice
<1>6. ASSUME NEW s \in Segments, s \in Below(c), c.seg[s].onDisk
      PROVE  ~c.seg[s].held
  <2>1. b.low \in Nat /\ b.next \in Nat /\ c.low \in Nat /\ c.next = b.next /\ b.low <= c.low
          /\ s \in Nat
    BY <1>3, <1>4, ListedAreSegments DEF Shrinks, Rests
  <2>2. s \in Below(b)
    BY <1>6, <2>1, BoundsAreNumbers DEF Below, Stored
  <2>3. b.seg[s].onDisk /\ (c.seg[s].held => b.seg[s].held)
    BY <1>4, <1>6 DEF Shrinks, Thins, Stays
  <2> QED
    BY <1>3, <2>2, <2>3
<1> QED
  BY <1>1, <1>4, <1>5, <1>6
\* The least of two numbers.
LEMMA LeastOfTwo ==
  ASSUME NEW m \in Nat, NEW n \in Nat
  PROVE  /\ Min({m, n}) \in Nat /\ Min({m, n}) <= m /\ Min({m, n}) <= n
         /\ Min({m, n}) = m \/ Min({m, n}) = n
<1>1. {m, n} \subseteq Nat /\ {m, n} # {}
  OBVIOUS
<1>2. Min({m, n}) \in {m, n} /\ \A y \in {m, n} : Min({m, n}) <= y
  BY <1>1, LeastOf
<1> QED
  BY <1>2

\* A trimmed store is sound.
LEMMA ShrinksKeeps ==
  ASSUME NEW a, NEW b, NEW k \in {0, 1}, SoundStore(a, k), Shrinks(a, b)
  PROVE  SoundStore(b, k)
<1>1. ListIsSound(a) /\ ListIsSound(b)
  BY ShrinksCounts DEF SoundStore
<1>2. /\ a.low \in Nat /\ a.next \in Nat /\ b.low \in Nat /\ b.next = a.next
      /\ a.low <= b.low /\ b.low <= a.next /\ b.degraded = a.degraded /\ b.window = a.window
      /\ a.forgone \subseteq b.forgone
  BY <1>1, ListedAreSegments DEF Shrinks, Rests
<1>3. ASSUME NEW s \in Segments
      PROVE  PlaceIsSound(b, s) /\ PastIsSound(b, s, k)
  <2>1. PlaceIsSound(a, s) /\ PastIsSound(a, s, k) /\ Thins(a, b, s)
    BY DEF SoundStore, Shrinks
  <2>2. s \in Nat /\ a.seg[s] \in SegmentType /\ b.seg[s] \in SegmentType
    BY <1>1, ListedAreSegments
  <2>3. /\ s \in Stored(a) <=> (a.low <= s /\ s < a.next)
        /\ s \in Stored(b) <=> (b.low <= s /\ s < a.next)
    BY <1>2, <2>2 DEF Stored
  <2> DEFINE x == a.seg[s]
             y == b.seg[s]
  <2>4. /\ x.held \in BOOLEAN /\ x.onDisk \in BOOLEAN /\ x.pending \in BOOLEAN
             /\ x.retired \in BOOLEAN
        /\ y.held \in BOOLEAN /\ y.retired \in BOOLEAN /\ x.age \in Nat /\ x.ticks \in Nat
             /\ x.pubs \in Nat
        /\ y.age \in Nat /\ x.left \in BOOLEAN /\ x.kept \in BOOLEAN
    BY <2>2 DEF SegmentType
  <2>5. Stays(x, y)
    BY <2>1 DEF Thins
  <2>6. PlaceIsSound(b, s)
    <3>1. s >= b.next => ~y.held /\ ~y.onDisk /\ ~y.pending /\ ~y.retired /\ ~y.doomed
      BY <1>2, <2>1, <2>2, <2>4, <2>5 DEF PlaceIsSound, Thins, Stays, Durable
    <3>2. s \in Stored(b) => ~y.retired /\ (y.held \/ y.onDisk)
      BY <1>2, <2>1, <2>2, <2>3, <2>4, <2>5 DEF PlaceIsSound, Thins, Stays, Durable
    <3>3. s < b.low /\ ~y.retired => ~y.held /\ ~y.onDisk /\ ~y.pending
      BY <1>2, <2>1, <2>2, <2>3, <2>4, <2>5 DEF PlaceIsSound, Thins, Stays, Durable
    <3>4. y.retired => s < b.low /\ (y.onDisk \/ y.pending)
      <4>1. CASE a.low <= s /\ s < b.low
        <5>1. s \in Stored(a)
          BY <1>2, <2>2, <2>3, <4>1
        <5>2. ~x.retired
          BY <2>1, <5>1 DEF PlaceIsSound
        <5>3. y.retired => Durable(x)
          BY <2>1, <2>4, <4>1, <5>2 DEF Thins
        <5> QED
          BY <2>5, <4>1, <5>3 DEF Stays, Durable
      <4>2. CASE ~(a.low <= s /\ s < b.low)
        <5>1. y.retired => x.retired
          BY <2>1, <2>4, <4>2 DEF Thins
        <5>2. x.retired => s < a.low /\ (x.onDisk \/ x.pending)
          BY <2>1 DEF PlaceIsSound
        <5> QED
          BY <1>2, <2>2, <2>5, <5>1, <5>2 DEF Stays
      <4> QED
        BY <4>1, <4>2
    <3>5. y.retired => (y.held => y.pending)
      BY <1>2, <2>1, <2>2, <2>3, <2>4, <2>5 DEF PlaceIsSound, Thins, Stays, Durable
    <3>6. y.pending => y.held /\ ~y.onDisk /\ ~b.degraded
      BY <1>2, <2>1, <2>2, <2>4, <2>5 DEF PlaceIsSound, Thins, Stays, Durable
    <3>7. ((y.onDisk \/ y.pending) => b.window) /\ (y.doomed => ~y.onDisk /\ ~y.pending)
      BY <1>2, <2>1, <2>5 DEF PlaceIsSound, Stays
    <3> QED
      BY <3>1, <3>2, <3>3, <3>4, <3>5, <3>6, <3>7 DEF PlaceIsSound
  <2>7. PastIsSound(b, s, k)
    <3> SUFFICES ASSUME s < a.next
                 PROVE  PastIsSound(b, s, k)
      BY <1>2 DEF PastIsSound
    <3>1. /\ y.left => s < b.low \/ s + LiveEdge < b.next
          /\ y.left /\ ~y.kept => ~y.onDisk /\ ~y.pending
      BY <1>2, <2>1, <2>2, <2>5 DEF PastIsSound, Stays
    <3>2. /\ y.retired /\ y.left => y.kept /\ y.ticks >= y.age
          /\ y.retired /\ ~y.left => y.age = 0
      BY <1>2, <2>1, <2>2, <2>3, <2>4, <2>5 DEF PastIsSound, PlaceIsSound, Thins, Stays, Durable
    <3>3. s \notin b.forgone /\ ~y.onDisk /\ ~y.pending =>
            /\ ~y.left => s + LiveEdge + k >= b.next
            /\ y.left /\ y.kept => y.ticks >= Unlisted
            /\ y.left /\ ~y.kept => y.pubs + k >= Unlisted
                 \/ y.pubs + k >= b.next - 1 - s - LiveEdge
      BY <1>2, <2>1, <2>5 DEF PastIsSound, Stays
    <3>4. s \notin b.forgone /\ ~y.onDisk /\ ~y.pending /\ s < b.low /\ ~(y.left /\ y.kept)
            => s + StoreSegments < b.next
      BY <1>2, <2>1, <2>2, <2>3, <2>5 DEF PastIsSound, PlaceIsSound, Thins, Stays, Durable
    <3> QED
      BY <3>1, <3>2, <3>3, <3>4 DEF PastIsSound
  <2> QED
    BY <2>6, <2>7
<1> QED
  BY <1>1, <1>3 DEF SoundStore

\* The playlist: the end of the list, whose bare segments are at the live edge, and
\* which leaves out nothing of the live edge.
LEMMA ListedIsTheEnd ==
  ASSUME NEW st, ListIsSound(st)
  PROVE  \E m \in Nat :
           /\ Listed(st) = m..(st.next - 1) /\ st.low <= m
           /\ m <= st.next /\ (st.low < st.next => m < st.next)
           /\ \A s \in Segments : m <= s /\ s < st.next /\ ~Durable(st.seg[s])
                                    => s + LiveEdge >= st.next
           /\ \A s \in Segments : st.low <= s /\ s < m => s + LiveEdge < st.next
<1>1. /\ st.low \in Nat /\ st.next \in Nat /\ st.low >= 1 /\ st.low <= st.next
      /\ \A s \in Segments : s \in Nat /\ s >= 1
      /\ Stored(st) \subseteq Segments /\ Stored(st) = st.low..(st.next - 1)
  BY ListedAreSegments
<1> DEFINE bare == {s \in Stored(st) : ~Durable(st.seg[s]) /\ s + LiveEdge < st.next}
<1>2. Listed(st) = IF bare = {} THEN Stored(st) ELSE (Max(bare) + 1)..(st.next - 1)
  BY DEF Listed
<1>3. CASE bare = {}
  <2>1. \A s \in Segments : st.low <= s /\ s < st.next /\ ~Durable(st.seg[s])
                              => s + LiveEdge >= st.next
    BY <1>1, <1>3, BoundsAreNumbers
  <2> HIDE DEF bare
  <2> QED
    BY <1>1, <1>2, <1>3, <2>1
<1>4. CASE bare # {}
  <2> DEFINE m == Max(bare)
  <2>1. \A s \in bare : s \in Nat /\ st.low <= s /\ s + LiveEdge < st.next
    BY <1>1
  <2>2. bare \subseteq Nat /\ \A y \in bare : y <= st.next
    BY <1>1, <2>1, BoundsAreNumbers
  <2>3. m \in bare /\ \A y \in bare : m >= y
    <3> HIDE DEF bare
    <3> QED
      BY <1>1, <1>4, <2>2, GreatestOf
  <2>4. m \in Nat /\ st.low <= m /\ m + LiveEdge < st.next
    BY <2>1, <2>3
  <2> HIDE DEF m
  <2>5. \A s \in Segments : m + 1 <= s /\ s < st.next /\ ~Durable(st.seg[s])
                              => s + LiveEdge >= st.next
    <3> SUFFICES ASSUME NEW s \in Segments, m + 1 <= s, s < st.next, ~Durable(st.seg[s]),
                        s + LiveEdge < st.next
                 PROVE  FALSE
      BY <1>1, BoundsAreNumbers
    <3>1. s \in bare
      BY <1>1, <2>4
    <3> QED
      BY <1>1, <2>3, <2>4, <3>1
  <2> HIDE DEF bare
  <2>6. Listed(st) = (m + 1)..(st.next - 1)
    BY <1>2, <1>4 DEF m
  <2>7. \A s \in Segments : st.low <= s /\ s < m + 1 => s + LiveEdge < st.next
    BY <1>1, <2>4, BoundsAreNumbers
  <2>8. m + 1 \in Nat /\ st.low <= m + 1 /\ m + 1 < st.next
    BY <1>1, <2>4, BoundsAreNumbers
  <2> QED
    BY <1>1, <2>5, <2>6, <2>7, <2>8
<1> QED
  BY <1>3, <1>4

\* The playlist depends on the list's ends and on what is durable alone.
LEMMA ListedSame ==
  ASSUME NEW a, NEW b, ListIsSound(a), b.low = a.low, b.next = a.next,
         \A s \in Segments : b.seg[s].onDisk = a.seg[s].onDisk
                               /\ b.seg[s].pending = a.seg[s].pending
  PROVE  Stored(b) = Stored(a) /\ Listed(b) = Listed(a)
<1>1. Stored(b) = Stored(a) /\ Stored(a) \subseteq Segments
  BY ListedAreSegments DEF Stored
<1>2. \A s \in Segments : Durable(b.seg[s]) <=> Durable(a.seg[s])
  BY DEF Durable
<1>3. {s \in Stored(b) : ~Durable(b.seg[s]) /\ s + LiveEdge < b.next}
        = {s \in Stored(a) : ~Durable(a.seg[s]) /\ s + LiveEdge < a.next}
  BY <1>1, <1>2
<1> QED
  BY <1>1, <1>3 DEF Listed

\* So does the count of discontinuities.
LEMMA GoneSame ==
  ASSUME NEW a, NEW b, ListIsSound(a), b.low = a.low, b.next = a.next, b.passed = a.passed,
         \A s \in Segments : b.seg[s].onDisk = a.seg[s].onDisk
                               /\ b.seg[s].pending = a.seg[s].pending
                             /\ b.seg[s].disc = a.seg[s].disc
  PROVE  Gone(b) = Gone(a)
<1>1. Stored(b) = Stored(a) /\ Listed(b) = Listed(a) /\ Stored(a) \subseteq Segments
  BY ListedSame, ListedAreSegments
<1>2. {s \in Stored(b) : s < Min(Listed(b)) /\ b.seg[s].disc}
        = {s \in Stored(a) : s < Min(Listed(a)) /\ a.seg[s].disc}
  BY <1>1
<1> QED
  BY <1>2 DEF Gone

\* The discontinuity sequence is how many discontinuities come before the playlist.
LEMMA GoneIsTheCount ==
  ASSUME NEW st, ListIsSound(st), Stored(st) # {}
  PROVE  Gone(st) = Cardinality({s \in 1..(Min(Listed(st)) - 1) : st.seg[s].disc})
<1>1. /\ st.low \in Nat /\ st.next \in Nat /\ st.low >= 1 /\ st.low <= st.next
      /\ \A s \in Segments : s \in Nat /\ s >= 1
      /\ \A s \in Nat : s >= 1 /\ s < st.next => s \in Segments
      /\ Stored(st) \subseteq Segments /\ Stored(st) = st.low..(st.next - 1)
  BY ListedAreSegments
<1>2. PICK m \in Nat : /\ Listed(st) = m..(st.next - 1) /\ st.low <= m
                       /\ m <= st.next /\ (st.low < st.next => m < st.next)
  BY ListedIsTheEnd
<1>3. st.low < st.next
  BY <1>1
<1>4. Listed(st) \subseteq Nat /\ m \in Listed(st) /\ \A y \in Listed(st) : m <= y
  BY <1>1, <1>2, <1>3
<1>5. Min(Listed(st)) = m
  <2>1. Min(Listed(st)) \in Listed(st) /\ \A y \in Listed(st) : Min(Listed(st)) <= y
    BY <1>4, LeastOf
  <2> DEFINE n == Min(Listed(st))
  <2>2. n \in Nat /\ n <= m /\ m <= n
    BY <1>4, <2>1
  <2> HIDE DEF n
  <2>3. n = m
    BY <2>2
  <2> QED
    BY <2>3 DEF n
<1> DEFINE A == {s \in 1..(st.low - 1) : st.seg[s].disc}
           B == {s \in Stored(st) : s < m /\ st.seg[s].disc}
           C == {s \in 1..(m - 1) : st.seg[s].disc}
<1>6. C = A \cup B /\ A \cap B = {} /\ A \subseteq Segments /\ B \subseteq Segments
  BY <1>1, <1>2, <1>3
<1>7. Gone(st) = Cardinality(A) + Cardinality(B)
  <2>1. st.passed = Cardinality(A)
    BY DEF ListIsSound
  <2> HIDE DEF A
  <2>2. Gone(st) = st.passed + Cardinality(B)
    BY <1>5 DEF Gone
  <2> QED
    BY <2>1, <2>2
<1> HIDE DEF A, B, C
<1>8. Cardinality(C) = Cardinality(A) + Cardinality(B)
  BY <1>6, CountOfParts
<1> QED
  BY <1>5, <1>7, <1>8 DEF C
----------------------------------------------------------------------------
(* The store's other steps                                                 *)

\* What the writer and the reads rely on: nothing comes on disk or into flight, or is
\* found again.
Follows(a, b) ==
  /\ b.next = a.next /\ b.removing = a.removing /\ b.closed = a.closed
  /\ b.unlinks = a.unlinks /\ b.disk = a.disk
  /\ \A s \in Segments :
       /\ b.seg[s].onDisk = a.seg[s].onDisk /\ b.seg[s].doomed = a.seg[s].doomed
       /\ b.seg[s].size = a.seg[s].size /\ b.seg[s].gen = a.seg[s].gen
       /\ b.seg[s].pending => a.seg[s].pending
       /\ Found(b, s) => Found(a, s)

\* Nothing outside the newest holds data that is on disk.
Spares(st) == \A s \in Segments : s \in Below(st) /\ st.seg[s].onDisk => ~st.seg[s].held

\* One after the other.
LEMMA FollowsTwice ==
  ASSUME NEW a, NEW b, NEW c, Follows(a, b), Follows(b, c)
  PROVE  Follows(a, c)
BY DEF Follows

\* Trimming finds nothing again.
LEMMA TrimFollows ==
  ASSUME NEW st, NEW k \in {0, 1}, SoundStore(st, k)
  PROVE  /\ SoundStore(Trim(st), k) /\ Follows(st, Trim(st)) /\ Spares(Trim(st))
         /\ Trim(st).degraded = st.degraded /\ Trim(st).queue = st.queue
              /\ Trim(st).inits = st.inits
         /\ Trim(st).lastGen = st.lastGen
         /\ \A s \in Segments : Trim(st).seg[s].pending = st.seg[s].pending
<1> DEFINE b == Trim(st)
<1>1. ListIsSound(st)
  BY DEF SoundStore
<1>2. Shrinks(st, b) /\ ListIsSound(b) /\ Spares(b)
  BY <1>1, TrimShrinks DEF Spares
<1> HIDE DEF b
<1>3. SoundStore(b, k)
  BY <1>2, ShrinksKeeps
<1>4. ASSUME NEW s \in Segments, Found(b, s)
      PROVE  Found(st, s)
  <2>1. /\ st.low \in Nat /\ st.next \in Nat /\ b.low \in Nat /\ s \in Nat
        /\ st.low <= b.low /\ b.low <= st.next /\ b.next = st.next
    BY <1>1, <1>2, ListedAreSegments DEF Shrinks, Rests
  <2>2. CASE st.low <= s /\ s < st.next
    BY <2>1, <2>2 DEF Found, Stored
  <2>3. CASE ~(st.low <= s /\ s < st.next)
    <3>1. s \notin Stored(b) /\ ~(st.low <= s /\ s < b.low)
      BY <2>1, <2>3 DEF Stored
    <3>2. b.seg[s].retired = st.seg[s].retired
      BY <1>2, <3>1 DEF Shrinks, Thins
    <3> QED
      BY <1>4, <3>1, <3>2 DEF Found
  <2> QED
    BY <2>2, <2>3
<1>5. Follows(st, b)
  BY <1>2, <1>4 DEF Follows, Shrinks, Rests, Thins, Stays
<1>6. /\ b.degraded = st.degraded /\ b.queue = st.queue /\ b.inits = st.inits
           /\ b.lastGen = st.lastGen
      /\ \A s \in Segments : b.seg[s].pending = st.seg[s].pending
  BY <1>2 DEF Shrinks, Rests, Thins, Stays
<1> QED
  BY <1>2, <1>3, <1>5, <1>6 DEF b

\* A segment that is no longer on its way to the disk.
LEMMA StoppedSegment ==
  ASSUME NEW x \in SegmentType
  PROVE  /\ Stops(x) \in SegmentType
         /\ Stops(x).gen = x.gen /\ Stops(x).size = x.size /\ Stops(x).disc = x.disc
         /\ Stops(x).onDisk = x.onDisk /\ Stops(x).doomed = x.doomed /\ Stops(x).age = x.age
         /\ Stops(x).left = x.left /\ Stops(x).kept = x.kept
         /\ Stops(x).ticks = x.ticks /\ Stops(x).pubs = x.pubs
         /\ ~Stops(x).pending
         /\ x.pending => ~Stops(x).retired /\ (Stops(x).held <=> x.held /\ ~x.retired)
         /\ ~x.pending => Stops(x).retired = x.retired /\ Stops(x).held = x.held
<1>1. CASE x.pending
  <2> DEFINE h == x.held /\ ~x.retired
  <2>1. Stops(x) = [x EXCEPT !.pending = FALSE, !.retired = FALSE, !.held = h]
    BY <1>1 DEF Stops
  <2>2. h \in BOOLEAN
    BY DEF SegmentType
  <2> HIDE DEF h
  <2>3. [x EXCEPT !.pending = FALSE] \in SegmentType
    BY DEF SegmentType
  <2>4. [x EXCEPT !.pending = FALSE, !.retired = FALSE] \in SegmentType
    BY <2>3 DEF SegmentType
  <2>5. [x EXCEPT !.pending = FALSE, !.retired = FALSE, !.held = h] \in SegmentType
    BY <2>2, <2>4 DEF SegmentType
  <2>6. Stops(x).retired = FALSE /\ Stops(x).held = h /\ Stops(x).pending = FALSE
    BY <2>1 DEF SegmentType
  <2>7. /\ Stops(x).gen = x.gen /\ Stops(x).size = x.size /\ Stops(x).disc = x.disc
        /\ Stops(x).onDisk = x.onDisk /\ Stops(x).doomed = x.doomed /\ Stops(x).age = x.age
        /\ Stops(x).left = x.left /\ Stops(x).kept = x.kept
        /\ Stops(x).ticks = x.ticks /\ Stops(x).pubs = x.pubs
    BY <2>1 DEF SegmentType
  <2> QED
    BY <1>1, <2>1, <2>5, <2>6, <2>7 DEF h
<1>2. CASE ~x.pending
  <2>1. Stops(x) = x /\ x.pending = FALSE
    BY <1>2 DEF SegmentType, Stops
  <2> QED
    BY <1>2, <2>1
<1> QED
  BY <1>1, <1>2

\* A window that stops persisting gives up what was on its way to the disk, if
\* somebody may still want it.
LEMMA DegradeFollows ==
  ASSUME NEW st, NEW k \in {0, 1}, SoundStore(st, k), ~st.degraded
  PROVE  /\ SoundStore(Degrade(st), k) /\ Follows(st, Degrade(st)) /\ Spares(Degrade(st))
         /\ Degrade(st).degraded = TRUE /\ Degrade(st).queue = {}
         /\ Degrade(st).inits = st.inits /\ Degrade(st).lastGen = st.lastGen
<1> DEFINE late(s) == st.seg[s].pending /\ (st.seg[s].retired \/ s + LiveEdge < st.next)
           L == {s \in Segments : late(s)}
           F == st.forgone \cup L
           segs == [s \in Segments |-> Stops(st.seg[s])]
           b == [st EXCEPT !.degraded = TRUE, !.queue = {}, !.seg = segs, !.forgone = F]
<1>1. Degrade(st) = Trim(b)
  BY DEF Degrade
<1>2. ListIsSound(st) /\ st \in StoreType /\ \A s \in Segments : st.seg[s] \in SegmentType
        /\ s \in Nat
  BY ListedAreSegments DEF SoundStore, ListIsSound
<1>4. segs \in [Segments -> SegmentType] /\ \A s \in Segments : segs[s] = Stops(st.seg[s])
  BY <1>2, StoppedSegment
<1>5. F \in SUBSET Segments /\ st.forgone \subseteq F
  BY <1>2 DEF StoreType
<1> HIDE DEF segs
<1>6. /\ b.low = st.low /\ b.next = st.next /\ b.lastGen = st.lastGen /\ b.inits = st.inits
      /\ b.passed = st.passed /\ b.window = st.window /\ b.unlinks = st.unlinks /\ b.disk = st.disk
      /\ b.closed = st.closed /\ b.removing = st.removing
      /\ b.degraded = TRUE /\ b.queue = {} /\ b.seg = segs /\ b.forgone = F
  <2> HIDE DEF F
  <2> QED
    BY <1>2 DEF StoreType
<1>7. b \in StoreType
  <2> HIDE DEF F
  <2>1. [st EXCEPT !.degraded = TRUE, !.queue = {}] \in StoreType
    BY <1>2 DEF StoreType
  <2> QED
    BY <1>4, <1>5, <2>1 DEF StoreType
<1>8. \A s \in Segments : s \in F <=> s \in st.forgone \/ late(s)
  OBVIOUS
<1> HIDE DEF b, F
<1>9. ListIsSound(b)
  <2>1. \A s \in Segments : b.seg[s].disc = st.seg[s].disc
    BY <1>2, <1>4, <1>6, StoppedSegment
  <2>2. 1..(st.low - 1) \subseteq Segments
    BY <1>2, ListedAreSegments
  <2>3. {s \in 1..(b.low - 1) : b.seg[s].disc} = {s \in 1..(st.low - 1) : st.seg[s].disc}
    BY <1>6, <2>1, <2>2
  <2> QED
    BY <1>2, <1>6, <1>7, <2>3 DEF ListIsSound
<1>10. /\ Stored(b) = Stored(st) /\ st.low \in Nat /\ st.next \in Nat
       /\ \A s \in Segments : s \in Stored(st) <=> (st.low <= s /\ s < st.next)
  BY <1>2, <1>6, ListedAreSegments DEF Stored
<1>11. ASSUME NEW s \in Segments
       PROVE  PlaceIsSound(b, s) /\ PastIsSound(b, s, k) /\ (Found(b, s) => Found(st, s))
  <2> DEFINE x == st.seg[s]
             y == b.seg[s]
  <2>1. PlaceIsSound(st, s) /\ PastIsSound(st, s, k) /\ s \in Nat /\ x \in SegmentType
          /\ y = Stops(x)
    BY <1>2, <1>4, <1>6 DEF SoundStore
  <2>2. /\ y.onDisk = x.onDisk /\ y.doomed = x.doomed /\ y.age = x.age /\ y.left = x.left
             /\ y.kept = x.kept
        /\ y.ticks = x.ticks /\ y.pubs = x.pubs
        /\ ~y.pending
        /\ x.pending => ~y.retired /\ (y.held <=> x.held /\ ~x.retired)
        /\ ~x.pending => y.retired = x.retired /\ y.held = x.held
    BY <2>1, StoppedSegment
  <2>3. /\ x.held \in BOOLEAN /\ x.onDisk \in BOOLEAN /\ x.pending \in BOOLEAN
             /\ x.retired \in BOOLEAN
        /\ x.left \in BOOLEAN /\ x.kept \in BOOLEAN /\ x.ticks \in Nat /\ x.age \in Nat
             /\ x.pubs \in Nat
    BY <2>1 DEF SegmentType
  <2> HIDE DEF x, y
  <2>4. PlaceIsSound(st, s) <=>
          /\ s >= st.next => ~x.held /\ ~x.onDisk /\ ~x.pending /\ ~x.retired /\ ~x.doomed
          /\ s \in Stored(st) => ~x.retired /\ (x.held \/ x.onDisk)
          /\ s < st.low /\ ~x.retired => ~x.held /\ ~x.onDisk /\ ~x.pending
          /\ x.retired => s < st.low /\ (x.onDisk \/ x.pending) /\ (x.held => x.pending)
          /\ x.pending => x.held /\ ~x.onDisk /\ ~st.degraded
          /\ (x.onDisk \/ x.pending) => st.window
          /\ x.doomed => ~x.onDisk /\ ~x.pending
    BY DEF PlaceIsSound, x
  <2>5. PlaceIsSound(b, s) <=>
          /\ s >= st.next => ~y.held /\ ~y.onDisk /\ ~y.pending /\ ~y.retired /\ ~y.doomed
          /\ s \in Stored(st) => ~y.retired /\ (y.held \/ y.onDisk)
          /\ s < st.low /\ ~y.retired => ~y.held /\ ~y.onDisk /\ ~y.pending
          /\ y.retired => s < st.low /\ (y.onDisk \/ y.pending) /\ (y.held => y.pending)
          /\ y.pending => y.held /\ ~y.onDisk /\ ~b.degraded
          /\ (y.onDisk \/ y.pending) => st.window
          /\ y.doomed => ~y.onDisk /\ ~y.pending
    BY <1>6, <1>10 DEF PlaceIsSound, y
  <2>6. PlaceIsSound(b, s)
    <3>1. CASE x.pending
      <4>1. s < st.low <=> x.retired
        BY <2>1, <2>4, <3>1
      <4> QED
        BY <2>1, <2>2, <2>4, <2>5, <3>1, <4>1, <1>10
    <3>2. CASE ~x.pending
      BY <2>1, <2>2, <2>3, <2>4, <2>5, <3>2
    <3> QED
      BY <3>1, <3>2
  <2>7. PastIsSound(st, s, k) <=>
          (s < st.next =>
             /\ x.left => s < st.low \/ s + LiveEdge < st.next
             /\ x.left /\ ~x.kept => ~x.onDisk /\ ~x.pending
             /\ x.retired /\ x.left => x.kept /\ x.ticks >= x.age
             /\ x.retired /\ ~x.left => x.age = 0
             /\ s \notin st.forgone /\ ~x.onDisk /\ ~x.pending =>
                  /\ ~x.left => s + LiveEdge + k >= st.next
                  /\ x.left /\ x.kept => x.ticks >= Unlisted
                  /\ x.left /\ ~x.kept => x.pubs + k >= Unlisted
                       \/ x.pubs + k >= st.next - 1 - s - LiveEdge
                  /\ s < st.low /\ ~(x.left /\ x.kept) => s + StoreSegments < st.next)
    BY DEF PastIsSound, x
  <2>8. PastIsSound(b, s, k) <=>
          (s < st.next =>
             /\ y.left => s < st.low \/ s + LiveEdge < st.next
             /\ y.left /\ ~y.kept => ~y.onDisk /\ ~y.pending
             /\ y.retired /\ y.left => y.kept /\ y.ticks >= y.age
             /\ y.retired /\ ~y.left => y.age = 0
             /\ s \notin F /\ ~y.onDisk /\ ~y.pending =>
                  /\ ~y.left => s + LiveEdge + k >= st.next
                  /\ y.left /\ y.kept => y.ticks >= Unlisted
                  /\ y.left /\ ~y.kept => y.pubs + k >= Unlisted
                       \/ y.pubs + k >= st.next - 1 - s - LiveEdge
                  /\ s < st.low /\ ~(y.left /\ y.kept) => s + StoreSegments < st.next)
    BY <1>6 DEF PastIsSound, y
  <2>9. PastIsSound(b, s, k)
    <3> SUFFICES ASSUME s < st.next
                 PROVE  PastIsSound(b, s, k)
      BY <2>8
    <3>1. CASE x.pending
      <4>1. s < st.low => x.retired
        BY <2>1, <2>4, <3>1
      <4>2. s \in F \/ (~x.retired /\ s + LiveEdge >= st.next)
        <5>1. late(s) \/ (~x.retired /\ ~(s + LiveEdge < st.next))
          BY <3>1 DEF x
        <5> QED
          BY <1>8, <1>10, <2>1, <5>1, BoundsAreNumbers
      <4>3. s \notin F => ~x.left /\ ~(s < st.low) /\ s + LiveEdge + k >= st.next
        BY <1>10, <2>1, <2>7, <4>1, <4>2, BoundsAreNumbers
      <4>4. ~x.onDisk /\ (x.left => s < st.low \/ s + LiveEdge < st.next)
        BY <2>1, <2>4, <2>7, <3>1
      <4> QED
        BY <2>2, <2>8, <3>1, <4>3, <4>4
    <3>2. CASE ~x.pending
      <4>1. y.retired = x.retired
        BY <2>2, <3>2
      <4>2. s \notin F => s \notin st.forgone
        BY <1>5
      <4> QED
        BY <2>1, <2>2, <2>7, <2>8, <3>2, <4>1, <4>2
    <3> QED
      BY <3>1, <3>2
  <2>10. Found(b, s) => Found(st, s)
    <3>1. y.retired => x.retired
      BY <2>2
    <3> QED
      BY <1>10, <3>1 DEF Found, x, y
  <2> QED
    BY <2>6, <2>9, <2>10
<1>12. SoundStore(b, k)
  BY <1>9, <1>11 DEF SoundStore
<1>13. Follows(st, b)
  <2>1. \A s \in Segments : /\ b.seg[s].onDisk = st.seg[s].onDisk
                              /\ b.seg[s].doomed = st.seg[s].doomed
                            /\ b.seg[s].size = st.seg[s].size /\ b.seg[s].gen = st.seg[s].gen
                            /\ ~b.seg[s].pending
    BY <1>2, <1>4, <1>6, StoppedSegment
  <2> QED
    BY <1>6, <1>11, <2>1 DEF Follows
<1>14. /\ SoundStore(Trim(b), k) /\ Follows(b, Trim(b)) /\ Spares(Trim(b))
       /\ Trim(b).degraded = b.degraded /\ Trim(b).queue = b.queue /\ Trim(b).inits = b.inits
       /\ Trim(b).lastGen = b.lastGen
  BY <1>12, TrimFollows
<1> QED
  BY <1>1, <1>6, <1>13, <1>14, FollowsTwice
\* A segment whose leaving has been noted.
LEMMA NotedSegment ==
  ASSUME NEW x \in SegmentType, NEW l \in BOOLEAN, NEW k \in {0, 1}
  PROVE  LET y == Notes(x, l, k)
         IN /\ y \in SegmentType
            /\ y.gen = x.gen /\ y.size = x.size /\ y.disc = x.disc
            /\ y.onDisk = x.onDisk /\ y.pending = x.pending /\ y.doomed = x.doomed
            /\ y.held = x.held /\ y.retired = x.retired /\ y.age = x.age /\ y.ticks = x.ticks
            /\ l => y.left = x.left /\ y.kept = x.kept /\ y.pubs = x.pubs
            /\ ~l /\ x.left => y.left /\ y.kept = x.kept
                 /\ (y.pubs >= Unlisted \/ y.pubs >= x.pubs + k)
            /\ ~l /\ ~x.left => y.left /\ (y.kept <=> Durable(x)) /\ y.pubs = x.pubs
<1> DEFINE y == Notes(x, l, k)
<1>1. CASE l
  <2>1. y = x
    BY <1>1 DEF Notes
  <2> HIDE DEF y
  <2> QED
    BY <1>1, <2>1 DEF y
<1>2. CASE ~l /\ x.left
  <2> DEFINE p == Min({x.pubs + k, Unlisted})
  <2>1. y = [x EXCEPT !.pubs = p]
    BY <1>2 DEF Notes
  <2>2. x.pubs \in Nat /\ x.pubs + k \in Nat
    BY DEF SegmentType
  <2>3. p \in Nat /\ (p >= Unlisted \/ p >= x.pubs + k)
    <3> DEFINE n == x.pubs + k
    <3>1. n \in Nat
      BY <2>2
    <3> HIDE DEF n
    <3>2. Min({n, Unlisted}) \in Nat /\ (Min({n, Unlisted}) = n \/ Min({n, Unlisted}) = Unlisted)
      BY <3>1, LeastOfTwo, BoundsAreNumbers
    <3> QED
      BY <3>1, <3>2, BoundsAreNumbers DEF n
  <2> HIDE DEF p, y
  <2>4. y \in SegmentType
    BY <2>1, <2>3 DEF SegmentType
  <2>5. /\ y.gen = x.gen /\ y.size = x.size /\ y.disc = x.disc
        /\ y.onDisk = x.onDisk /\ y.pending = x.pending /\ y.doomed = x.doomed /\ y.ticks = x.ticks
        /\ y.left = x.left /\ y.kept = x.kept /\ y.pubs = p
        /\ y.held = x.held /\ y.retired = x.retired /\ y.age = x.age
    BY <2>1 DEF SegmentType
  <2> QED
    BY <1>2, <2>3, <2>4, <2>5 DEF y
<1>3. CASE ~l /\ ~x.left
  <2> DEFINE d == Durable(x)
  <2>1. y = [x EXCEPT !.left = TRUE, !.kept = d]
    BY <1>3 DEF Notes
  <2>2. d \in BOOLEAN
    BY DEF Durable
  <2> HIDE DEF d, y
  <2>3. [x EXCEPT !.left = TRUE] \in SegmentType
    BY DEF SegmentType
  <2>4. [x EXCEPT !.left = TRUE, !.kept = d] \in SegmentType
    BY <2>2, <2>3 DEF SegmentType
  <2>5. /\ y.gen = x.gen /\ y.size = x.size /\ y.disc = x.disc
        /\ y.onDisk = x.onDisk /\ y.pending = x.pending /\ y.doomed = x.doomed /\ y.ticks = x.ticks
        /\ y.pubs = x.pubs
        /\ y.held = x.held /\ y.retired = x.retired /\ y.age = x.age
    BY <2>1 DEF SegmentType
  <2>6. y.left = TRUE /\ y.kept = d
    BY <2>1 DEF SegmentType
  <2>7. y.left /\ (y.kept <=> Durable(x))
    BY <2>6 DEF d
  <2>8. y \in SegmentType
    BY <2>1, <2>4
  <2> HIDE DEF d
  <2> QED
    BY <1>3, <2>5, <2>7, <2>8 DEF y
<1> QED
  BY <1>1, <1>2, <1>3

\* Noting what has left the playlist completes the account of it.
LEMMA NotedFollows ==
  ASSUME NEW st, NEW k \in {0, 1}, SoundStore(st, k)
  PROVE  /\ SoundStore(Noted(st, k), 0) /\ Follows(st, Noted(st, k))
         /\ \A s \in Segments : s < st.next /\ s \notin Listed(Noted(st, k))
                                  => Noted(st, k).seg[s].left
         /\ Spares(st) => Spares(Noted(st, k))
         /\ Noted(st, k).degraded = st.degraded /\ Noted(st, k).queue = st.queue
         /\ Noted(st, k).inits = st.inits /\ Noted(st, k).lastGen = st.lastGen
         /\ Noted(st, k).low = st.low /\ Noted(st, k).passed = st.passed
         /\ \A s \in Segments : /\ Noted(st, k).seg[s].pending = st.seg[s].pending
                                /\ Noted(st, k).seg[s].disc = st.seg[s].disc
<1> DEFINE stays(s) == s >= st.next \/ s \in Listed(st)
           segs == [s \in Segments |-> Notes(st.seg[s], stays(s), k)]
           b == [st EXCEPT !.seg = segs]
<1>1. Noted(st, k) = b
  BY DEF Noted
<1>2. /\ ListIsSound(st) /\ st \in StoreType /\ st.low \in Nat /\ st.next \in Nat
           /\ st.low <= st.next
      /\ \A s \in Segments : st.seg[s] \in SegmentType /\ s \in Nat
      /\ \A s \in Segments : s \in Stored(st) <=> (st.low <= s /\ s < st.next)
  BY ListedAreSegments DEF SoundStore, ListIsSound, Stored
<1>3. ASSUME NEW s \in Segments
      PROVE  LET x == st.seg[s]
                 y == segs[s]
             IN /\ y \in SegmentType
                /\ y.gen = x.gen /\ y.size = x.size /\ y.disc = x.disc
                /\ y.onDisk = x.onDisk /\ y.pending = x.pending /\ y.doomed = x.doomed
                /\ y.held = x.held /\ y.retired = x.retired /\ y.age = x.age /\ y.ticks = x.ticks
                /\ stays(s) => y.left = x.left /\ y.kept = x.kept /\ y.pubs = x.pubs
                /\ ~stays(s) /\ x.left => y.left /\ y.kept = x.kept
                     /\ (y.pubs >= Unlisted \/ y.pubs >= x.pubs + k)
                /\ ~stays(s) /\ ~x.left => y.left /\ (y.kept <=> Durable(x)) /\ y.pubs = x.pubs
  <2> DEFINE l == stays(s)
  <2>1. l \in BOOLEAN
    OBVIOUS
  <2>2. segs[s] = Notes(st.seg[s], l, k)
    OBVIOUS
  <2>3. l <=> stays(s)
    OBVIOUS
  <2> HIDE DEF l, segs, stays
  <2> QED
    BY <1>2, <2>1, <2>2, <2>3, NotedSegment
<1>4. segs \in [Segments -> SegmentType]
  <2>1. \A s \in Segments : segs[s] \in SegmentType
    BY <1>3
  <2> HIDE DEF stays
  <2> QED
    BY <2>1
<1> HIDE DEF segs
<1>5. /\ b \in StoreType
      /\ b.low = st.low /\ b.next = st.next /\ b.lastGen = st.lastGen /\ b.inits = st.inits
      /\ b.passed = st.passed /\ b.window = st.window /\ b.unlinks = st.unlinks /\ b.disk = st.disk
      /\ b.closed = st.closed /\ b.removing = st.removing
      /\ b.degraded = st.degraded /\ b.queue = st.queue /\ b.seg = segs /\ b.forgone = st.forgone
  BY <1>2, <1>4 DEF StoreType
<1> HIDE DEF b
<1>6. \A s \in Segments : /\ b.seg[s].onDisk = st.seg[s].onDisk
                            /\ b.seg[s].pending = st.seg[s].pending
                          /\ b.seg[s].disc = st.seg[s].disc /\ b.seg[s].held = st.seg[s].held
                          /\ b.seg[s].retired = st.seg[s].retired
                               /\ b.seg[s].doomed = st.seg[s].doomed
                          /\ b.seg[s].size = st.seg[s].size /\ b.seg[s].gen = st.seg[s].gen
  BY <1>3, <1>5
<1>7. ListIsSound(b)
  <2>1. 1..(st.low - 1) \subseteq Segments
    BY <1>2, ListedAreSegments
  <2>2. {s \in 1..(b.low - 1) : b.seg[s].disc} = {s \in 1..(st.low - 1) : st.seg[s].disc}
    BY <1>5, <1>6, <2>1
  <2> QED
    BY <1>2, <1>5, <2>2 DEF ListIsSound
<1>8. Stored(b) = Stored(st) /\ Listed(b) = Listed(st)
  BY <1>2, <1>5, <1>6, ListedSame
<1>9. PICK m \in Nat :
           /\ Listed(st) = m..(st.next - 1) /\ st.low <= m
           /\ m <= st.next /\ (st.low < st.next => m < st.next)
           /\ \A s \in Segments : m <= s /\ s < st.next /\ ~Durable(st.seg[s])
                                    => s + LiveEdge >= st.next
           /\ \A s \in Segments : st.low <= s /\ s < m => s + LiveEdge < st.next
  BY <1>2, ListedIsTheEnd
<1>10. ASSUME NEW s \in Segments
       PROVE  PlaceIsSound(b, s) /\ PastIsSound(b, s, 0)
  <2> DEFINE x == st.seg[s]
             y == b.seg[s]
  <2>1. PlaceIsSound(st, s) /\ PastIsSound(st, s, k) /\ s \in Nat /\ x \in SegmentType
          /\ y \in SegmentType
    BY <1>2, <1>3, <1>5 DEF SoundStore
  <2>2. /\ y.onDisk = x.onDisk /\ y.pending = x.pending /\ y.doomed = x.doomed
        /\ y.held = x.held /\ y.retired = x.retired /\ y.age = x.age /\ y.ticks = x.ticks
        /\ stays(s) => y.left = x.left /\ y.kept = x.kept /\ y.pubs = x.pubs
        /\ ~stays(s) /\ x.left => y.left /\ y.kept = x.kept
             /\ (y.pubs >= Unlisted \/ y.pubs >= x.pubs + k)
        /\ ~stays(s) /\ ~x.left => y.left /\ (y.kept <=> Durable(x)) /\ y.pubs = x.pubs
    BY <1>3, <1>5
  <2>3. stays(s) <=> (s >= st.next \/ m <= s)
    BY <1>2, <1>9, <2>1
  <2>4. PlaceIsSound(b, s)
    BY <1>5, <1>8, <2>1, <2>2 DEF PlaceIsSound
  <2>5. /\ x.ticks \in Nat /\ x.age \in Nat /\ x.pubs \in Nat /\ y.pubs \in Nat
        /\ x.left \in BOOLEAN /\ x.kept \in BOOLEAN /\ x.onDisk \in BOOLEAN /\ x.pending \in BOOLEAN
        /\ x.retired \in BOOLEAN /\ y.left \in BOOLEAN /\ y.kept \in BOOLEAN
    BY <2>1 DEF SegmentType
  <2> HIDE DEF x, y, stays
  <2>6. PlaceIsSound(st, s) =>
          /\ x.retired => s < st.low /\ (x.onDisk \/ x.pending)
          /\ s < st.low /\ ~x.retired => ~x.onDisk /\ ~x.pending
    BY DEF PlaceIsSound, x
  <2>7. PastIsSound(st, s, k) <=>
          (s < st.next =>
             /\ x.left => s < st.low \/ s + LiveEdge < st.next
             /\ x.left /\ ~x.kept => ~x.onDisk /\ ~x.pending
             /\ x.retired /\ x.left => x.kept /\ x.ticks >= x.age
             /\ x.retired /\ ~x.left => x.age = 0
             /\ s \notin st.forgone /\ ~x.onDisk /\ ~x.pending =>
                  /\ ~x.left => s + LiveEdge + k >= st.next
                  /\ x.left /\ x.kept => x.ticks >= Unlisted
                  /\ x.left /\ ~x.kept => x.pubs + k >= Unlisted
                       \/ x.pubs + k >= st.next - 1 - s - LiveEdge
                  /\ s < st.low /\ ~(x.left /\ x.kept) => s + StoreSegments < st.next)
    BY DEF PastIsSound, x
  <2>8. PastIsSound(b, s, 0) <=>
          (s < st.next =>
             /\ y.left => s < st.low \/ s + LiveEdge < st.next
             /\ y.left /\ ~y.kept => ~y.onDisk /\ ~y.pending
             /\ y.retired /\ y.left => y.kept /\ y.ticks >= y.age
             /\ y.retired /\ ~y.left => y.age = 0
             /\ s \notin st.forgone /\ ~y.onDisk /\ ~y.pending =>
                  /\ ~y.left => s + LiveEdge + 0 >= st.next
                  /\ y.left /\ y.kept => y.ticks >= Unlisted
                  /\ y.left /\ ~y.kept => y.pubs + 0 >= Unlisted
                       \/ y.pubs + 0 >= st.next - 1 - s - LiveEdge
                  /\ s < st.low /\ ~(y.left /\ y.kept) => s + StoreSegments < st.next)
    BY <1>5 DEF PastIsSound, y
  <2>9. Durable(x) <=> x.onDisk \/ x.pending
    BY DEF Durable
  <2>10. ASSUME s < st.next
         PROVE  PastIsSound(b, s, 0)
    <3>1. CASE stays(s)
      <4>1. m <= s
        BY <1>2, <2>1, <2>3, <2>10, <3>1
      <4>2. Durable(x) \/ s + LiveEdge >= st.next
        BY <1>9, <2>10, <4>1 DEF x
      <4>3. ~(s < st.low)
        BY <1>2, <1>9, <2>1, <4>1
      <4>4. s \notin st.forgone /\ ~x.onDisk /\ ~x.pending => ~x.left /\ s + LiveEdge >= st.next
        BY <1>2, <2>1, <2>7, <2>9, <2>10, <4>2, <4>3, BoundsAreNumbers
      <4>5. s + LiveEdge + 0 = s + LiveEdge
        BY <2>1, BoundsAreNumbers
      <4> QED
        BY <2>1, <2>2, <2>7, <2>8, <2>10, <3>1, <4>3, <4>4, <4>5
    <3>2. CASE ~stays(s) /\ x.left
      <4>1. s \notin st.forgone /\ ~x.onDisk /\ ~x.pending /\ ~x.kept =>
              y.pubs + 0 >= Unlisted \/ y.pubs + 0 >= st.next - 1 - s - LiveEdge
        BY <1>2, <2>1, <2>2, <2>5, <2>7, <2>10, <3>2, BoundsAreNumbers
      <4> QED
        BY <2>1, <2>2, <2>7, <2>8, <2>10, <3>2, <4>1
    <3>3. CASE ~stays(s) /\ ~x.left
      <4>1. s < st.low \/ s + LiveEdge < st.next
        <5>1. s < m
          BY <1>9, <2>1, <2>3, <3>3
        <5> QED
          BY <1>2, <1>9, <2>1, <5>1
      <4>2. s \notin st.forgone /\ ~x.onDisk /\ ~x.pending
              => y.pubs + 0 >= st.next - 1 - s - LiveEdge
        BY <1>2, <2>1, <2>2, <2>5, <2>7, <2>10, <3>3, BoundsAreNumbers
      <4>3. x.retired => y.kept /\ y.ticks >= y.age
        BY <2>1, <2>2, <2>5, <2>6, <2>7, <2>9, <2>10, <3>3
      <4> QED
        BY <2>1, <2>2, <2>7, <2>8, <2>9, <2>10, <3>3, <4>1, <4>2, <4>3
    <3> QED
      BY <3>1, <3>2, <3>3
  <2> QED
    BY <2>4, <2>8, <2>10
<1>11. SoundStore(b, 0)
  BY <1>7, <1>10 DEF SoundStore
<1>12. Follows(st, b)
  BY <1>5, <1>6, <1>8 DEF Follows, Found
<1>13. ASSUME NEW s \in Segments, s < st.next, s \notin Listed(b)
       PROVE  b.seg[s].left
  <2>1. ~stays(s)
    BY <1>2, <1>8, <1>13
  <2> QED
    BY <1>3, <1>5, <2>1
<1>14. Spares(st) => Spares(b)
  <2>1. Below(b) = Below(st)
    BY <1>5, <1>8 DEF Below
  <2> QED
    BY <1>6, <2>1 DEF Spares
<1> QED
  BY <1>1, <1>5, <1>6, <1>11, <1>12, <1>13, <1>14
\* Fields that soundness does not speak of.
LEMMA SameIsSound ==
  ASSUME NEW a, NEW b, NEW k, SoundStore(a, k), b \in StoreType,
         b.low = a.low, b.next = a.next, b.passed = a.passed, b.seg = a.seg,
         b.window = a.window, b.degraded = a.degraded, b.forgone = a.forgone
  PROVE  SoundStore(b, k) /\ (Spares(a) => Spares(b))
<1>1. Stored(b) = Stored(a)
  BY DEF Stored
<1>2. ListIsSound(b)
  BY DEF SoundStore, ListIsSound
<1>3. \A s \in Segments : PlaceIsSound(b, s) /\ PastIsSound(b, s, k)
  <2> SUFFICES ASSUME NEW s \in Segments
               PROVE  PlaceIsSound(b, s) /\ PastIsSound(b, s, k)
    OBVIOUS
  <2>1. PlaceIsSound(a, s) /\ PastIsSound(a, s, k)
    BY DEF SoundStore
  <2> QED
    BY <1>1, <2>1 DEF PlaceIsSound, PastIsSound
<1>4. Spares(a) => Spares(b)
  BY <1>1 DEF Spares, Below
<1> QED
  BY <1>2, <1>3, <1>4 DEF SoundStore

\* Init segments stay while a segment that is found, or the next one, needs them.
LEMMA EvictInitsKeeps ==
  ASSUME NEW st, NEW k \in {0, 1}, SoundStore(st, k), st.lastGen \in Nat
  PROVE  /\ SoundStore(EvictInits(st), k) /\ Follows(st, EvictInits(st))
         /\ Spares(st) => Spares(EvictInits(st))
         /\ EvictInits(st).degraded = st.degraded /\ EvictInits(st).queue = st.queue
         /\ EvictInits(st).lastGen = st.lastGen /\ EvictInits(st).seg = st.seg
         /\ \A g \in st.inits : g >= st.lastGen => g \in EvictInits(st).inits
         /\ \A s \in Segments : s < st.next /\ Found(st, s) /\ st.seg[s].gen \in st.inits =>
              st.seg[s].gen \in EvictInits(st).inits
<1> DEFINE live == {st.lastGen} \cup {st.seg[s].gen : s \in {t \in 1..(st.next - 1) : Found(st, t)}}
           I == {i \in st.inits : i >= st.lastGen \/ i \in live}
           b == EvictInits(st)
<1>1. ListIsSound(st) /\ st \in StoreType /\ \A s \in Segments : s \in Nat /\ s >= 1
  BY ListedAreSegments DEF SoundStore, ListIsSound
<1>2. st.inits \in SUBSET (1..MaxGens) /\ st.next \in Nat
  BY <1>1 DEF StoreType
<1>3. I \in SUBSET (1..MaxGens)
  BY <1>2
<1>4. b = [st EXCEPT !.inits = I]
  BY DEF EvictInits
<1>5. \A s \in Segments : s < st.next /\ Found(st, s) /\ st.seg[s].gen \in st.inits
                            => st.seg[s].gen \in I
  BY <1>1, <1>2
<1>6. \A g \in st.inits : g >= st.lastGen => g \in I
  OBVIOUS
<1> HIDE DEF I, b
<1>7. /\ b \in StoreType
      /\ b.low = st.low /\ b.next = st.next /\ b.lastGen = st.lastGen /\ b.inits = I
      /\ b.passed = st.passed /\ b.window = st.window /\ b.unlinks = st.unlinks /\ b.disk = st.disk
      /\ b.closed = st.closed /\ b.removing = st.removing
      /\ b.degraded = st.degraded /\ b.queue = st.queue /\ b.seg = st.seg /\ b.forgone = st.forgone
  BY <1>1, <1>3, <1>4 DEF StoreType
<1>8. SoundStore(b, k) /\ (Spares(st) => Spares(b))
  BY <1>7, SameIsSound
<1>9. Follows(st, b)
  BY <1>7 DEF Follows, Found, Stored
<1> QED
  BY <1>5, <1>6, <1>7, <1>8, <1>9 DEF b

\* A segment comes to the end of the list.
LEMMA AddedIsSound ==
  ASSUME NEW st, SoundStore(st, 0), NEW b \in StoreType, st.next \in Segments,
         b.low = st.low, b.next = st.next + 1, b.passed = st.passed,
         b.window = st.window, b.degraded = st.degraded, b.forgone = st.forgone,
         \A t \in Segments : t # st.next => b.seg[t] = st.seg[t],
         b.seg[st.next].held, ~b.seg[st.next].onDisk, ~b.seg[st.next].retired,
         ~b.seg[st.next].left, ~b.seg[st.next].doomed,
         b.seg[st.next].pending => b.window /\ ~b.degraded
  PROVE  /\ SoundStore(b, 1)
         /\ \A t \in Segments : Found(b, t) => t = st.next \/ (t < st.next /\ Found(st, t))
<1>1. /\ ListIsSound(st) /\ st.low \in Nat /\ st.next \in Nat /\ st.low <= st.next /\ st.low >= 1
      /\ \A s \in Segments : s \in Nat /\ s >= 1
  BY ListedAreSegments DEF SoundStore
<1>2. ListIsSound(b)
  <2>1. 1..(b.next - 1) \subseteq Segments
    BY <1>1, SegmentsAreNumbers
  <2>2. {s \in 1..(b.low - 1) : b.seg[s].disc} = {s \in 1..(st.low - 1) : st.seg[s].disc}
    BY <1>1, <2>1
  <2> QED
    <3>1. 1 <= b.low /\ b.low <= b.next
      BY <1>1
    <3>2. b.passed = Cardinality({s \in 1..(b.low - 1) : b.seg[s].disc})
      BY <1>1, <2>2 DEF ListIsSound
    <3> QED
      BY <2>1, <3>1, <3>2 DEF ListIsSound
<1>3. \A s \in Segments : /\ s \in Stored(b) <=> (st.low <= s /\ s <= st.next)
                          /\ s \in Stored(st) <=> (st.low <= s /\ s < st.next)
  BY <1>1 DEF Stored
<1>4. ASSUME NEW s \in Segments
      PROVE  PlaceIsSound(b, s) /\ PastIsSound(b, s, 1)
  <2>1. s \in Nat /\ PlaceIsSound(st, s) /\ PastIsSound(st, s, 0) /\ st.seg[s] \in SegmentType
    BY <1>1, ListedAreSegments DEF SoundStore
  <2>2. CASE s = st.next
    <3>1. PlaceIsSound(b, s)
      BY <1>1, <1>3, <2>2 DEF PlaceIsSound
    <3>2. s + LiveEdge + 1 >= b.next /\ ~(s < b.low)
      BY <1>1, <2>2, BoundsAreNumbers
    <3>3. PastIsSound(b, s, 1)
      BY <2>2, <3>2 DEF PastIsSound
    <3> QED
      BY <3>1, <3>3
  <2>3. CASE s # st.next
    <3>1. b.seg[s] = st.seg[s]
      BY <2>3
    <3>2. PlaceIsSound(b, s)
      BY <1>1, <1>3, <2>1, <2>3, <3>1 DEF PlaceIsSound
    <3>3. PastIsSound(b, s, 1)
      <4> DEFINE x == st.seg[s]
      <4> SUFFICES ASSUME s < st.next + 1
                   PROVE  PastIsSound(b, s, 1)
        BY DEF PastIsSound
      <4>1. s < st.next
        BY <1>1, <2>1, <2>3
      <4>2. x.pubs \in Nat
        BY <2>1 DEF SegmentType
      <4>3. /\ x.left => s < b.low \/ s + LiveEdge < b.next
            /\ x.left /\ ~x.kept => ~x.onDisk /\ ~x.pending
            /\ x.retired /\ x.left => x.kept /\ x.ticks >= x.age
            /\ x.retired /\ ~x.left => x.age = 0
        BY <1>1, <2>1, <4>1, BoundsAreNumbers DEF PastIsSound
      <4>4. s \notin b.forgone /\ ~x.onDisk /\ ~x.pending =>
              /\ ~x.left => s + LiveEdge + 1 >= b.next
              /\ x.left /\ x.kept => x.ticks >= Unlisted
              /\ s < b.low /\ ~(x.left /\ x.kept) => s + StoreSegments < b.next
        BY <1>1, <2>1, <4>1, BoundsAreNumbers DEF PastIsSound
      <4>5. s \notin b.forgone /\ ~x.onDisk /\ ~x.pending /\ x.left /\ ~x.kept =>
              x.pubs + 1 >= Unlisted \/ x.pubs + 1 >= b.next - 1 - s - LiveEdge
        <5>1. s \notin b.forgone /\ ~x.onDisk /\ ~x.pending /\ x.left /\ ~x.kept =>
                x.pubs + 0 >= Unlisted \/ x.pubs + 0 >= st.next - 1 - s - LiveEdge
          BY <2>1, <4>1 DEF PastIsSound
        <5>2. /\ x.pubs + 0 >= Unlisted => x.pubs + 1 >= Unlisted
              /\ x.pubs + 0 >= st.next - 1 - s - LiveEdge => x.pubs + 1 >= b.next - 1 - s - LiveEdge
          <6> HIDE DEF x
          <6> QED
            BY <1>1, <2>1, <4>2, BoundsAreNumbers
        <5> QED
          BY <5>1, <5>2
      <4> QED
        BY <3>1, <4>3, <4>4, <4>5 DEF PastIsSound
    <3> QED
      BY <3>2, <3>3
  <2> QED
    BY <2>2, <2>3
<1>5. ASSUME NEW t \in Segments, Found(b, t), t # st.next
      PROVE  t < st.next /\ Found(st, t)
  <2>1. t \in Nat /\ PlaceIsSound(st, t) /\ b.seg[t] = st.seg[t]
    BY <1>1, <1>5 DEF SoundStore
  <2>2. CASE t \in Stored(b)
    BY <1>1, <1>3, <1>5, <2>1, <2>2 DEF Found
  <2>3. CASE st.seg[t].retired
    BY <1>1, <2>1, <2>3 DEF Found, PlaceIsSound
  <2> QED
    BY <1>5, <2>1, <2>2, <2>3 DEF Found
<1> QED
  BY <1>2, <1>4, <1>5 DEF SoundStore

\* At rest, what is retired has left the playlist.
LEMMA RetiredHasLeft ==
  ASSUME NEW st, SoundStore(st, 0), AtRest(st), NEW s \in Segments, st.seg[s].retired
  PROVE  st.seg[s].left /\ s < st.low /\ s < st.next
<1>1. ListIsSound(st) /\ PlaceIsSound(st, s)
  BY DEF SoundStore
<1>2. st.low \in Nat /\ st.next \in Nat /\ st.low <= st.next /\ s \in Nat
  BY <1>1, ListedAreSegments
<1>3. s < st.low /\ s < st.next
  BY <1>1, <1>2 DEF PlaceIsSound
<1>4. s \notin Listed(st)
  <2>1. PICK m \in Nat : Listed(st) = m..(st.next - 1) /\ st.low <= m
    BY <1>1, ListedIsTheEnd
  <2> QED
    BY <1>2, <1>3, <2>1
<1> QED
  BY <1>3, <1>4 DEF AtRest

\* A segment that is dropped.
LEMMA DroppedSegment ==
  ASSUME NEW x \in SegmentType
  PROVE  /\ Drops(x) \in SegmentType
         /\ Drops(x).gen = x.gen /\ Drops(x).size = x.size /\ Drops(x).disc = x.disc
         /\ Drops(x).doomed = x.doomed /\ Drops(x).age = x.age /\ Drops(x).left = x.left
         /\ Drops(x).kept = x.kept /\ Drops(x).ticks = x.ticks /\ Drops(x).pubs = x.pubs
         /\ ~Drops(x).retired /\ ~Drops(x).pending /\ ~Drops(x).onDisk
         /\ Drops(x).held <=> (x.held /\ ~x.pending)
<1> DEFINE h == x.held /\ ~x.pending
<1>1. Drops(x) = [x EXCEPT !.retired = FALSE, !.pending = FALSE, !.onDisk = FALSE, !.held = h]
  BY DEF Drops
<1>2. h \in BOOLEAN
  BY DEF SegmentType
<1> HIDE DEF h
<1>3. [x EXCEPT !.retired = FALSE] \in SegmentType
  BY DEF SegmentType
<1>4. [x EXCEPT !.retired = FALSE, !.pending = FALSE] \in SegmentType
  BY <1>3 DEF SegmentType
<1>5. [x EXCEPT !.retired = FALSE, !.pending = FALSE, !.onDisk = FALSE] \in SegmentType
  BY <1>4 DEF SegmentType
<1>6. [x EXCEPT !.retired = FALSE, !.pending = FALSE, !.onDisk = FALSE, !.held = h] \in SegmentType
  BY <1>2, <1>5 DEF SegmentType
<1>7. /\ Drops(x).gen = x.gen /\ Drops(x).size = x.size /\ Drops(x).disc = x.disc
      /\ Drops(x).doomed = x.doomed /\ Drops(x).age = x.age /\ Drops(x).left = x.left
      /\ Drops(x).kept = x.kept /\ Drops(x).ticks = x.ticks /\ Drops(x).pubs = x.pubs
  BY <1>1 DEF SegmentType
<1>8. /\ Drops(x).retired = FALSE /\ Drops(x).pending = FALSE /\ Drops(x).onDisk = FALSE
      /\ Drops(x).held = h
  BY <1>1 DEF SegmentType
<1>9. /\ ~Drops(x).retired /\ ~Drops(x).pending /\ ~Drops(x).onDisk
      /\ Drops(x).held <=> (x.held /\ ~x.pending)
  BY <1>8 DEF h
<1> QED
  BY <1>1, <1>6, <1>7, <1>9

\* Retired segments whose retention has passed may go.
LEMMA DroppedIsSound ==
  ASSUME NEW st, SoundStore(st, 0), AtRest(st), NEW b \in StoreType,
         NEW old, old \subseteq Segments,
         \A s \in old : st.seg[s].retired /\ st.seg[s].age >= Unlisted,
         b.low = st.low, b.next = st.next, b.passed = st.passed,
         b.window = st.window, b.degraded = st.degraded, b.forgone = st.forgone,
         \A s \in Segments \ old : b.seg[s] = st.seg[s],
         \A s \in old : b.seg[s] = Drops(st.seg[s])
  PROVE  SoundStore(b, 0) /\ Spares(b)
         /\ \A s \in Segments : Found(b, s) => Found(st, s)
<1>1. /\ ListIsSound(st) /\ st.low \in Nat /\ st.next \in Nat /\ st.low <= st.next /\ st.low >= 1
      /\ \A s \in Segments : s \in Nat /\ s >= 1 /\ st.seg[s] \in SegmentType
  BY ListedAreSegments DEF SoundStore
<1>2. Stored(b) = Stored(st) /\ Below(b) = Below(st)
  BY DEF Stored, Below
<1>3. ListIsSound(b)
  <2>1. 1..(b.next - 1) \subseteq Segments /\ 1..(st.low - 1) \subseteq Segments
    BY <1>1, ListedAreSegments
  <2>2. \A s \in Segments : b.seg[s].disc = st.seg[s].disc
    BY <1>1, DroppedSegment
  <2>3. {s \in 1..(b.low - 1) : b.seg[s].disc} = {s \in 1..(st.low - 1) : st.seg[s].disc}
    BY <2>1, <2>2
  <2> QED
    BY <1>1, <2>1, <2>3 DEF ListIsSound, SoundStore
<1>4. ASSUME NEW s \in Segments
      PROVE  /\ PlaceIsSound(b, s) /\ PastIsSound(b, s, 0)
             /\ b.seg[s].retired => st.seg[s].retired
             /\ s \in Below(st) /\ b.seg[s].onDisk => ~b.seg[s].held
  <2>1. PlaceIsSound(st, s) /\ PastIsSound(st, s, 0) /\ s \in Nat /\ st.seg[s] \in SegmentType
    BY <1>1 DEF SoundStore
  <2>2. CASE s \notin old
    <3>1. b.seg[s] = st.seg[s]
      BY <2>2
    <3> QED
      BY <1>2, <2>1, <3>1 DEF PlaceIsSound, PastIsSound, AtRest
  <2>3. CASE s \in old
    <3> DEFINE x == st.seg[s]
               y == b.seg[s]
    <3>1. y = Drops(x) /\ x.retired /\ x.age >= Unlisted
      BY <2>3
    <3>2. /\ y.doomed = x.doomed /\ y.age = x.age /\ y.left = x.left
          /\ y.kept = x.kept /\ y.ticks = x.ticks /\ y.pubs = x.pubs
          /\ ~y.retired /\ ~y.pending /\ ~y.onDisk
          /\ y.held <=> (x.held /\ ~x.pending)
      BY <2>1, <3>1, DroppedSegment
    <3>3. x.left /\ s < st.low /\ s < st.next
      BY <3>1, RetiredHasLeft
    <3>4. x.kept /\ x.ticks >= x.age
      BY <2>1, <3>1, <3>3 DEF PastIsSound
    <3>5. x.ticks >= Unlisted
      <4>1. x.ticks \in Nat /\ x.age \in Nat
        BY <2>1 DEF SegmentType
      <4> HIDE DEF x
      <4> QED
        BY <3>1, <3>4, <4>1, BoundsAreNumbers
    <3>6. x.held => x.pending
      BY <2>1, <3>1 DEF PlaceIsSound
    <3>7. ~(s >= st.next) /\ s \notin Stored(b)
      BY <1>1, <1>2, <2>1, <3>3 DEF Stored
    <3>8. ~y.held
      BY <3>2, <3>6
    <3>9. PlaceIsSound(b, s)
      BY <3>2, <3>7, <3>8 DEF PlaceIsSound
    <3>10. PastIsSound(b, s, 0)
      BY <3>2, <3>3, <3>4, <3>5 DEF PastIsSound
    <3> QED
      BY <3>2, <3>9, <3>10
  <2> QED
    BY <2>2, <2>3
<1>5. Spares(b)
  BY <1>2, <1>4 DEF Spares
<1>6. \A s \in Segments : Found(b, s) => Found(st, s)
  BY <1>2, <1>4 DEF Found
<1> QED
  BY <1>3, <1>4, <1>5, <1>6 DEF SoundStore
\* A segment that was on its way to the disk is on it, and the bytes on record are
\* those of the segments there.
LEMMA CommittedIsSound ==
  ASSUME NEW st, SoundStore(st, 0), NEW b \in StoreType, NEW s \in Segments,
         st.seg[s].pending,
         b.low = st.low, b.next = st.next, b.passed = st.passed,
         b.window = st.window, b.degraded = st.degraded, b.forgone = st.forgone,
         \A t \in Segments : t # s => b.seg[t] = st.seg[t],
         ~b.seg[s].pending, b.seg[s].onDisk, b.seg[s].held <=> (st.seg[s].held /\ s \in Stored(st)),
         b.seg[s].gen = st.seg[s].gen, b.seg[s].size = st.seg[s].size, b.seg[s].disc = st.seg[s].disc,
         b.seg[s].doomed = st.seg[s].doomed, b.seg[s].age = st.seg[s].age,
         b.seg[s].retired = st.seg[s].retired, b.seg[s].left = st.seg[s].left,
         b.seg[s].kept = st.seg[s].kept, b.seg[s].ticks = st.seg[s].ticks, b.seg[s].pubs = st.seg[s].pubs
  PROVE  /\ SoundStore(b, 0) /\ \A t \in Segments : Found(b, t) => Found(st, t)
         /\ b.seg[s].onDisk /\ ~b.seg[s].pending /\ ~b.seg[s].doomed
         /\ b.seg[s].size = st.seg[s].size /\ b.seg[s].gen = st.seg[s].gen /\ Found(st, s)
              /\ s < st.next
<1>1. /\ ListIsSound(st) /\ st.low \in Nat /\ st.next \in Nat /\ st.low <= st.next /\ st.low >= 1
      /\ \A t \in Segments : t \in Nat /\ t >= 1 /\ st.seg[t] \in SegmentType
  BY ListedAreSegments DEF SoundStore
<1> DEFINE x == st.seg[s]
           y == b.seg[s]
<1>2. /\ y.gen = x.gen /\ y.size = x.size /\ y.disc = x.disc /\ y.doomed = x.doomed /\ y.age = x.age
      /\ y.retired = x.retired /\ y.left = x.left /\ y.kept = x.kept /\ y.ticks = x.ticks
           /\ y.pubs = x.pubs
      /\ ~y.pending /\ y.onDisk /\ (y.held <=> (x.held /\ s \in Stored(st)))
  OBVIOUS
<1>3. Stored(b) = Stored(st)
  BY DEF Stored
<1>4. ListIsSound(b)
  <2>1. 1..(b.next - 1) \subseteq Segments /\ 1..(st.low - 1) \subseteq Segments
    BY <1>1, ListedAreSegments
  <2>2. \A t \in Segments : b.seg[t].disc = st.seg[t].disc
    BY <1>2
  <2>3. {t \in 1..(b.low - 1) : b.seg[t].disc} = {t \in 1..(st.low - 1) : st.seg[t].disc}
    BY <2>1, <2>2
  <2> QED
    BY <1>1, <2>1, <2>3 DEF ListIsSound
<1>5. /\ PlaceIsSound(st, s) /\ PastIsSound(st, s, 0)
      /\ s \in Stored(st) <=> (st.low <= s /\ s < st.next)
  BY <1>1 DEF SoundStore, Stored
<1>6. x.held /\ ~x.doomed /\ st.window /\ ~(s >= st.next)
  BY <1>5 DEF PlaceIsSound
<1>7. x.retired <=> s < st.low
  BY <1>1, <1>5, <1>6 DEF PlaceIsSound
<1>8. ASSUME NEW t \in Segments
      PROVE  /\ PlaceIsSound(b, t) /\ PastIsSound(b, t, 0)
             /\ b.seg[t].retired = st.seg[t].retired
  <2>1. PlaceIsSound(st, t) /\ PastIsSound(st, t, 0)
    BY DEF SoundStore
  <2>2. CASE t # s
    <3>1. b.seg[t] = st.seg[t]
      BY <2>2
    <3> QED
      BY <1>3, <2>1, <3>1 DEF PlaceIsSound, PastIsSound
  <2>3. CASE t = s
    <3>1. PlaceIsSound(b, s)
      <4>1. s \in Stored(st) <=> ~(s < st.low)
        BY <1>1, <1>5, <1>6
      <4> HIDE DEF x, y
      <4>2. /\ s \in Stored(b) => ~y.retired /\ (y.held \/ y.onDisk)
            /\ s < b.low /\ ~y.retired => ~y.held /\ ~y.onDisk /\ ~y.pending
            /\ y.retired => s < b.low /\ (y.onDisk \/ y.pending) /\ (y.held => y.pending)
        BY <1>2, <1>3, <1>7, <4>1
      <4> QED
        BY <1>2, <1>6, <4>2 DEF PlaceIsSound, x, y
    <3>2. PastIsSound(b, s, 0)
      <4>1. x.left /\ ~x.kept => FALSE
        BY <1>1, <1>5, <1>6 DEF PastIsSound
      <4> QED
        BY <1>2, <1>5, <4>1 DEF PastIsSound
    <3> QED
      BY <1>2, <2>3, <3>1, <3>2
  <2> QED
    BY <2>2, <2>3
<1>9. Found(st, s)
  BY <1>1, <1>5, <1>6, <1>7 DEF Found
<1>10. \A t \in Segments : Found(b, t) => Found(st, t)
  BY <1>3, <1>8 DEF Found
<1> QED
  BY <1>1, <1>2, <1>4, <1>6, <1>8, <1>9, <1>10 DEF SoundStore

\* An evicted segment leaves with its discontinuity, and is given up.
LEMMA TakenIsSound ==
  ASSUME NEW st, SoundStore(st, 0), Spares(st), NEW s \in Segments,
         st.seg[s].onDisk, st.seg[s].retired \/ (s = st.low /\ s \in Below(st))
  PROVE  LET b == Taken(st, s)
         IN /\ SoundStore(b, 0) /\ Spares(b) /\ \A t \in Segments : Found(b, t) => Found(st, t)
            /\ b.next = st.next /\ b.lastGen = st.lastGen /\ b.inits = st.inits
            /\ b.window = st.window /\ b.queue = st.queue /\ b.unlinks = st.unlinks
            /\ b.disk = st.disk - st.seg[s].size
            /\ b.degraded = st.degraded /\ b.closed = st.closed /\ b.removing = st.removing
            /\ \A t \in Segments : t # s => b.seg[t] = st.seg[t]
            /\ ~b.seg[s].onDisk /\ ~b.seg[s].pending /\ (b.seg[s].doomed <=> Pinned(s) # {})
            /\ b.seg[s].size = st.seg[s].size /\ b.seg[s].gen = st.seg[s].gen /\ s < st.next
<1>1. /\ ListIsSound(st) /\ st \in StoreType
      /\ st.low \in Nat /\ st.next \in Nat /\ st.low <= st.next /\ st.low >= 1
      /\ \A t \in Segments : t \in Nat /\ t >= 1 /\ st.seg[t] \in SegmentType
  BY ListedAreSegments DEF SoundStore, ListIsSound
<1> DEFINE b == Taken(st, s)
           x == st.seg[s]
           d == Pinned(s) # {}
           y == [x EXCEPT !.retired = FALSE, !.onDisk = FALSE, !.doomed = d]
           l == IF x.retired THEN st.low ELSE s + 1
           p == IF ~x.retired /\ x.disc THEN st.passed + 1 ELSE st.passed
           n == st.disk - x.size
           F == st.forgone \cup {s}
           segs == [st.seg EXCEPT ![s] = y]
<1>2. b = [st EXCEPT !.low = l, !.passed = p, !.disk = n, !.seg = segs, !.forgone = F]
  BY DEF Taken
<1>3. /\ PlaceIsSound(st, s) /\ PastIsSound(st, s, 0) /\ x \in SegmentType /\ s \in Nat
      /\ s \in Stored(st) <=> (st.low <= s /\ s < st.next)
  BY <1>1 DEF SoundStore, Stored
<1>4. ~x.pending /\ ~x.doomed /\ ~x.held
  <2>1. ~x.pending /\ ~x.doomed
    BY <1>3 DEF PlaceIsSound
  <2>2. ~x.held
    BY <1>3, <2>1 DEF PlaceIsSound, Spares
  <2> QED
    BY <2>1, <2>2
<1>5. x.retired \/ (s = st.low /\ s < st.next)
  BY <1>1, BoundsAreNumbers DEF Below, Stored
<1>6. x.retired => s < st.low
  BY <1>3 DEF PlaceIsSound
<1>7. s < st.next
  BY <1>1, <1>3, <1>5, <1>6
<1>8. /\ y \in SegmentType /\ y.gen = x.gen /\ y.size = x.size /\ y.disc = x.disc /\ y.held = x.held
      /\ y.pending = x.pending /\ y.age = x.age /\ y.left = x.left /\ y.kept = x.kept
      /\ y.ticks = x.ticks /\ y.pubs = x.pubs
      /\ ~y.retired /\ ~y.onDisk /\ (y.doomed <=> d)
  <2>1. d \in BOOLEAN
    OBVIOUS
  <2> HIDE DEF d, x
  <2>2. [x EXCEPT !.retired = FALSE] \in SegmentType
    BY <1>3 DEF SegmentType
  <2>3. [x EXCEPT !.retired = FALSE, !.onDisk = FALSE] \in SegmentType
    BY <2>2 DEF SegmentType
  <2>4. [x EXCEPT !.retired = FALSE, !.onDisk = FALSE, !.doomed = d] \in SegmentType
    BY <2>1, <2>3 DEF SegmentType
  <2>5. y = [x EXCEPT !.retired = FALSE, !.onDisk = FALSE, !.doomed = d]
    OBVIOUS
  <2> HIDE DEF y
  <2>6. /\ y.gen = x.gen /\ y.size = x.size /\ y.disc = x.disc /\ y.held = x.held
        /\ y.pending = x.pending /\ y.age = x.age /\ y.left = x.left /\ y.kept = x.kept
        /\ y.ticks = x.ticks /\ y.pubs = x.pubs
    BY <1>3, <2>5 DEF SegmentType
  <2>7. y.retired = FALSE /\ y.onDisk = FALSE /\ y.doomed = d
    BY <1>3, <2>5 DEF SegmentType
  <2> QED
    BY <2>4, <2>5, <2>6, <2>7
<1> HIDE DEF y, d
<1>9. segs \in [Segments -> SegmentType] /\ segs[s] = y /\ \A t \in Segments : t # s
        => segs[t] = st.seg[t]
  BY <1>1, <1>8 DEF StoreType
<1>10. l \in Nat /\ p \in Nat /\ n \in Int /\ F \in SUBSET Segments
  <2>1. st.passed \in Nat /\ st.disk \in Int /\ st.forgone \in SUBSET Segments
    BY <1>1 DEF StoreType
  <2>2. x.size \in Nat
    BY <1>3 DEF SegmentType
  <2> HIDE DEF x
  <2> QED
    BY <1>1, <1>3, <2>1, <2>2
<1>11. /\ l >= st.low /\ l <= st.next
       /\ x.retired => l = st.low
       /\ ~x.retired => l = s + 1 /\ s = st.low
  BY <1>1, <1>3, <1>5, <1>6, <1>7
<1>12. /\ x.retired \/ ~x.disc => p = st.passed
       /\ ~x.retired /\ x.disc => p = st.passed + 1
       /\ s \in F /\ \A t \in Segments : t # s => (t \in F <=> t \in st.forgone)
  OBVIOUS
<1> HIDE DEF b, segs, l, p, n, F
<1>13. b \in StoreType
  <2>1. [st EXCEPT !.low = l, !.passed = p, !.disk = n] \in StoreType
    BY <1>1, <1>10 DEF StoreType
  <2> QED
    BY <1>2, <1>9, <1>10, <2>1 DEF StoreType
<1>14. /\ b.low = l /\ b.next = st.next /\ b.lastGen = st.lastGen /\ b.inits = st.inits
       /\ b.passed = p /\ b.window = st.window /\ b.unlinks = st.unlinks /\ b.disk = n
       /\ b.closed = st.closed /\ b.removing = st.removing
       /\ b.degraded = st.degraded /\ b.queue = st.queue /\ b.seg = segs /\ b.forgone = F
  BY <1>1, <1>2 DEF StoreType
<1>15. ListIsSound(b)
  <2> DEFINE A == {t \in 1..(st.low - 1) : st.seg[t].disc}
             B == {t \in 1..(b.low - 1) : b.seg[t].disc}
             C == IF ~x.retired /\ x.disc THEN {s} ELSE {}
  <2>1. 1..(b.low - 1) \subseteq Segments /\ 1..(st.low - 1) \subseteq Segments
    BY <1>1, <1>10, <1>11, <1>14, ListedAreSegments
  <2>2. \A t \in Segments : b.seg[t].disc = st.seg[t].disc
    BY <1>8, <1>9, <1>14
  <2>3. B = A \cup C /\ A \cap C = {}
    <3>1. CASE x.retired
      BY <1>11, <1>14, <2>1, <2>2, <3>1
    <3>2. CASE ~x.retired
      <4>1. \A t : t \in 1..(b.low - 1) <=> t \in 1..(st.low - 1) \/ t = s
        BY <1>1, <1>3, <1>11, <1>14, <3>2
      <4>2. s \notin 1..(st.low - 1)
        BY <1>1, <1>11, <3>2
      <4>3. C = {t \in {s} : st.seg[t].disc}
        BY <3>2
      <4>4. \A t : t \in B <=> t \in A \cup C
        BY <2>1, <2>2, <4>1, <4>3
      <4> QED
        BY <4>2, <4>3, <4>4
    <3> QED
      BY <3>1, <3>2
  <2>4. A \subseteq Segments /\ C \subseteq Segments
    BY <2>1
  <2>5. st.passed = Cardinality(A)
    BY DEF SoundStore, ListIsSound
  <2>6. Cardinality(C) = IF ~x.retired /\ x.disc THEN 1 ELSE 0
    BY FS_EmptySet, FS_Singleton
  <2> HIDE DEF A, B, C
  <2>7. Cardinality(B) = Cardinality(A) + Cardinality(C) /\ Cardinality(A) \in Nat
    BY <2>3, <2>4, CountOfParts
  <2>8. p = Cardinality(B)
    BY <1>12, <2>5, <2>6, <2>7
  <2> HIDE DEF x
  <2>9. 1 <= b.low /\ b.low <= b.next
    BY <1>1, <1>10, <1>11, <1>14
  <2>10. 1..(b.next - 1) \subseteq Segments
    BY <1>1, <1>14, ListedAreSegments
  <2> QED
    BY <1>13, <1>14, <2>8, <2>9, <2>10 DEF ListIsSound, B
<1>16. ASSUME NEW t \in Segments
       PROVE  /\ PlaceIsSound(b, t) /\ PastIsSound(b, t, 0)
              /\ Found(b, t) => Found(st, t)
              /\ t \in Below(b) /\ b.seg[t].onDisk => ~b.seg[t].held
  <2>1. PlaceIsSound(st, t) /\ PastIsSound(st, t, 0) /\ t \in Nat
    BY <1>1 DEF SoundStore
  <2>2. t \in Stored(st) <=> (st.low <= t /\ t < st.next)
    BY <1>1, <2>1 DEF Stored
  <2>3. t \in Stored(b) <=> (l <= t /\ t < st.next)
    BY <1>1, <1>10, <1>14, <2>1 DEF Stored
  <2>4. CASE t # s
    <3>1. b.seg[t] = st.seg[t]
      BY <1>9, <1>14, <2>4
    <3>2. t < b.low <=> t < st.low
      BY <1>1, <1>3, <1>10, <1>11, <1>14, <2>1, <2>4
    <3>3. t \in Stored(b) <=> t \in Stored(st)
      BY <1>1, <1>10, <1>14, <2>1, <2>2, <2>3, <3>2
    <3>4. t \in b.forgone <=> t \in st.forgone
      BY <1>12, <1>14, <2>4
    <3>5. PlaceIsSound(b, t)
      BY <1>14, <2>1, <3>1, <3>2, <3>3 DEF PlaceIsSound
    <3>6. PastIsSound(b, t, 0)
      BY <1>14, <2>1, <3>1, <3>2, <3>4 DEF PastIsSound
    <3>7. Found(b, t) => Found(st, t)
      BY <3>1, <3>3 DEF Found
    <3>8. t \in Below(b) => t \in Below(st)
      BY <1>14, <3>3 DEF Below
    <3> QED
      BY <3>1, <3>5, <3>6, <3>7, <3>8 DEF Spares
  <2>5. CASE t = s
    <3>1. b.seg[s] = y
      BY <1>9, <1>14
    <3>2. s < b.low /\ ~(s >= st.next) /\ s \notin Stored(b)
      BY <1>1, <1>3, <1>6, <1>7, <1>10, <1>11, <1>14, <2>3, <2>5
    <3>3. ~y.held /\ ~y.onDisk /\ ~y.pending /\ ~y.retired
      BY <1>4, <1>8
    <3>4. PlaceIsSound(b, s)
      BY <1>14, <3>1, <3>2, <3>3 DEF PlaceIsSound
    <3>5. s \in b.forgone
      BY <1>12, <1>14
    <3>6. PastIsSound(b, s, 0)
      BY <3>1, <3>2, <3>3, <3>5 DEF PastIsSound
    <3>7. ~Found(b, s)
      BY <3>1, <3>2, <3>3 DEF Found
    <3> QED
      BY <2>5, <3>1, <3>3, <3>4, <3>6, <3>7
  <2> QED
    BY <2>4, <2>5
<1>17. SoundStore(b, 0) /\ Spares(b) /\ \A t \in Segments : Found(b, t) => Found(st, t)
  BY <1>15, <1>16 DEF SoundStore, Spares
<1>18. /\ ~b.seg[s].onDisk /\ ~b.seg[s].pending /\ (b.seg[s].doomed <=> Pinned(s) # {})
       /\ b.seg[s].size = st.seg[s].size /\ b.seg[s].gen = st.seg[s].gen
       /\ b.disk = st.disk - st.seg[s].size
       /\ \A t \in Segments : t # s => b.seg[t] = st.seg[t]
  BY <1>4, <1>8, <1>9, <1>14 DEF d, n
<1> QED
  BY <1>7, <1>14, <1>17, <1>18 DEF b

\* A segment a target duration later.
LEMMA OlderSegment ==
  ASSUME NEW x \in SegmentType
  PROVE  LET y == Older(x)
         IN /\ y \in SegmentType
            /\ y.onDisk = x.onDisk /\ y.pending = x.pending /\ y.disc = x.disc /\ y.gen = x.gen
            /\ y.size = x.size /\ y.doomed = x.doomed /\ y.left = x.left /\ y.kept = x.kept
            /\ y.pubs = x.pubs /\ y.held = x.held /\ y.retired = x.retired
            /\ ~x.retired => y.age = x.age
            /\ x.left => (x.ticks >= Unlisted => y.ticks >= Unlisted)
            /\ x.left /\ x.retired /\ x.ticks >= x.age => y.ticks >= y.age
            /\ ~x.left => y.ticks = x.ticks
<1> DEFINE a == IF x.retired THEN Later(x.age) ELSE x.age
           n == IF x.left THEN Later(x.ticks) ELSE x.ticks
           y == Older(x)
<1>1. y = [x EXCEPT !.age = a, !.ticks = n]
  BY DEF Older
<1>2. x.age \in Nat /\ x.ticks \in Nat
  BY DEF SegmentType
<1>3. \A i \in Nat : /\ Later(i) \in Nat /\ Later(i) <= i + 1 /\ Later(i) <= Unlisted
                     /\ Later(i) = i + 1 \/ Later(i) = Unlisted
  <2> SUFFICES ASSUME NEW i \in Nat
               PROVE  /\ Later(i) \in Nat /\ Later(i) <= i + 1 /\ Later(i) <= Unlisted
                      /\ Later(i) = i + 1 \/ Later(i) = Unlisted
    OBVIOUS
  <2> DEFINE j == i + 1
  <2>1. j \in Nat /\ Later(i) = Min({j, Unlisted})
    BY DEF Later
  <2> HIDE DEF j
  <2>2. Min({j, Unlisted}) \in Nat /\ Min({j, Unlisted}) <= j /\ Min({j, Unlisted}) <= Unlisted
        /\ (Min({j, Unlisted}) = j \/ Min({j, Unlisted}) = Unlisted)
    BY <2>1, LeastOfTwo, BoundsAreNumbers
  <2> QED
    BY <2>1, <2>2 DEF j
<1>4. a \in Nat /\ n \in Nat
  BY <1>2, <1>3
<1>5. /\ x.left => (x.ticks >= Unlisted => n >= Unlisted)
      /\ x.left /\ x.retired /\ x.ticks >= x.age => n >= a
  <2> DEFINE i == x.ticks
             j == x.age
  <2>1. i \in Nat /\ j \in Nat
    BY <1>2
  <2>2. i >= Unlisted => Later(i) >= Unlisted
    <3> HIDE DEF i, j
    <3> QED
      BY <1>3, <2>1, BoundsAreNumbers
  <2>3. i >= j => Later(i) >= Later(j)
    <3> HIDE DEF i, j
    <3>1. /\ Later(i) \in Nat /\ (Later(i) = i + 1 \/ Later(i) = Unlisted)
          /\ Later(j) \in Nat /\ Later(j) <= j + 1 /\ Later(j) <= Unlisted
      BY <1>3, <2>1
    <3> QED
      BY <2>1, <3>1, BoundsAreNumbers
  <2> QED
    BY <2>2, <2>3
<1>6. (~x.retired => a = x.age) /\ (~x.left => n = x.ticks)
  OBVIOUS
<1> HIDE DEF a, n, y
<1>7. y \in SegmentType
  BY <1>1, <1>4 DEF SegmentType
<1>8. /\ y.gen = x.gen /\ y.size = x.size /\ y.disc = x.disc
      /\ y.onDisk = x.onDisk /\ y.pending = x.pending /\ y.doomed = x.doomed
      /\ y.left = x.left /\ y.kept = x.kept /\ y.pubs = x.pubs
      /\ y.held = x.held /\ y.retired = x.retired /\ y.age = a /\ y.ticks = n
  BY <1>1 DEF SegmentType
<1> QED
  BY <1>5, <1>6, <1>7, <1>8 DEF y
\* A target duration later: only what has left the playlist has an age.
LEMMA OlderIsSound ==
  ASSUME NEW st, SoundStore(st, 0), AtRest(st), NEW b \in StoreType,
         b.low = st.low, b.next = st.next, b.passed = st.passed, b.inits = st.inits,
         b.window = st.window, b.degraded = st.degraded, b.forgone = st.forgone,
         \A s \in Segments : b.seg[s] = Older(st.seg[s])
  PROVE  /\ SoundStore(b, 0) /\ AtRest(b) /\ Listed(b) = Listed(st) /\ Gone(b) = Gone(st)
         /\ \A s \in Segments :
              /\ Found(b, s) <=> Found(st, s)
              /\ b.seg[s].onDisk = st.seg[s].onDisk /\ b.seg[s].pending = st.seg[s].pending
              /\ b.seg[s].doomed = st.seg[s].doomed /\ b.seg[s].size = st.seg[s].size
<1>1. /\ ListIsSound(st) /\ st \in StoreType /\ st.low \in Nat /\ st.next \in Nat
           /\ st.low <= st.next
      /\ \A t \in Segments : t \in Nat /\ t >= 1 /\ st.seg[t] \in SegmentType
  BY ListedAreSegments DEF SoundStore, ListIsSound
<1>2. ASSUME NEW s \in Segments
      PROVE  LET x == st.seg[s]
                 y == b.seg[s]
             IN /\ y.onDisk = x.onDisk /\ y.pending = x.pending /\ y.disc = x.disc /\ y.gen = x.gen
                /\ y.size = x.size /\ y.doomed = x.doomed /\ y.left = x.left /\ y.kept = x.kept
                /\ y.pubs = x.pubs /\ y.held = x.held /\ y.retired = x.retired
                /\ ~x.retired => y.age = x.age
                /\ x.left => (x.ticks >= Unlisted => y.ticks >= Unlisted)
                /\ x.left /\ x.retired /\ x.ticks >= x.age => y.ticks >= y.age
                /\ ~x.left => y.ticks = x.ticks
                /\ x.retired => x.left
                /\ y \in SegmentType
  BY <1>1, OlderSegment, RetiredHasLeft
<1>3. Stored(b) = Stored(st) /\ Listed(b) = Listed(st) /\ Gone(b) = Gone(st)
  <2>1. \A s \in Segments : b.seg[s].onDisk = st.seg[s].onDisk
                              /\ b.seg[s].pending = st.seg[s].pending
                            /\ b.seg[s].disc = st.seg[s].disc
    BY <1>2
  <2> QED
    BY <1>1, <2>1, ListedSame, GoneSame
<1>4. ListIsSound(b)
  <2>1. 1..(st.low - 1) \subseteq Segments
    BY <1>1, ListedAreSegments
  <2>2. {t \in 1..(b.low - 1) : b.seg[t].disc} = {t \in 1..(st.low - 1) : st.seg[t].disc}
    BY <1>2, <2>1
  <2> QED
    BY <1>1, <2>2 DEF ListIsSound
<1>5. ASSUME NEW s \in Segments
      PROVE  PlaceIsSound(b, s) /\ PastIsSound(b, s, 0) /\ (Found(b, s) <=> Found(st, s))
  <2>1. PlaceIsSound(st, s) /\ PastIsSound(st, s, 0)
    BY DEF SoundStore
  <2> DEFINE x == st.seg[s]
             y == b.seg[s]
  <2>2. /\ y.onDisk = x.onDisk /\ y.pending = x.pending /\ y.disc = x.disc /\ y.gen = x.gen
        /\ y.size = x.size /\ y.doomed = x.doomed /\ y.left = x.left /\ y.kept = x.kept
        /\ y.pubs = x.pubs /\ y.held = x.held /\ y.retired = x.retired
    BY <1>2
  <2>3. /\ ~x.retired => y.age = x.age
        /\ x.left => (x.ticks >= Unlisted => y.ticks >= Unlisted)
        /\ x.left /\ x.retired /\ x.ticks >= x.age => y.ticks >= y.age
        /\ x.retired => x.left
    BY <1>2
  <2>4. PlaceIsSound(b, s)
    BY <1>3, <2>1, <2>2 DEF PlaceIsSound
  <2>5. PastIsSound(b, s, 0)
    BY <2>1, <2>2, <2>3 DEF PastIsSound
  <2> QED
    BY <1>3, <2>2, <2>4, <2>5 DEF Found
<1>6. AtRest(b)
  <2>1. Below(b) = Below(st)
    <3>1. \A t \in Stored(st) : t + StoreSegments < b.next <=> t + StoreSegments < st.next
      OBVIOUS
    <3> QED
      BY <1>3, <3>1 DEF Below
  <2> QED
    BY <1>2, <1>3, <1>5, <2>1 DEF AtRest
<1> QED
  BY <1>2, <1>3, <1>4, <1>5, <1>6 DEF SoundStore

\* The same segments in the same list.
LEMMA SameAtRest ==
  ASSUME NEW st, SoundStore(st, 0), AtRest(st), NEW b \in StoreType,
         b.low = st.low, b.next = st.next, b.passed = st.passed, b.seg = st.seg,
         b.window = st.window, b.degraded = st.degraded, b.forgone = st.forgone,
         st.inits \subseteq b.inits
  PROVE  /\ SoundStore(b, 0) /\ AtRest(b) /\ Listed(b) = Listed(st) /\ Gone(b) = Gone(st)
         /\ Stored(b) = Stored(st) /\ \A s : Found(b, s) <=> Found(st, s)
         /\ \A S : SizeOf(b, S) = SizeOf(st, S)
<1>1. SoundStore(b, 0)
  BY SameIsSound
<1>2. Listed(b) = Listed(st) /\ Gone(b) = Gone(st) /\ Stored(b) = Stored(st)
  BY ListedSame, GoneSame DEF SoundStore
<1>3. \A s : Found(b, s) <=> Found(st, s)
  BY <1>2 DEF Found
<1>4. \A S : SizeOf(b, S) = SizeOf(st, S)
  BY DEF SizeOf
<1>5. AtRest(b)
  <2>1. Below(b) = Below(st)
    BY <1>2 DEF Below
  <2> QED
    BY <1>2, <1>3, <2>1 DEF AtRest
<1> QED
  BY <1>1, <1>2, <1>3, <1>4, <1>5

\* What is on disk is found.
LEMMA OnDiskIsFound ==
  ASSUME NEW st, NEW k, SoundStore(st, k), NEW s \in Segments,
         st.seg[s].onDisk \/ st.seg[s].pending
  PROVE  Found(st, s) /\ s < st.next /\ st.window /\ ~st.seg[s].doomed
<1>1. /\ st.low \in Nat /\ st.next \in Nat /\ s \in Nat
  BY ListedAreSegments DEF SoundStore
<1>2. PlaceIsSound(st, s)
  BY DEF SoundStore
<1>3. s < st.next
  BY <1>1, <1>2 DEF PlaceIsSound
<1>4. s < st.low => st.seg[s].retired
  BY <1>2 DEF PlaceIsSound
<1>5. ~(s < st.low) => s \in Stored(st)
  BY <1>1, <1>3 DEF Stored
<1> QED
  BY <1>2, <1>3, <1>4, <1>5 DEF PlaceIsSound, Found

\* A store whose leavers have been noted is at rest, if it spares memory and keeps
\* the init segments.
LEMMA NotedAtRest ==
  ASSUME NEW st, NEW k \in {0, 1}, SoundStore(st, k), Spares(st),
         \A s \in Segments : s < st.next /\ Found(st, s) => st.seg[s].gen \in st.inits
  PROVE  SoundStore(Noted(st, k), 0) /\ AtRest(Noted(st, k)) /\ Follows(st, Noted(st, k))
<1>1. /\ SoundStore(Noted(st, k), 0) /\ Follows(st, Noted(st, k)) /\ Spares(Noted(st, k))
      /\ \A s \in Segments : s < st.next /\ s \notin Listed(Noted(st, k))
                               => Noted(st, k).seg[s].left
      /\ Noted(st, k).inits = st.inits
  BY NotedFollows
<1> QED
  BY <1>1 DEF AtRest, Spares, Follows

\* The playlist numbers its discontinuities, and is rendered anew when it changes.
LEMMA PlaylistOf ==
  ASSUME SoundStore(store', 0),
         fresh' => shown'.list = Listed(store') /\ shown'.gone = Gone(store')
  PROVE  PlaylistIsTrue'
<1>1. Stored(store') # {} =>
        Gone(store') = Cardinality({s \in 1..(Min(Listed(store')) - 1) : store'.seg[s].disc})
  BY GoneIsTheCount DEF SoundStore
<1> QED
  BY <1>1 DEF PlaylistIsTrue
----------------------------------------------------------------------------
(* The operations                                                          *)

\* An unborn segment.
LEMMA UnbornSegment ==
  /\ Unborn \in SegmentType
  /\ ~Unborn.held /\ ~Unborn.onDisk /\ ~Unborn.pending /\ ~Unborn.retired /\ ~Unborn.doomed
  /\ ~Unborn.disc
  BY DEF Unborn, SegmentType

\* The parts of the invariant, by name.
LEMMA InvParts ==
  ASSUME StoreInv
  PROVE  /\ SoundStore(store, 0) /\ AtRest(store) /\ store \in StoreType /\ ListIsSound(store)
         /\ writer \in WriterType /\ Spares(store)
         /\ store.low \in Nat /\ store.next \in Nat /\ store.low <= store.next /\ store.low >= 1
         /\ \A s \in Segments : s \in Nat /\ s >= 1 /\ store.seg[s] \in SegmentType
         /\ \A s \in Segments : store.seg[s].size \in Nat
         /\ gen \in Nat /\ store.lastGen \in Nat
<1>1. SoundStore(store, 0) /\ AtRest(store) /\ ListIsSound(store) /\ store \in StoreType
  BY DEF StoreInv, SoundStore, ListIsSound
<1>2. /\ store.low \in Nat /\ store.next \in Nat /\ store.low <= store.next /\ store.low >= 1
      /\ \A s \in Segments : s \in Nat /\ s >= 1 /\ store.seg[s] \in SegmentType
  BY <1>1, ListedAreSegments
<1>3. \A s \in Segments : store.seg[s].size \in Nat
  BY <1>2 DEF SegmentType
<1>4. Spares(store)
  BY <1>1 DEF AtRest, Spares
<1>5. writer \in WriterType /\ gen \in Nat
  BY BoundsAreNumbers DEF StoreInv, WriterIsSound, GensAreSound
<1>6. store.lastGen \in Nat
  BY <1>1 DEF StoreType
<1> QED
  BY <1>1, <1>2, <1>3, <1>4, <1>5, <1>6

\* The writer at rest.
LEMMA RestingWriter ==
  /\ Resting \in WriterType
  /\ Resting.at = "idle" /\ Resting.jobs = {} /\ Resting.hand = {} /\ Resting.victim = 0
  BY DEF Resting, WriterType

\* The invariant holds at first.
LEMMA StoreInitKeeps == StoreInit => StoreInv
<1> SUFFICES ASSUME StoreInit PROVE StoreInv
  OBVIOUS
<1>1. PICK w \in BOOLEAN :
        store = [low |-> 1, next |-> 1, seg |-> [s \in Segments |-> Unborn], lastGen |-> 0,
                 inits |-> {1}, passed |-> 0, window |-> w, queue |-> {}, unlinks |-> {},
                 disk |-> 0, degraded |-> FALSE, closed |-> FALSE, removing |-> FALSE, forgone |-> {}]
  BY DEF StoreInit
<1>2. /\ store.low = 1 /\ store.next = 1 /\ store.lastGen = 0 /\ store.inits = {1}
           /\ store.passed = 0
      /\ store.queue = {} /\ store.unlinks = {} /\ store.disk = 0 /\ ~store.degraded
      /\ ~store.removing /\ store.forgone = {}
      /\ \A s \in Segments : store.seg[s] = Unborn
  BY <1>1
<1>3. store \in StoreType
  <2>1. [s \in Segments |-> Unborn] \in [Segments -> SegmentType]
    BY UnbornSegment
  <2>2. {1} \in SUBSET (1..MaxGens)
    BY BoundsAreNumbers
  <2> QED
    BY <1>1, <2>1, <2>2 DEF StoreType
<1>4. Stored(store) = {}
  BY <1>2 DEF Stored
<1>5. ListIsSound(store)
  <2>1. {s \in 1..(store.low - 1) : store.seg[s].disc} = {} /\ 1..(store.next - 1) = {}
    BY <1>2
  <2>2. Cardinality({}) = 0
    BY FS_EmptySet
  <2> QED
    BY <1>2, <1>3, <2>1, <2>2 DEF ListIsSound
<1>6. \A s \in Segments : s \in Nat /\ s >= 1
  BY SegmentsAreNumbers
<1>7. SoundStore(store, 0)
  <2>1. ASSUME NEW s \in Segments
        PROVE  PlaceIsSound(store, s) /\ PastIsSound(store, s, 0)
    BY <1>2, <1>4, <1>6, UnbornSegment DEF PlaceIsSound, PastIsSound
  <2> QED
    BY <1>5, <2>1 DEF SoundStore
<1>8. AtRest(store)
  BY <1>2, <1>6, UnbornSegment DEF AtRest
<1>9. WriterIsSound
  BY <1>2, RestingWriter DEF StoreInit, WriterIsSound
<1>10. FilesAreSound
  BY <1>2, UnbornSegment, RestingWriter DEF StoreInit, FilesAreSound
<1>11. GensAreSound
  <2>1. gen = 1 /\ kicked = FALSE /\ fresh = FALSE /\ diskFaults = 0
    BY DEF StoreInit
  <2>2. {kicked, fresh} \subseteq BOOLEAN
    BY <2>1
  <2>3. gen \in 1..MaxGens /\ gen \in store.inits /\ store.lastGen <= gen
    BY <1>2, <2>1, BoundsAreNumbers
  <2>4. diskFaults \in 0..MaxDiskFaults
    BY <2>1, BoundsAreNumbers
  <2> QED
    BY <2>2, <2>3, <2>4 DEF GensAreSound
<1>12. PlaylistIsTrue
  BY <1>4 DEF StoreInit, PlaylistIsTrue
<1>13. DiskIsAccounted
  <2>1. {s \in Segments : store.seg[s].onDisk} = {}
    BY <1>2, UnbornSegment
  <2>2. SizeOf(store, {}) = 0
    <3>1. UNION {{s} \X (1..store.seg[s].size) : s \in {}} = {}
      OBVIOUS
    <3> QED
      BY <3>1, FS_EmptySet DEF SizeOf
  <2> QED
    BY <1>2, <2>1, <2>2 DEF StoreInit, DiskIsAccounted
<1> QED
  BY <1>7, <1>8, <1>9, <1>10, <1>11, <1>12, <1>13 DEF StoreInv

\* A new generation only adds an init segment.
LEMMA NewGenerationKeeps ==
  ASSUME StoreInv, NewGeneration
  PROVE  StoreInv'
<1>1. /\ SoundStore(store, 0) /\ AtRest(store) /\ store \in StoreType
      /\ gen \in Nat /\ store.lastGen \in Nat /\ \A s \in Segments : store.seg[s].size \in Nat
  BY InvParts
<1>2. PICK I : I = store.inits \cup {gen + 1}
  OBVIOUS
<1>3. /\ store' = [store EXCEPT !.inits = I] /\ gen' = gen + 1 /\ gen < MaxGens /\ fresh' = FALSE
      /\ UNCHANGED <<writer, kicked, files, reads, shown, diskFaults>>
  BY <1>2 DEF NewGeneration
<1>4. gen + 1 \in 1..MaxGens
  BY <1>1, <1>3, BoundsAreNumbers
<1>5. I \in SUBSET (1..MaxGens) /\ store.inits \subseteq I
  BY <1>1, <1>2, <1>4 DEF StoreType
<1>6. /\ store' \in StoreType /\ store'.inits = I
      /\ store'.low = store.low /\ store'.next = store.next /\ store'.passed = store.passed
      /\ store'.seg = store.seg /\ store'.window = store.window /\ store'.degraded = store.degraded
      /\ store'.forgone = store.forgone /\ store'.lastGen = store.lastGen
           /\ store'.queue = store.queue
      /\ store'.unlinks = store.unlinks /\ store'.disk = store.disk /\ store'.closed = store.closed
      /\ store'.removing = store.removing
  BY <1>1, <1>3, <1>5 DEF StoreType
<1>7. /\ SoundStore(store', 0) /\ AtRest(store')
      /\ \A s : Found(store', s) <=> Found(store, s)
      /\ \A S : SizeOf(store', S) = SizeOf(store, S)
  BY <1>1, <1>5, <1>6, SameAtRest
<1>8. WriterIsSound'
  BY <1>3, <1>6 DEF StoreInv, WriterIsSound
<1>9. FilesAreSound'
  BY <1>3, <1>6 DEF StoreInv, FilesAreSound
<1>10. GensAreSound'
  <2>1. /\ store.lastGen <= gen /\ diskFaults \in 0..MaxDiskFaults
        /\ {kicked, fresh} \subseteq BOOLEAN
    BY DEF StoreInv, GensAreSound
  <2>2. {kicked', fresh'} \subseteq BOOLEAN
    BY <1>3, <2>1
  <2>3. gen' \in store'.inits
    BY <1>2, <1>3, <1>6
  <2>4. store'.lastGen <= gen'
    BY <1>1, <1>3, <1>6, <2>1
  <2> QED
    BY <1>3, <1>4, <2>1, <2>2, <2>3, <2>4 DEF GensAreSound
<1>11. PlaylistIsTrue'
  BY <1>3, <1>7, PlaylistOf
<1>12. DiskIsAccounted'
  BY <1>3, <1>6, <1>7 DEF StoreInv, DiskIsAccounted, Pinned
<1> QED
  BY <1>7, <1>8, <1>9, <1>10, <1>11, <1>12 DEF StoreInv

\* A store that closes.
LEMMA CloseStoreKeeps ==
  ASSUME StoreInv, CloseStore
  PROVE  StoreInv'
<1>1. /\ SoundStore(store, 0) /\ AtRest(store) /\ store \in StoreType
      /\ store.lastGen \in Nat
  BY InvParts
<1>2. /\ store' = [store EXCEPT !.closed = TRUE] /\ fresh' = FALSE /\ kicked' \in BOOLEAN
      /\ UNCHANGED <<writer, files, reads, gen, shown, diskFaults>> /\ ~store.closed
  BY DEF CloseStore
<1>3. /\ store' \in StoreType /\ store'.closed
      /\ store'.low = store.low /\ store'.next = store.next /\ store'.passed = store.passed
      /\ store'.seg = store.seg /\ store'.window = store.window /\ store'.degraded = store.degraded
      /\ store'.forgone = store.forgone /\ store'.lastGen = store.lastGen
           /\ store'.queue = store.queue
      /\ store'.unlinks = store.unlinks /\ store'.disk = store.disk /\ store'.inits = store.inits
      /\ store'.removing = store.removing
  BY <1>1, <1>2 DEF StoreType
<1>4. /\ SoundStore(store', 0) /\ AtRest(store')
      /\ \A s : Found(store', s) <=> Found(store, s)
      /\ \A S : SizeOf(store', S) = SizeOf(store, S)
  BY <1>1, <1>3, SameAtRest
<1>5. WriterIsSound'
  BY <1>2, <1>3 DEF StoreInv, WriterIsSound
<1>6. FilesAreSound'
  BY <1>2, <1>3 DEF StoreInv, FilesAreSound
<1>7. GensAreSound'
  BY <1>2, <1>3 DEF StoreInv, GensAreSound
<1>8. PlaylistIsTrue'
  BY <1>2, <1>4, PlaylistOf
<1>9. DiskIsAccounted'
  BY <1>2, <1>3, <1>4 DEF StoreInv, DiskIsAccounted, Pinned
<1> QED
  BY <1>4, <1>5, <1>6, <1>7, <1>8, <1>9 DEF StoreInv
\* The window's directory goes.
LEMMA RemoveWindowKeeps ==
  ASSUME StoreInv, RemoveWindow
  PROVE  StoreInv'
<1>1. /\ SoundStore(store, 0) /\ AtRest(store) /\ store \in StoreType
  BY InvParts
<1>2. /\ store' = [store EXCEPT !.disk = 0] /\ files' = {} /\ writer' = Resting
      /\ writer.at = "removing"
      /\ UNCHANGED <<kicked, reads, gen, shown, fresh, diskFaults>>
  BY DEF RemoveWindow
<1>3. /\ store' \in StoreType /\ store'.closed = store.closed
      /\ store'.low = store.low /\ store'.next = store.next /\ store'.passed = store.passed
      /\ store'.seg = store.seg /\ store'.window = store.window /\ store'.degraded = store.degraded
      /\ store'.forgone = store.forgone /\ store'.lastGen = store.lastGen
           /\ store'.queue = store.queue
      /\ store'.unlinks = store.unlinks /\ store'.inits = store.inits
      /\ store'.removing = store.removing
  BY <1>1, <1>2 DEF StoreType
<1>4. /\ SoundStore(store', 0) /\ AtRest(store') /\ Listed(store') = Listed(store)
           /\ Gone(store') = Gone(store)
  BY <1>1, <1>3, SameAtRest
<1>5. store.removing /\ \A g \in Gets : reads[g] = 0
  BY <1>2 DEF StoreInv, WriterIsSound
<1>6. WriterIsSound'
  BY <1>2, <1>3, RestingWriter DEF StoreInv, WriterIsSound
<1>7. FilesAreSound'
  BY <1>2, <1>3, <1>5, RestingWriter DEF StoreInv, FilesAreSound
<1>8. GensAreSound'
  BY <1>2, <1>3 DEF StoreInv, GensAreSound
<1>9. PlaylistIsTrue'
  BY <1>2, <1>4, PlaylistOf DEF StoreInv, PlaylistIsTrue
<1>10. DiskIsAccounted'
  BY <1>2, <1>3, <1>5 DEF DiskIsAccounted
<1> QED
  BY <1>4, <1>6, <1>7, <1>8, <1>9, <1>10 DEF StoreInv

\* A job's file is in place.
LEMMA WriteJobKeeps ==
  ASSUME StoreInv, WriteJob
  PROVE  StoreInv'
<1>1. writer \in WriterType
  BY InvParts
<1>2. /\ files' = files \cup {Min(writer.jobs)} /\ writer.at = "writing"
      /\ UNCHANGED <<store, kicked, reads, gen, shown, fresh, diskFaults>>
  BY DEF WriteJob
<1>3. /\ writer' \in WriterType /\ writer'.at = "committing" /\ writer'.jobs = writer.jobs
      /\ writer'.hand = writer.hand
  BY <1>1 DEF WriteJob, WriterType
<1>4. Min(writer.jobs) \in Segments
  <2>1. writer.jobs # {} /\ writer.jobs \subseteq Segments
    BY <1>1, <1>2 DEF StoreInv, WriterIsSound, WriterType
  <2> QED
    BY <2>1, LeastOf, SegmentsAreNumbers
<1>5. SoundStore(store', 0) /\ AtRest(store')
  BY <1>2, InvParts
<1>6. WriterIsSound'
  BY <1>2, <1>3 DEF StoreInv, WriterIsSound
<1>7. FilesAreSound'
  BY <1>2, <1>3, <1>4 DEF StoreInv, FilesAreSound
<1>8. GensAreSound' /\ PlaylistIsTrue'
  BY <1>2 DEF StoreInv, GensAreSound, PlaylistIsTrue
<1>9. DiskIsAccounted'
  BY <1>2, <1>3 DEF StoreInv, DiskIsAccounted, Pinned
<1> QED
  BY <1>5, <1>6, <1>7, <1>8, <1>9 DEF StoreInv

\* The segments in hand lose their files.
LEMMA UnlinkKeeps ==
  ASSUME StoreInv, Unlink
  PROVE  StoreInv'
<1>1. writer \in WriterType
  BY InvParts
<1>2. /\ files' = files \ writer.hand /\ writer.at = "unlinking"
      /\ UNCHANGED <<store, kicked, reads, gen, shown, fresh, diskFaults>>
  BY DEF Unlink
<1>3. /\ writer' \in WriterType /\ writer'.at = "capping" /\ writer'.jobs = {}
      /\ writer'.hand = {}
  BY DEF Unlink, Resting, WriterType
<1>4. SoundStore(store', 0) /\ AtRest(store')
  BY <1>2, InvParts
<1>5. WriterIsSound'
  <2>1. writer.jobs = {}
    BY <1>2 DEF StoreInv, WriterIsSound
  <2> QED
    BY <1>2, <1>3, <2>1 DEF StoreInv, WriterIsSound
<1>6. FilesAreSound'
  BY <1>2, <1>3 DEF StoreInv, FilesAreSound
<1>7. GensAreSound' /\ PlaylistIsTrue'
  BY <1>2 DEF StoreInv, GensAreSound, PlaylistIsTrue
<1>8. DiskIsAccounted'
  <2>1. \A g \in Gets : reads[g] # 0 => reads[g] \in files'
    BY <1>2 DEF StoreInv, FilesAreSound
  <2> QED
    BY <1>2, <1>3, <2>1 DEF StoreInv, DiskIsAccounted, Pinned
<1> QED
  BY <1>4, <1>5, <1>6, <1>7, <1>8 DEF StoreInv

\* The writer picks what the cap costs.
LEMMA PickVictimKeeps ==
  ASSUME StoreInv, PickVictim
  PROVE  StoreInv'
<1> DEFINE retired == {s \in Segments : store.seg[s].retired /\ store.seg[s].onDisk}
           head    == {s \in Below(store) : s = store.low /\ store.seg[s].onDisk}
           choice  == IF retired # {} THEN retired ELSE head
<1>1. writer \in WriterType /\ ListIsSound(store)
  BY InvParts
<1>2. /\ writer' = IF store.disk <= DiskCap \/ choice = {} THEN Resting
                   ELSE [writer EXCEPT !.at = "evicting", !.victim = Min(choice), !.fromList = retired = {}]
      /\ writer.at = "capping"
      /\ UNCHANGED <<store, kicked, files, reads, gen, shown, fresh, diskFaults>>
  BY DEF PickVictim
<1>3. choice \subseteq Segments /\ \A s \in choice : store.seg[s].onDisk
  <2>1. Stored(store) \subseteq Segments
    BY <1>1, ListedAreSegments
  <2> QED
    BY <2>1 DEF Below
<1>4. choice # {} => Min(choice) \in choice
  BY <1>3, LeastOf, SegmentsAreNumbers
<1>5. (retired = {}) \in BOOLEAN
  OBVIOUS
<1>6. writer.jobs = {} /\ writer.hand = {}
  BY <1>2 DEF StoreInv, WriterIsSound
<1> HIDE DEF retired, head, choice
<1>7. /\ writer' \in WriterType /\ writer'.at \in {"idle", "evicting"} /\ writer'.jobs = {}
           /\ writer'.hand = {}
      /\ writer'.at = "evicting" => writer'.victim \in Segments /\ store.seg[writer'.victim].onDisk
  <2>1. CASE store.disk <= DiskCap \/ choice = {}
    BY <1>2, <2>1, RestingWriter
  <2>2. CASE ~(store.disk <= DiskCap \/ choice = {})
    <3>1. Min(choice) \in Segments /\ store.seg[Min(choice)].onDisk
      BY <1>3, <1>4, <2>2
    <3>2. PICK r \in BOOLEAN : r = (retired = {})
      BY <1>5
    <3>3. PICK m : m = Min(choice)
      OBVIOUS
    <3>4. writer' = [writer EXCEPT !.at = "evicting", !.victim = m, !.fromList = r]
      BY <1>2, <2>2, <3>2, <3>3
    <3>5. /\ writer' \in WriterType /\ writer'.victim = m /\ writer'.at = "evicting"
          /\ writer'.jobs = writer.jobs /\ writer'.hand = writer.hand
      BY <1>1, <3>1, <3>2, <3>3, <3>4 DEF WriterType
    <3> QED
      BY <1>6, <3>1, <3>3, <3>5
  <2> QED
    BY <2>1, <2>2
<1>8. SoundStore(store', 0) /\ AtRest(store')
  BY <1>2, InvParts
<1>9. WriterIsSound'
  BY <1>2, <1>6, <1>7 DEF StoreInv, WriterIsSound
<1>10. FilesAreSound'
  BY <1>2, <1>6, <1>7 DEF StoreInv, FilesAreSound
<1>11. GensAreSound' /\ PlaylistIsTrue'
  BY <1>2 DEF StoreInv, GensAreSound, PlaylistIsTrue
<1>12. DiskIsAccounted'
  BY <1>2, <1>6, <1>7 DEF StoreInv, DiskIsAccounted, Pinned
<1> QED
  BY <1>8, <1>9, <1>10, <1>11, <1>12 DEF StoreInv

\* The playlist is rendered.
LEMMA RenderKeeps ==
  ASSUME StoreInv, Render
  PROVE  StoreInv'
<1>1. /\ shown' = [list |-> Listed(store), gone |-> Gone(store)] /\ fresh' = TRUE
      /\ UNCHANGED <<store, writer, kicked, files, reads, gen, diskFaults>>
  BY DEF Render
<1>2. SoundStore(store', 0) /\ AtRest(store')
  BY <1>1, InvParts
<1>3. WriterIsSound' /\ FilesAreSound' /\ DiskIsAccounted'
  BY <1>1 DEF StoreInv, WriterIsSound, FilesAreSound, DiskIsAccounted, Pinned
<1>4. GensAreSound'
  BY <1>1 DEF StoreInv, GensAreSound
<1>5. PlaylistIsTrue'
  BY <1>1, <1>2, PlaylistOf
<1> QED
  BY <1>2, <1>3, <1>4, <1>5 DEF StoreInv

\* A read pins a segment that is on disk.
LEMMA PinKeeps ==
  ASSUME StoreInv, NEW g \in Gets, NEW s \in Segments, Pin(g, s)
  PROVE  StoreInv'
<1>1. /\ reads[g] = 0 /\ store.seg[s].onDisk /\ ~store.closed /\ ~store.removing
      /\ reads' = [reads EXCEPT ![g] = s]
      /\ UNCHANGED <<store, writer, kicked, files, gen, shown, fresh, diskFaults>>
  BY DEF Pin
<1>2. /\ reads' \in [Gets -> Segments \cup {0}] /\ reads'[g] = s
      /\ \A h \in Gets : h # g => reads'[h] = reads[h]
  BY <1>1 DEF StoreInv, FilesAreSound
<1>3. SoundStore(store', 0) /\ AtRest(store')
  BY <1>1, InvParts
<1>4. WriterIsSound'
  BY <1>1 DEF StoreInv, WriterIsSound
<1>5. s \in files /\ s \notin store.unlinks \cup writer.hand
  BY <1>1 DEF StoreInv, FilesAreSound
<1>6. FilesAreSound'
  BY <1>1, <1>2, <1>5 DEF StoreInv, FilesAreSound
<1>7. GensAreSound' /\ PlaylistIsTrue'
  BY <1>1 DEF StoreInv, GensAreSound, PlaylistIsTrue
<1>8. \A t : t # 0 /\ Pinned(t) # {} => Pinned(t)' # {}
  BY <1>1, <1>2 DEF Pinned
<1>9. \A t \in files : t # 0
  BY SegmentsAreNumbers DEF StoreInv, FilesAreSound
<1>10. DiskIsAccounted'
  BY <1>1, <1>2, <1>5, <1>8, <1>9 DEF StoreInv, DiskIsAccounted
<1> QED
  BY <1>3, <1>4, <1>6, <1>7, <1>10 DEF StoreInv
\* A store that follows another has the same bytes on disk.
LEMMA FollowsSizes ==
  ASSUME NEW a, NEW b, Follows(a, b)
  PROVE  /\ {s \in Segments : b.seg[s].onDisk} = {s \in Segments : a.seg[s].onDisk}
         /\ \A S : S \subseteq Segments => SizeOf(b, S) = SizeOf(a, S)
<1>1. \A s \in Segments : b.seg[s].onDisk = a.seg[s].onDisk /\ b.seg[s].size = a.seg[s].size
  BY DEF Follows
<1>2. ASSUME NEW S, S \subseteq Segments
      PROVE  SizeOf(b, S) = SizeOf(a, S)
  <2>1. \A s \in S : b.seg[s].size = a.seg[s].size
    BY <1>1, <1>2
  <2> QED
    BY <2>1, SizeOfSame
<1> QED
  BY <1>1, <1>2

\* A read ends; the last one of a segment that was evicted hands it over.
LEMMA UnpinKeeps ==
  ASSUME StoreInv, NEW g \in Gets, Unpin(g)
  PROVE  StoreInv'
<1> DEFINE s    == reads[g]
           last == store.seg[s].doomed /\ Pinned(s) = {g}
<1>1. /\ SoundStore(store, 0) /\ AtRest(store) /\ store \in StoreType
      /\ store.next \in Nat /\ \A t \in Segments : t \in Nat
  BY InvParts
<1>2. /\ s # 0
      /\ reads' = [reads EXCEPT ![g] = 0]
      /\ store' = IF last THEN [store EXCEPT !.unlinks = @ \cup {s}] ELSE store
      /\ kicked' \in BOOLEAN
      /\ UNCHANGED <<writer, files, gen, shown, fresh, diskFaults>>
  BY DEF Unpin
<1>3. /\ reads' \in [Gets -> Segments \cup {0}] /\ reads'[g] = 0 /\ s \in Segments
      /\ \A h \in Gets : h # g => reads'[h] = reads[h]
  BY <1>2 DEF StoreInv, FilesAreSound
<1>4. last => s < store.next /\ ~store.seg[s].onDisk /\ ~store.seg[s].pending
  <2>1. PlaceIsSound(store, s)
    BY <1>1, <1>3 DEF SoundStore
  <2> QED
    BY <1>1, <1>3, <2>1 DEF PlaceIsSound
<1>5. last => \A h \in Gets : h # g => reads[h] # s
  BY DEF Pinned
<1>6. PICK U : U = store.unlinks \cup {s}
  OBVIOUS
<1> HIDE DEF last
<1>7. /\ store' \in StoreType /\ store'.disk = store.disk
      /\ store'.low = store.low /\ store'.next = store.next /\ store'.passed = store.passed
      /\ store'.seg = store.seg /\ store'.window = store.window /\ store'.degraded = store.degraded
      /\ store'.forgone = store.forgone /\ store'.lastGen = store.lastGen
           /\ store'.queue = store.queue
      /\ store'.closed = store.closed /\ store'.inits = store.inits
      /\ store'.removing = store.removing
      /\ last => store'.unlinks = store.unlinks \cup {s}
      /\ ~last => store'.unlinks = store.unlinks
  <2>1. CASE last
    <3>1. store' = [store EXCEPT !.unlinks = U]
      BY <1>2, <1>6, <2>1
    <3>2. U \in SUBSET Segments
      BY <1>1, <1>3, <1>6 DEF StoreType
    <3> QED
      BY <1>1, <1>6, <2>1, <3>1, <3>2 DEF StoreType
  <2>2. CASE ~last
    BY <1>1, <1>2, <2>2
  <2> QED
    BY <2>1, <2>2
<1>8. /\ SoundStore(store', 0) /\ AtRest(store') /\ Listed(store') = Listed(store)
           /\ Gone(store') = Gone(store)
      /\ \A t : Found(store', t) <=> Found(store, t)
      /\ \A S : SizeOf(store', S) = SizeOf(store, S)
  BY <1>1, <1>7, SameAtRest
<1>9. ~store.removing
  BY <1>2 DEF StoreInv, WriterIsSound
<1>10. WriterIsSound'
  BY <1>2, <1>7, <1>9 DEF StoreInv, WriterIsSound
<1>11. FilesAreSound'
  <2>1. /\ files' \subseteq Segments
        /\ ~store'.removing => \A t \in Segments : store'.seg[t].onDisk => t \in files'
    BY <1>2, <1>7 DEF StoreInv, FilesAreSound
  <2>2. ASSUME NEW t \in store'.unlinks \cup writer'.hand
        PROVE  t < store'.next /\ ~store'.seg[t].onDisk /\ ~store'.seg[t].pending
    BY <1>2, <1>4, <1>7 DEF StoreInv, FilesAreSound
  <2>3. ASSUME NEW h \in Gets, reads'[h] # 0
        PROVE  /\ reads'[h] \in files' /\ reads'[h] \notin store'.unlinks \cup writer'.hand
               /\ store'.seg[reads'[h]].onDisk \/ store'.seg[reads'[h]].doomed
    <3>1. h # g /\ reads'[h] = reads[h] /\ reads[h] # 0
      BY <1>3, <2>3
    <3>2. last => reads[h] # s
      BY <1>5, <3>1
    <3> QED
      BY <1>2, <1>7, <3>1, <3>2 DEF StoreInv, FilesAreSound
  <2> QED
    BY <1>3, <2>1, <2>2, <2>3 DEF FilesAreSound
<1>12. GensAreSound'
  BY <1>2, <1>7 DEF StoreInv, GensAreSound
<1>13. PlaylistIsTrue'
  BY <1>2, <1>8, PlaylistOf DEF StoreInv, PlaylistIsTrue
<1>14. DiskIsAccounted'
  <2>1. store'.disk = SizeOf(store', {t \in Segments : store'.seg[t].onDisk})
    BY <1>7, <1>8, <1>9 DEF StoreInv, DiskIsAccounted
  <2>2. ASSUME NEW t, Pinned(t) # {}, store.seg[t].doomed
        PROVE  t \in store'.unlinks \/ Pinned(t)' # {}
    <3>1. PICK h \in Gets : reads[h] = t
      BY <2>2 DEF Pinned
    <3>2. CASE t # s
      BY <1>3, <3>1, <3>2 DEF Pinned
    <3>3. CASE t = s /\ Pinned(s) = {g}
      BY <1>7, <2>2, <3>3 DEF last
    <3>4. CASE t = s /\ Pinned(s) # {g}
      <4>1. g \in Pinned(s)
        BY DEF Pinned
      <4>2. PICK k \in Gets : k # g /\ reads[k] = s
        BY <3>4, <4>1 DEF Pinned
      <4> QED
        BY <1>3, <3>4, <4>2 DEF Pinned
    <3> QED
      BY <3>2, <3>3, <3>4
  <2>3. \A h \in Gets : reads'[h] # 0 => reads'[h] \in files'
    BY <1>11 DEF FilesAreSound
  <2>4. store.unlinks \subseteq store'.unlinks
    BY <1>7
  <2>5. ASSUME NEW t \in files, ~store.degraded
        PROVE  \/ store.seg[t].onDisk /\ Found(store, t)
               \/ t \in store.unlinks \cup (writer.hand \cup (IF writer.at = "committing" THEN {Min(writer.jobs)} ELSE {}))
               \/ store.seg[t].doomed /\ Pinned(t) # {}
    BY <1>9, <2>5 DEF StoreInv, DiskIsAccounted
  <2>6. ASSUME NEW t \in files', ~store'.degraded
        PROVE  \/ store'.seg[t].onDisk /\ Found(store', t)
               \/ t \in store'.unlinks \cup (writer'.hand \cup (IF writer'.at = "committing" THEN {Min(writer'.jobs)} ELSE {}))
               \/ store'.seg[t].doomed /\ Pinned(t)' # {}
    BY <1>2, <1>7, <1>8, <2>2, <2>4, <2>5, <2>6
  <2> QED
    BY <2>1, <2>3, <2>6 DEF DiskIsAccounted
<1> QED
  BY <1>8, <1>10, <1>11, <1>12, <1>13, <1>14 DEF StoreInv

\* A target duration passes.
LEMMA StoreTickKeeps ==
  ASSUME StoreInv, StoreTick
  PROVE  StoreInv'
<1>1. /\ SoundStore(store, 0) /\ AtRest(store) /\ store \in StoreType
      /\ \A s \in Segments : store.seg[s] \in SegmentType
  BY InvParts
<1> DEFINE segs == [s \in Segments |-> Older(store.seg[s])]
<1>2. /\ store' = [store EXCEPT !.seg = segs]
      /\ UNCHANGED <<writer, kicked, files, reads, gen, shown, fresh, diskFaults>>
  BY DEF StoreTick
<1>3. segs \in [Segments -> SegmentType] /\ \A s \in Segments : segs[s] = Older(store.seg[s])
  BY <1>1, OlderSegment
<1> HIDE DEF segs
<1>4. /\ store' \in StoreType /\ store'.disk = store.disk
      /\ store'.low = store.low /\ store'.next = store.next /\ store'.passed = store.passed
      /\ store'.seg = segs /\ store'.window = store.window /\ store'.degraded = store.degraded
      /\ store'.forgone = store.forgone /\ store'.lastGen = store.lastGen
           /\ store'.queue = store.queue
      /\ store'.closed = store.closed /\ store'.inits = store.inits
      /\ store'.removing = store.removing /\ store'.unlinks = store.unlinks
  BY <1>1, <1>2, <1>3 DEF StoreType
<1>5. /\ SoundStore(store', 0) /\ AtRest(store') /\ Listed(store') = Listed(store)
           /\ Gone(store') = Gone(store)
      /\ \A s \in Segments :
              /\ Found(store', s) <=> Found(store, s)
              /\ store'.seg[s].onDisk = store.seg[s].onDisk
                   /\ store'.seg[s].pending = store.seg[s].pending
              /\ store'.seg[s].doomed = store.seg[s].doomed
                   /\ store'.seg[s].size = store.seg[s].size
  <2>1. \A s \in Segments : store'.seg[s] = Older(store.seg[s])
    BY <1>3, <1>4
  <2> QED
    BY <1>1, <1>4, <2>1, OlderIsSound
<1>6. WriterIsSound'
  BY <1>2, <1>4, <1>5 DEF StoreInv, WriterIsSound, WriterType, StoreType
<1>7. FilesAreSound'
  <2>1. store.unlinks \cup writer.hand \subseteq Segments
    BY <1>1, InvParts DEF StoreType, WriterType
  <2> QED
    BY <1>2, <1>4, <1>5, <2>1 DEF StoreInv, FilesAreSound
<1>8. GensAreSound'
  BY <1>2, <1>4 DEF StoreInv, GensAreSound
<1>9. PlaylistIsTrue'
  BY <1>2, <1>5, PlaylistOf DEF StoreInv, PlaylistIsTrue
<1>10. DiskIsAccounted'
  <2>1. {s \in Segments : store'.seg[s].onDisk} = {s \in Segments : store.seg[s].onDisk}
    BY <1>5
  <2>2. PICK S : S = {s \in Segments : store.seg[s].onDisk}
    OBVIOUS
  <2>3. SizeOf(store', S) = SizeOf(store, S)
    BY <1>5, <2>2, SizeOfSame
  <2>4. ~store'.removing => store'.disk = SizeOf(store', {s \in Segments : store'.seg[s].onDisk})
    BY <1>4, <2>1, <2>2, <2>3 DEF StoreInv, DiskIsAccounted
  <2>5. files \subseteq Segments
    BY DEF StoreInv, FilesAreSound
  <2> QED
    BY <1>2, <1>4, <1>5, <2>4, <2>5 DEF StoreInv, DiskIsAccounted, Pinned
<1> QED
  BY <1>5, <1>6, <1>7, <1>8, <1>9, <1>10 DEF StoreInv
\* A window that degrades, or was degraded.
LEMMA DegradedFollows ==
  ASSUME NEW st, SoundStore(st, 0), Spares(st)
  PROVE  /\ SoundStore(Degrade(st), 0) /\ Follows(st, Degrade(st)) /\ Spares(Degrade(st))
         /\ Degrade(st).degraded = TRUE
         /\ Degrade(st).inits = st.inits /\ Degrade(st).lastGen = st.lastGen
<1>1. CASE st.degraded
  <2>1. Degrade(st) = st
    BY <1>1 DEF Degrade
  <2>2. st.degraded = TRUE
    <3>1. st.degraded \in BOOLEAN
      BY DEF SoundStore, ListIsSound, StoreType
    <3> QED
      BY <1>1, <3>1
  <2>3. Follows(st, st)
    BY DEF Follows
  <2> HIDE DEF Degrade
  <2> QED
    BY <2>1, <2>2, <2>3
<1>2. CASE ~st.degraded
  BY <1>2, DegradeFollows
<1> QED
  BY <1>1, <1>2

\* A store that finds nothing again, once its leavers are noted, is at rest.
LEMMA AtRestFollows ==
  ASSUME StoreInv, NEW d, SoundStore(d, 0), Spares(d), d.inits = store.inits,
         \A s \in Segments : Found(d, s) => Found(store, s) /\ s < store.next,
         \A s \in Segments : d.seg[s].gen = store.seg[s].gen
  PROVE  SoundStore(Noted(d, 0), 0) /\ AtRest(Noted(d, 0)) /\ Follows(d, Noted(d, 0))
<1>1. \A s \in Segments : s < store.next /\ Found(store, s) => store.seg[s].gen \in store.inits
  BY DEF StoreInv, AtRest
<1>2. \A s \in Segments : s < d.next /\ Found(d, s) => d.seg[s].gen \in d.inits
  BY <1>1
<1> QED
  BY <1>2, NotedAtRest

\* A write fails: the window stops persisting.
LEMMA WriteFailsKeeps ==
  ASSUME StoreInv, WriteFails
  PROVE  StoreInv'
<1>1. /\ SoundStore(store, 0) /\ store \in StoreType /\ Spares(store) /\ writer \in WriterType
      /\ ListIsSound(store)
  BY InvParts
<1>2. PICK d : d = Degrade(store)
  OBVIOUS
<1>3. /\ SoundStore(d, 0) /\ Follows(store, d) /\ Spares(d) /\ d.degraded = TRUE
      /\ d.inits = store.inits /\ d.lastGen = store.lastGen
  BY <1>1, <1>2, DegradedFollows
<1>4. /\ store' = Noted(d, 0) /\ fresh' = (fresh /\ store.degraded)
      /\ files' \in {files, files \cup {Min(writer.jobs)}}
      /\ writer.at = "writing" /\ diskFaults < MaxDiskFaults /\ diskFaults' = diskFaults + 1
      /\ UNCHANGED <<kicked, reads, gen, shown>>
  BY <1>2 DEF WriteFails, Becomes
<1>5. /\ writer' \in WriterType /\ writer'.at = "unlinking" /\ writer'.jobs = {}
      /\ writer'.hand = writer.hand
  BY <1>1 DEF WriteFails, WriterType
<1>6. \A s \in Segments : Found(d, s) => Found(store, s) /\ s < store.next
  <2>1. \A s \in Segments : Found(store, s) => s < store.next
    BY <1>1, ListedAreSegments DEF Found, Stored, SoundStore, PlaceIsSound
  <2> QED
    BY <1>3, <2>1 DEF Follows
<1>7. SoundStore(store', 0) /\ AtRest(store') /\ Follows(d, store')
  <2>1. \A s \in Segments : d.seg[s].gen = store.seg[s].gen
    BY <1>3 DEF Follows
  <2> QED
    BY <1>3, <1>4, <1>6, <2>1, AtRestFollows
<1>8. Follows(store, store')
  BY <1>3, <1>7, FollowsTwice
<1>9. store'.degraded = TRUE /\ store'.inits = store.inits /\ store'.lastGen = store.lastGen
  BY <1>3, <1>4, NotedFollows
<1>10. Min(writer.jobs) \in Segments
  <2>1. writer.jobs # {} /\ writer.jobs \subseteq Segments
    BY <1>1, <1>4 DEF StoreInv, WriterIsSound, WriterType
  <2> QED
    BY <2>1, LeastOf, SegmentsAreNumbers
<1>11. files \subseteq files' /\ files' \subseteq Segments
  BY <1>4, <1>10 DEF StoreInv, FilesAreSound
<1>12. WriterIsSound'
  BY <1>4, <1>5, <1>8, <1>9 DEF StoreInv, WriterIsSound, Follows
<1>13. store.unlinks \cup writer.hand \subseteq Segments
  BY <1>1 DEF StoreType, WriterType
<1>14. FilesAreSound'
  <2>1. /\ store'.next = store.next /\ store'.removing = store.removing
             /\ store'.unlinks = store.unlinks
        /\ \A s \in Segments :
             /\ store'.seg[s].onDisk = store.seg[s].onDisk
                  /\ store'.seg[s].doomed = store.seg[s].doomed
             /\ store'.seg[s].pending => store.seg[s].pending
    BY <1>8 DEF Follows
  <2> QED
    BY <1>4, <1>5, <1>11, <1>13, <2>1 DEF StoreInv, FilesAreSound
<1>15. GensAreSound'
  <2>1. /\ gen \in 1..MaxGens /\ gen \in store.inits /\ store.lastGen <= gen
             /\ diskFaults \in 0..MaxDiskFaults
        /\ {kicked, fresh} \subseteq BOOLEAN
    BY DEF StoreInv, GensAreSound
  <2>2. {kicked', fresh'} \subseteq BOOLEAN
    BY <1>1, <1>4, <2>1
  <2>3. diskFaults' \in 0..MaxDiskFaults
    BY <1>4, <2>1, BoundsAreNumbers
  <2> QED
    BY <1>4, <1>9, <2>1, <2>2, <2>3 DEF GensAreSound
<1>16. PlaylistIsTrue'
  <2>1. ASSUME fresh'
        PROVE  shown'.list = Listed(store') /\ shown'.gone = Gone(store')
    <3>1. fresh /\ store.degraded
      BY <1>4, <2>1
    <3>2. d = store
      BY <1>2, <3>1 DEF Degrade
    <3>3. /\ store'.low = store.low /\ store'.passed = store.passed
          /\ \A s \in Segments : store'.seg[s].pending = store.seg[s].pending
                                 /\ store'.seg[s].disc = store.seg[s].disc
      BY <1>1, <1>4, <3>2, NotedFollows
    <3>4. store'.next = store.next /\ \A s \in Segments : store'.seg[s].onDisk = store.seg[s].onDisk
      BY <1>8 DEF Follows
    <3>5. Listed(store') = Listed(store) /\ Gone(store') = Gone(store)
      BY <1>1, <3>3, <3>4, ListedSame, GoneSame
    <3> QED
      BY <1>4, <3>1, <3>5 DEF StoreInv, PlaylistIsTrue
  <2> QED
    BY <1>7, <2>1, PlaylistOf
<1>17. DiskIsAccounted'
  <2>1. store'.disk = store.disk /\ store'.removing = store.removing
    BY <1>8 DEF Follows
  <2>2. PICK S : S = {s \in Segments : store.seg[s].onDisk}
    OBVIOUS
  <2>3. S = {s \in Segments : store'.seg[s].onDisk} /\ SizeOf(store', S) = SizeOf(store, S)
    BY <1>8, <2>2, FollowsSizes
  <2>4. ~store'.removing => store'.disk = SizeOf(store', {s \in Segments : store'.seg[s].onDisk})
    BY <2>1, <2>2, <2>3 DEF StoreInv, DiskIsAccounted
  <2>5. \A g \in Gets : reads'[g] # 0 => reads'[g] \in files'
    BY <1>14 DEF FilesAreSound
  <2> QED
    BY <1>9, <2>4, <2>5 DEF DiskIsAccounted
<1> QED
  BY <1>7, <1>12, <1>14, <1>15, <1>16, <1>17 DEF StoreInv
\* The writer passes to its next job when the window takes no more.
LEMMA CommitOfNone ==
  ASSUME StoreInv, CommitJob, store.degraded
  PROVE  StoreInv'
<1>1. /\ UNCHANGED <<store, kicked, fresh, files, reads, gen, shown, diskFaults>>
      /\ writer.at = "committing"
  BY DEF CommitJob
<1> DEFINE s  == Min(writer.jobs)
           js == writer.jobs \ {s}
           a  == IF writer.jobs = {s} THEN "unlinking" ELSE "writing"
<1>2. writer' = [writer EXCEPT !.jobs = js, !.at = a] /\ writer \in WriterType
  BY InvParts DEF CommitJob
<1>3. a \in {"unlinking", "writing"} /\ js \in SUBSET Segments /\ (js # {} <=> a = "writing")
  <2>1. writer.jobs # {} /\ writer.jobs \subseteq Segments
    BY <1>1, <1>2 DEF StoreInv, WriterIsSound, WriterType
  <2>2. s \in writer.jobs
    BY <2>1, LeastOf, SegmentsAreNumbers
  <2> QED
    BY <2>1, <2>2
<1> HIDE DEF a, js
<1>4. /\ writer' \in WriterType /\ writer'.at = a /\ writer'.jobs = js
      /\ writer'.hand = writer.hand
  BY <1>2, <1>3 DEF WriterType
<1>5. SoundStore(store', 0) /\ AtRest(store')
  BY <1>1, InvParts
<1>6. WriterIsSound'
  BY <1>1, <1>3, <1>4 DEF StoreInv, WriterIsSound
<1>7. FilesAreSound'
  BY <1>1, <1>4 DEF StoreInv, FilesAreSound
<1>8. GensAreSound' /\ PlaylistIsTrue'
  BY <1>1 DEF StoreInv, GensAreSound, PlaylistIsTrue
<1>9. DiskIsAccounted'
  BY <1>1 DEF StoreInv, DiskIsAccounted
<1> QED
  BY <1>5, <1>6, <1>7, <1>8, <1>9 DEF StoreInv

\* A job whose segment is in the window puts it there.
LEMMA CommitJobKeeps ==
  ASSUME StoreInv, CommitJob
  PROVE  StoreInv'
<1> SUFFICES ASSUME ~store.degraded PROVE StoreInv'
  BY CommitOfNone
<1> DEFINE s  == Min(writer.jobs)
           js == writer.jobs \ {s}
           a  == IF writer.jobs = {s} THEN "unlinking" ELSE "writing"
<1>1. /\ SoundStore(store, 0) /\ store \in StoreType /\ Spares(store) /\ writer \in WriterType
      /\ ListIsSound(store) /\ \A t \in Segments : store.seg[t] \in SegmentType
           /\ store.seg[t].size \in Nat
  BY InvParts
<1>2. writer.at = "committing" /\ UNCHANGED <<files, reads, gen, shown, diskFaults>>
  BY DEF CommitJob
<1>3. s \in writer.jobs /\ s \in Segments /\ s \in files
  <2>1. writer.jobs # {} /\ writer.jobs \subseteq Segments /\ s \in files
    BY <1>1, <1>2 DEF StoreInv, WriterIsSound, WriterType
  <2> QED
    BY <2>1, LeastOf, SegmentsAreNumbers
<1>4. /\ store.seg[s].pending /\ s \notin store.queue
      /\ store.queue \cap writer.jobs = {}
      /\ \A t \in store.queue \cup writer.jobs : store.seg[t].pending
  BY <1>3 DEF StoreInv, WriterIsSound
<1>5. Found(store, s) /\ s < store.next /\ ~store.seg[s].onDisk
  <2>1. PlaceIsSound(store, s)
    BY <1>1, <1>3 DEF SoundStore
  <2> QED
    BY <1>1, <1>3, <1>4, <2>1, OnDiskIsFound DEF PlaceIsSound
<1>6. Becomes(Commit(store, s), 0) /\ fresh' = FALSE /\ UNCHANGED kicked
  BY <1>5 DEF CommitJob
<1>7. writer' = [writer EXCEPT !.jobs = js, !.at = a]
  BY DEF CommitJob
<1>8. a \in {"unlinking", "writing"} /\ js \in SUBSET Segments /\ (js # {} <=> a = "writing")
      /\ s \notin js /\ js \subseteq writer.jobs
  BY <1>1, <1>3 DEF WriterType
<1> DEFINE x == store.seg[s]
           h == x.held /\ s \in Stored(store)
           y == Lands(x, s \in Stored(store))
           n == store.disk + x.size
           b == [store EXCEPT !.disk = n, !.seg[s] = y]
<1>9. Commit(store, s) = Trim(b)
  BY DEF Commit
<1> HIDE DEF a, js, h
<1>10. y \in SegmentType
  <2>1. y = [x EXCEPT !.pending = FALSE, !.onDisk = TRUE, !.held = h]
    BY DEF Lands, h
  <2> HIDE DEF y
  <2>2. h \in BOOLEAN /\ x \in SegmentType
    BY <1>1, <1>3 DEF h, SegmentType
  <2> HIDE DEF x
  <2>3. [x EXCEPT !.pending = FALSE] \in SegmentType
    BY <2>2 DEF SegmentType
  <2>4. [x EXCEPT !.pending = FALSE, !.onDisk = TRUE] \in SegmentType
    BY <2>3 DEF SegmentType
  <2> QED
    BY <2>1, <2>2, <2>4 DEF SegmentType
<1>11. n \in Int
  BY <1>1, <1>3 DEF StoreType
<1>12. /\ y.gen = x.gen /\ y.size = x.size /\ y.disc = x.disc /\ y.doomed = x.doomed
            /\ y.age = x.age
       /\ y.retired = x.retired /\ y.left = x.left /\ y.kept = x.kept /\ y.ticks = x.ticks
            /\ y.pubs = x.pubs
       /\ ~y.pending /\ y.onDisk /\ (y.held <=> (x.held /\ s \in Stored(store)))
  <2>1. y = [x EXCEPT !.pending = FALSE, !.onDisk = TRUE, !.held = h] /\ x \in SegmentType
    BY <1>1, <1>3 DEF y, h, Lands
  <2> HIDE DEF x, y
  <2>2. /\ y.gen = x.gen /\ y.size = x.size /\ y.disc = x.disc /\ y.doomed = x.doomed
             /\ y.age = x.age
        /\ y.retired = x.retired /\ y.left = x.left /\ y.kept = x.kept /\ y.ticks = x.ticks
             /\ y.pubs = x.pubs
    BY <2>1 DEF SegmentType
  <2>3. y.pending = FALSE /\ y.onDisk = TRUE /\ y.held = h
    BY <2>1 DEF SegmentType
  <2>4. ~y.pending /\ y.onDisk /\ (y.held <=> (x.held /\ s \in Stored(store)))
    BY <2>3 DEF h
  <2> QED
    BY <2>2, <2>4
<1> HIDE DEF y, n
<1>13. /\ b \in StoreType
       /\ b.low = store.low /\ b.next = store.next /\ b.passed = store.passed
       /\ b.window = store.window /\ b.degraded = store.degraded /\ b.forgone = store.forgone
       /\ b.seg[s] = y /\ \A t \in Segments : t # s => b.seg[t] = store.seg[t]
       /\ b.inits = store.inits /\ b.lastGen = store.lastGen /\ b.queue = store.queue
       /\ b.unlinks = store.unlinks /\ b.closed = store.closed /\ b.removing = store.removing
       /\ b.disk = n
  <2>1. PICK segs : segs = [store.seg EXCEPT ![s] = y]
    OBVIOUS
  <2>2. segs \in [Segments -> SegmentType] /\ segs[s] = y /\ \A t \in Segments : t # s
          => segs[t] = store.seg[t]
    BY <1>1, <1>3, <1>10, <2>1 DEF StoreType
  <2>3. b = [store EXCEPT !.disk = n, !.seg = segs]
    BY <2>1
  <2> HIDE DEF b
  <2> QED
    BY <1>1, <1>11, <2>2, <2>3 DEF StoreType
<1> HIDE DEF b
<1>14. /\ SoundStore(b, 0) /\ \A t \in Segments : Found(b, t) => Found(store, t)
       /\ b.seg[s].onDisk /\ ~b.seg[s].pending /\ ~b.seg[s].doomed
       /\ b.seg[s].size = x.size /\ b.seg[s].gen = x.gen
  <2>1. /\ ~b.seg[s].pending /\ b.seg[s].onDisk
        /\ b.seg[s].held <=> (store.seg[s].held /\ s \in Stored(store))
        /\ b.seg[s].gen = store.seg[s].gen /\ b.seg[s].size = store.seg[s].size
        /\ b.seg[s].disc = store.seg[s].disc
        /\ b.seg[s].doomed = store.seg[s].doomed /\ b.seg[s].age = store.seg[s].age
        /\ b.seg[s].retired = store.seg[s].retired /\ b.seg[s].left = store.seg[s].left
        /\ b.seg[s].kept = store.seg[s].kept /\ b.seg[s].ticks = store.seg[s].ticks
        /\ b.seg[s].pubs = store.seg[s].pubs
    BY <1>12, <1>13
  <2> HIDE DEF s
  <2> QED
    BY <1>1, <1>3, <1>4, <1>13, <2>1, CommittedIsSound
<1>15. PICK d : d = Trim(b)
  OBVIOUS
<1>16. /\ SoundStore(d, 0) /\ Follows(b, d) /\ Spares(d)
       /\ d.degraded = store.degraded /\ d.queue = store.queue /\ d.inits = store.inits
       /\ d.lastGen = store.lastGen
       /\ \A t \in Segments : d.seg[t].pending = b.seg[t].pending
  <2>1. 0 \in {0, 1}
    OBVIOUS
  <2> QED
    BY <1>13, <1>14, <1>15, <2>1, TrimFollows
<1>17. store' = Noted(d, 0)
  BY <1>6, <1>9, <1>15 DEF Becomes
<1>18. \A t \in Segments : Found(d, t) => Found(store, t) /\ t < store.next
  <2>1. \A t \in Segments : Found(store, t) => t < store.next
    BY <1>1, ListedAreSegments DEF Found, Stored, SoundStore, PlaceIsSound
  <2> QED
    BY <1>14, <1>16, <2>1 DEF Follows
<1>19. SoundStore(store', 0) /\ AtRest(store') /\ Follows(d, store')
  <2>1. \A t \in Segments : d.seg[t].gen = store.seg[t].gen
    BY <1>13, <1>14, <1>16 DEF Follows
  <2> QED
    BY <1>16, <1>17, <1>18, <2>1, AtRestFollows
<1>20. Follows(b, store')
  BY <1>16, <1>19, FollowsTwice
<1>21. /\ store'.degraded = store.degraded /\ store'.inits = store.inits
            /\ store'.lastGen = store.lastGen
       /\ store'.queue = store.queue
       /\ \A t \in Segments : store'.seg[t].pending = b.seg[t].pending
  BY <1>16, <1>17, NotedFollows
<1>22. /\ store'.next = store.next /\ store'.removing = store.removing
            /\ store'.closed = store.closed
       /\ store'.unlinks = store.unlinks /\ store'.disk = n
       /\ store'.seg[s].onDisk /\ ~store'.seg[s].pending /\ ~store'.seg[s].doomed
       /\ \A t \in Segments : t # s =>
            /\ store'.seg[t].onDisk = store.seg[t].onDisk
                 /\ store'.seg[t].doomed = store.seg[t].doomed
            /\ store'.seg[t].pending = store.seg[t].pending
  <2>1. /\ store'.next = store.next /\ store'.removing = store.removing
             /\ store'.closed = store.closed
        /\ store'.unlinks = store.unlinks /\ store'.disk = n
    BY <1>13, <1>20 DEF Follows
  <2>2. store'.seg[s].onDisk /\ ~store'.seg[s].pending /\ ~store'.seg[s].doomed
    BY <1>3, <1>14, <1>20, <1>21 DEF Follows
  <2>3. ASSUME NEW t \in Segments, t # s
        PROVE  /\ store'.seg[t].onDisk = store.seg[t].onDisk
                 /\ store'.seg[t].doomed = store.seg[t].doomed
               /\ store'.seg[t].pending = store.seg[t].pending
    <3>1. b.seg[t] = store.seg[t]
      BY <1>13, <2>3
    <3> QED
      BY <1>20, <1>21, <3>1 DEF Follows
  <2> QED
    BY <2>1, <2>2, <2>3
<1>23. /\ writer' \in WriterType /\ writer'.at = a /\ writer'.jobs = js
       /\ writer'.hand = writer.hand
  BY <1>1, <1>7, <1>8 DEF WriterType
<1>24. WriterIsSound'
  <2>1. /\ store'.queue \cap writer'.jobs = {}
        /\ \A t \in store'.queue \cup writer'.jobs : store'.seg[t].pending
    <3>1. store.queue \subseteq Segments /\ writer.jobs \subseteq Segments
      BY <1>1 DEF StoreType, WriterType
    <3> QED
      BY <1>4, <1>8, <1>21, <1>22, <1>23, <3>1
  <2>2. store.removing => store.closed /\ \A g \in Gets : reads[g] = 0
    BY DEF StoreInv, WriterIsSound
  <2> QED
    BY <1>2, <1>8, <1>22, <1>23, <2>1, <2>2 DEF WriterIsSound
<1>25. s \notin store.unlinks \cup writer.hand
  BY <1>4 DEF StoreInv, FilesAreSound
<1>26. store.unlinks \cup writer.hand \subseteq Segments /\ files \subseteq Segments
  BY <1>1 DEF StoreType, WriterType, StoreInv, FilesAreSound
<1>27. FilesAreSound'
  <2>1. \A t \in store'.unlinks \cup writer'.hand :
           t < store'.next /\ ~store'.seg[t].onDisk /\ ~store'.seg[t].pending
    BY <1>22, <1>23, <1>25, <1>26 DEF StoreInv, FilesAreSound
  <2>2. ~store'.removing => \A t \in Segments : store'.seg[t].onDisk => t \in files'
    BY <1>2, <1>3, <1>22 DEF StoreInv, FilesAreSound
  <2>3. \A g \in Gets : reads'[g] # 0 =>
          /\ reads'[g] \in files' /\ reads'[g] \notin store'.unlinks \cup writer'.hand
          /\ store'.seg[reads'[g]].onDisk \/ store'.seg[reads'[g]].doomed
    BY <1>2, <1>22, <1>23, <1>26 DEF StoreInv, FilesAreSound
  <2> QED
    BY <1>2, <2>1, <2>2, <2>3 DEF StoreInv, FilesAreSound
<1>28. GensAreSound'
  BY <1>2, <1>6, <1>21 DEF StoreInv, GensAreSound
<1>29. PlaylistIsTrue'
  BY <1>6, <1>19, PlaylistOf
<1>30. DiskIsAccounted'
  <2>1. PICK S : S = {t \in Segments : store.seg[t].onDisk}
    OBVIOUS
  <2>2. /\ {t \in Segments : store'.seg[t].onDisk} = S \cup {s} /\ S \cap {s} = {}
        /\ S \subseteq Segments /\ {s} \subseteq Segments /\ S \cup {s} \subseteq Segments
    BY <1>3, <1>5, <1>22, <2>1
  <2>3. SizeOf(store, S \cup {s}) = SizeOf(store, S) + x.size
    <3>1. SizeOf(store, S \cup {s}) = SizeOf(store, S) + SizeOf(store, {s})
      BY <1>1, <2>2, SizeOfParts
    <3>2. SizeOf(store, {s}) = x.size
      BY <1>1, <1>3, SizeOfOne
    <3> QED
      BY <3>1, <3>2
  <2>4. SizeOf(store', S \cup {s}) = SizeOf(store, S \cup {s})
    <3>1. \A t \in Segments : b.seg[t].size = store.seg[t].size
      BY <1>13, <1>14
    <3>2. \A t \in Segments : store'.seg[t].size = store.seg[t].size
      BY <1>20, <3>1 DEF Follows
    <3> QED
      BY <2>2, <3>2, SizeOfSame
  <2>5. ~store'.removing => store'.disk = SizeOf(store', {t \in Segments : store'.seg[t].onDisk})
    BY <1>22, <2>1, <2>2, <2>3, <2>4 DEF StoreInv, DiskIsAccounted, n
  <2>6. \A g \in Gets : reads'[g] # 0 => reads'[g] \in files'
    BY <1>27 DEF FilesAreSound
  <2>7. ASSUME NEW t \in files', ~store'.removing
        PROVE  \/ store'.seg[t].onDisk /\ Found(store', t)
               \/ t \in store'.unlinks \cup writer'.hand
               \/ store'.seg[t].doomed /\ Pinned(t)' # {}
    <3>1. t \in files /\ t \in Segments
      BY <1>2, <1>26
    <3>2. \/ store.seg[t].onDisk \/ t \in store.unlinks \cup writer.hand \/ t = s
          \/ store.seg[t].doomed /\ Pinned(t) # {}
      BY <1>2, <1>22, <2>7, <3>1 DEF StoreInv, DiskIsAccounted
    <3>3. store'.seg[t].onDisk => Found(store', t)
      BY <1>19, <3>1, OnDiskIsFound
    <3>4. Pinned(t)' = Pinned(t)
      BY <1>2 DEF Pinned
    <3>5. CASE t = s
      BY <1>22, <3>3, <3>5
    <3>6. CASE t # s
      <4>1. store'.seg[t].onDisk = store.seg[t].onDisk /\ store'.seg[t].doomed = store.seg[t].doomed
        BY <1>22, <3>1, <3>6
      <4> QED
        BY <1>22, <1>23, <3>2, <3>3, <3>4, <3>6, <4>1
    <3> QED
      BY <3>5, <3>6
  <2> QED
    BY <2>5, <2>6, <2>7 DEF DiskIsAccounted
<1> QED
  BY <1>19, <1>24, <1>27, <1>28, <1>29, <1>30 DEF StoreInv
\* A victim that is still one leaves, and its file is handed over to the writer, or
\* to the last read of it.
LEMMA EvictKeeps ==
  ASSUME StoreInv, Evict
  PROVE  StoreInv'
<1> DEFINE s     == writer.victim
           still == IF writer.fromList THEN s = store.low
             /\ s \in Below(store) ELSE store.seg[s].retired
           H     == IF still /\ Pinned(s) = {} THEN {s} ELSE {}
<1>1. /\ SoundStore(store, 0) /\ AtRest(store) /\ store \in StoreType /\ Spares(store)
           /\ writer \in WriterType
      /\ ListIsSound(store) /\ \A t \in Segments : store.seg[t] \in SegmentType
           /\ store.seg[t].size \in Nat
  BY InvParts
<1>2. /\ writer.at = "evicting" /\ UNCHANGED <<kicked, files, reads, gen, shown, diskFaults>>
      /\ IF still THEN Becomes(Taken(store, s), 0) /\ fresh' = FALSE ELSE UNCHANGED <<store, fresh>>
      /\ writer' = [Resting EXCEPT !.at = "unlinking", !.hand = H]
  BY DEF Evict
<1>3. s \in Segments /\ store.seg[s].onDisk
  BY <1>2 DEF StoreInv, WriterIsSound
<1>4. H \in SUBSET Segments
  BY <1>3
<1>5. /\ writer' \in WriterType /\ writer'.at = "unlinking" /\ writer'.jobs = {}
      /\ writer'.hand = H
  <2> HIDE DEF H, still
  <2> QED
    BY <1>2, <1>4 DEF WriterType, Resting
<1>6. writer.hand = {} /\ writer.jobs = {}
  BY <1>2 DEF StoreInv, WriterIsSound
<1>7. CASE ~still
  <2>1. UNCHANGED <<store, fresh>> /\ H = {}
    BY <1>2, <1>7
  <2> HIDE DEF H, still
  <2>2. SoundStore(store', 0) /\ AtRest(store')
    BY <1>1, <2>1
  <2>3. WriterIsSound'
    BY <1>2, <1>5, <1>6, <2>1 DEF StoreInv, WriterIsSound
  <2>4. FilesAreSound'
    BY <1>2, <1>5, <1>6, <2>1 DEF StoreInv, FilesAreSound
  <2>5. GensAreSound' /\ PlaylistIsTrue'
    BY <1>2, <2>1 DEF StoreInv, GensAreSound, PlaylistIsTrue
  <2>6. DiskIsAccounted'
    BY <1>2, <1>5, <1>6, <2>1 DEF StoreInv, DiskIsAccounted, Pinned
  <2> QED
    BY <2>2, <2>3, <2>4, <2>5, <2>6 DEF StoreInv
<1>8. CASE still
  <2>1. PICK b : b = Taken(store, s)
    OBVIOUS
  <2>2. store.seg[s].retired \/ (s = store.low /\ s \in Below(store))
    BY <1>8
  <2>3. store' = Noted(b, 0) /\ fresh' = FALSE
    BY <1>2, <1>8, <2>1 DEF Becomes
  <2>4. H = IF Pinned(s) = {} THEN {s} ELSE {}
    BY <1>8
  <2> HIDE DEF still, H, s
  <2>5. /\ SoundStore(b, 0) /\ Spares(b) /\ \A t \in Segments : Found(b, t) => Found(store, t)
        /\ b.next = store.next /\ b.lastGen = store.lastGen /\ b.inits = store.inits
        /\ b.window = store.window /\ b.queue = store.queue /\ b.unlinks = store.unlinks
        /\ b.disk = store.disk - store.seg[s].size
        /\ b.degraded = store.degraded /\ b.closed = store.closed /\ b.removing = store.removing
        /\ \A t \in Segments : t # s => b.seg[t] = store.seg[t]
        /\ ~b.seg[s].onDisk /\ ~b.seg[s].pending /\ (b.seg[s].doomed <=> Pinned(s) # {})
        /\ b.seg[s].size = store.seg[s].size /\ b.seg[s].gen = store.seg[s].gen /\ s < store.next
    BY <1>1, <1>3, <2>1, <2>2, TakenIsSound
  <2>6. \A t \in Segments : Found(b, t) => Found(store, t) /\ t < store.next
    <3>1. \A t \in Segments : Found(store, t) => t < store.next
      BY <1>1, ListedAreSegments DEF Found, Stored, SoundStore, PlaceIsSound
    <3> QED
      BY <2>5, <3>1
  <2>7. SoundStore(store', 0) /\ AtRest(store') /\ Follows(b, store')
    <3>1. \A t \in Segments : b.seg[t].gen = store.seg[t].gen
      BY <2>5
    <3> QED
      BY <2>3, <2>5, <2>6, <3>1, AtRestFollows
  <2>8. /\ store'.degraded = store.degraded /\ store'.inits = store.inits
             /\ store'.lastGen = store.lastGen
        /\ store'.queue = store.queue
        /\ \A t \in Segments : store'.seg[t].pending = b.seg[t].pending
    BY <2>3, <2>5, NotedFollows
  <2>9. /\ store'.next = store.next /\ store'.removing = store.removing
             /\ store'.closed = store.closed
        /\ store'.unlinks = store.unlinks /\ store'.disk = store.disk - store.seg[s].size
        /\ ~store'.seg[s].onDisk /\ ~store'.seg[s].pending
             /\ (store'.seg[s].doomed <=> Pinned(s) # {})
    BY <1>3, <2>5, <2>7, <2>8 DEF Follows
  <2>10. \A t \in Segments : t # s =>
            /\ store'.seg[t].onDisk = store.seg[t].onDisk
                 /\ store'.seg[t].doomed = store.seg[t].doomed
            /\ store'.seg[t].pending = store.seg[t].pending
    BY <2>5, <2>7, <2>8 DEF Follows
  <2>11. ~store.seg[s].pending
    BY <1>1, <1>3 DEF SoundStore, PlaceIsSound
  <2>12. store.queue \cup store.unlinks \subseteq Segments /\ files \subseteq Segments
    BY <1>1 DEF StoreType, StoreInv, FilesAreSound
  <2>13. WriterIsSound'
    <3>1. ~store'.degraded =>
            /\ store'.queue \cap writer'.jobs = {}
            /\ \A t \in store'.queue \cup writer'.jobs : store'.seg[t].pending
      <4>1. ASSUME ~store.degraded, NEW t \in store.queue
            PROVE  store'.seg[t].pending
        <5>1. store.seg[t].pending /\ t \in Segments
          BY <2>12, <4>1 DEF StoreInv, WriterIsSound
        <5> QED
          BY <2>10, <2>11, <5>1
      <4> QED
        BY <1>5, <2>8, <4>1
    <3>2. store.removing => store.closed /\ \A g \in Gets : reads[g] = 0
      BY DEF StoreInv, WriterIsSound
    <3> QED
      BY <1>2, <1>5, <2>9, <3>1, <3>2 DEF WriterIsSound
  <2>14. FilesAreSound'
    <3>1. ASSUME NEW t \in store'.unlinks \cup writer'.hand
          PROVE  t < store'.next /\ ~store'.seg[t].onDisk /\ ~store'.seg[t].pending
      <4>1. CASE t = s
        BY <2>5, <2>9, <4>1
      <4>2. CASE t # s
        <5>1. t \in store.unlinks /\ t \in Segments
          BY <1>5, <2>4, <2>9, <2>12, <3>1, <4>2
        <5>2. t < store.next /\ ~store.seg[t].onDisk /\ ~store.seg[t].pending
          BY <5>1 DEF StoreInv, FilesAreSound
        <5> QED
          BY <2>9, <2>10, <4>2, <5>1, <5>2
      <4> QED
        BY <4>1, <4>2
    <3>2. ~store'.removing => \A t \in Segments : store'.seg[t].onDisk => t \in files'
      BY <1>2, <2>9, <2>10 DEF StoreInv, FilesAreSound
    <3>3. ASSUME NEW g \in Gets, reads'[g] # 0
          PROVE  /\ reads'[g] \in files' /\ reads'[g] \notin store'.unlinks \cup writer'.hand
                 /\ store'.seg[reads'[g]].onDisk \/ store'.seg[reads'[g]].doomed
      <4>1. /\ reads[g] # 0 /\ reads[g] \in files /\ reads[g] \notin store.unlinks
            /\ store.seg[reads[g]].onDisk \/ store.seg[reads[g]].doomed
        BY <1>2, <3>3 DEF StoreInv, FilesAreSound
      <4>2. CASE reads[g] = s
        <5>1. Pinned(s) # {}
          BY <4>2 DEF Pinned
        <5> QED
          BY <1>2, <1>5, <2>4, <2>9, <4>1, <4>2, <5>1
      <4>3. CASE reads[g] # s
        BY <1>2, <1>5, <2>4, <2>9, <2>10, <2>12, <4>1, <4>3
      <4> QED
        BY <4>2, <4>3
    <3> QED
      BY <1>2, <3>1, <3>2, <3>3 DEF StoreInv, FilesAreSound
  <2>15. GensAreSound'
    BY <1>2, <2>3, <2>8 DEF StoreInv, GensAreSound
  <2>16. PlaylistIsTrue'
    BY <2>3, <2>7, PlaylistOf
  <2>17. DiskIsAccounted'
    <3>1. PICK S : S = {t \in Segments : store'.seg[t].onDisk}
      OBVIOUS
    <3>2. /\ {t \in Segments : store.seg[t].onDisk} = S \cup {s} /\ S \cap {s} = {}
          /\ S \subseteq Segments /\ {s} \subseteq Segments
      BY <1>3, <2>9, <2>10, <3>1
    <3>3. SizeOf(store, S \cup {s}) = SizeOf(store, S) + SizeOf(store, {s})
            /\ SizeOf(store, S) \in Nat
      BY <1>1, <3>2, SizeOfParts
    <3>4. SizeOf(store, {s}) = store.seg[s].size /\ store.seg[s].size \in Nat
      BY <1>1, <1>3, SizeOfOne
    <3>5. SizeOf(store', S) = SizeOf(store, S)
      <4>1. \A t \in Segments : store'.seg[t].size = store.seg[t].size
        BY <2>5, <2>7 DEF Follows
      <4> QED
        BY <3>2, <4>1, SizeOfSame
    <3>6. ~store'.removing => store'.disk = SizeOf(store', {t \in Segments : store'.seg[t].onDisk})
      <4>1. ~store.removing => store.disk = SizeOf(store, S \cup {s})
        BY <3>2 DEF StoreInv, DiskIsAccounted
      <4>2. ~store'.removing => store'.disk = SizeOf(store', S)
        BY <2>9, <3>3, <3>4, <3>5, <4>1
      <4> QED
        BY <3>1, <4>2
    <3>7. \A g \in Gets : reads'[g] # 0 => reads'[g] \in files'
      BY <2>14 DEF FilesAreSound
    <3>8. ASSUME NEW t \in files', ~store'.removing, ~store'.degraded
          PROVE  \/ store'.seg[t].onDisk /\ Found(store', t)
                 \/ t \in store'.unlinks \cup writer'.hand
                 \/ store'.seg[t].doomed /\ Pinned(t)' # {}
      <4>1. t \in files /\ t \in Segments
        BY <1>2, <2>12
      <4>2. Pinned(t)' = Pinned(t)
        BY <1>2 DEF Pinned
      <4>3. CASE t = s
        BY <1>5, <2>4, <2>9, <4>2, <4>3
      <4>4. CASE t # s
        <5>1. \/ store.seg[t].onDisk \/ t \in store.unlinks
              \/ store.seg[t].doomed /\ Pinned(t) # {}
          BY <1>2, <1>6, <2>8, <2>9, <3>8, <4>1 DEF StoreInv, DiskIsAccounted
        <5>2. store'.seg[t].onDisk => Found(store', t)
          BY <2>7, <4>1, OnDiskIsFound
        <5> QED
          BY <2>9, <2>10, <4>1, <4>2, <4>4, <5>1, <5>2
      <4> QED
        BY <4>3, <4>4
    <3> QED
      BY <3>6, <3>7, <3>8 DEF DiskIsAccounted
  <2> QED
    BY <2>7, <2>13, <2>14, <2>15, <2>16, <2>17 DEF StoreInv
<1> QED
  BY <1>7, <1>8
\* The writer takes what is queued, and what it is to unlink; the retired segments
\* whose retention has passed and which nobody reads leave the window.
LEMMA CollectKeeps ==
  ASSUME StoreInv, Collect
  PROVE  StoreInv'
<1> DEFINE old    == ExpiredOf(store)
           onDisk == {s \in old : store.seg[s].onDisk}
           ends   == store.closed /\ \A g \in Gets : reads[g] = 0
           queue  == store.queue \ old
           jobs   == IF store.degraded \/ ends THEN {} ELSE queue
           segs   == [s \in Segments |-> IF s \in old THEN Drops(store.seg[s]) ELSE store.seg[s]]
           n      == store.disk - SizeOf(store, onDisk)
           Q      == IF ends \/ store.degraded THEN queue ELSE {}
           m      == [store EXCEPT !.seg = segs, !.disk = n, !.unlinks = {}, !.queue = Q, !.removing = ends]
           A      == IF jobs # {} THEN "writing" ELSE "unlinking"
           H      == onDisk \cup store.unlinks
<1>1. /\ SoundStore(store, 0) /\ AtRest(store) /\ store \in StoreType /\ writer \in WriterType
      /\ ListIsSound(store) /\ \A t \in Segments : store.seg[t] \in SegmentType
           /\ store.seg[t].size \in Nat
  BY InvParts
<1>2. /\ writer.at = "idle" /\ kicked' = FALSE /\ UNCHANGED <<files, reads, gen, shown, diskFaults>>
      /\ fresh' = (fresh /\ old = {})
  BY DEF Collect
<1>3. store' = Noted(m, 0)
  BY DEF Collect, Becomes
<1>4. writer' = IF ends THEN [Resting EXCEPT !.at = "removing"]
                ELSE [Resting EXCEPT !.at = A, !.jobs = jobs, !.hand = H]
  BY DEF Collect
<1>5. old \subseteq Segments /\ \A s \in old : store.seg[s].retired
        /\ store.seg[s].age >= Unlisted /\ Pinned(s) = {}
  BY DEF ExpiredOf
<1>6. /\ onDisk \subseteq old /\ \A s \in old : s \in onDisk <=> store.seg[s].onDisk
      /\ onDisk \subseteq Segments
  BY <1>5
<1>7. /\ queue \subseteq store.queue /\ queue \cap old = {} /\ jobs \subseteq queue
           /\ Q \subseteq queue
      /\ jobs \cap Q = {}
  OBVIOUS
<1>8. ends \in BOOLEAN /\ (ends <=> store.closed /\ \A g \in Gets : reads[g] = 0)
  BY <1>1 DEF StoreType
<1>9. ends => jobs = {}
  OBVIOUS
<1>10. (jobs # {} => A = "writing") /\ (jobs = {} => A = "unlinking")
         /\ A \in {"writing", "unlinking"}
  OBVIOUS
<1>11. /\ segs \in [Segments -> SegmentType]
       /\ \A s \in Segments \ old : segs[s] = store.seg[s]
       /\ \A s \in old : segs[s] = Drops(store.seg[s])
  <2> HIDE DEF old
  <2> QED
    BY <1>1, <1>5, DroppedSegment
<1>12. store.queue \subseteq Segments /\ store.unlinks \subseteq Segments /\ store.disk \in Int
  BY <1>1 DEF StoreType
<1>13. n \in Int
  <2>1. {} \subseteq Segments /\ onDisk \cap {} = {}
    OBVIOUS
  <2>2. SizeOf(store, onDisk) \in Nat
    BY <1>1, <1>6, <2>1, SizeOfParts
  <2> QED
    BY <1>12, <2>2
<1> HIDE DEF old, onDisk, queue, segs, n, Q, jobs, A
<1>14. /\ m \in StoreType /\ m.low = store.low /\ m.next = store.next /\ m.passed = store.passed
       /\ m.window = store.window /\ m.degraded = store.degraded /\ m.forgone = store.forgone
       /\ m.inits = store.inits /\ m.lastGen = store.lastGen /\ m.closed = store.closed
       /\ m.seg = segs /\ m.disk = n /\ m.unlinks = {} /\ m.queue = Q /\ m.removing = ends
  <2>1. Q \in SUBSET Segments
    BY <1>7, <1>12
  <2> HIDE DEF ends
  <2> QED
    BY <1>1, <1>8, <1>11, <1>13, <2>1 DEF StoreType
<1> HIDE DEF m
<1>15. /\ SoundStore(m, 0) /\ Spares(m) /\ \A s \in Segments : Found(m, s) => Found(store, s)
  <2>1. \A s \in old : store.seg[s].retired /\ store.seg[s].age >= Unlisted
    BY <1>5
  <2>2. old \subseteq Segments
    BY <1>5
  <2>3. /\ \A s \in Segments \ old : m.seg[s] = store.seg[s]
        /\ \A s \in old : m.seg[s] = Drops(store.seg[s])
    BY <1>11, <1>14
  <2>4. SoundStore(store, 0) /\ AtRest(store)
    BY <1>1
  <2>5. /\ m \in StoreType /\ m.low = store.low /\ m.next = store.next /\ m.passed = store.passed
        /\ m.window = store.window /\ m.degraded = store.degraded /\ m.forgone = store.forgone
    BY <1>14
  <2> HIDE DEF ends, H
  <2> QED
    BY <2>1, <2>2, <2>3, <2>4, <2>5, DroppedIsSound
<1>16. /\ \A s \in Segments \ old : m.seg[s] = store.seg[s]
       /\ \A s \in Segments : m.seg[s].gen = store.seg[s].gen /\ m.seg[s].size = store.seg[s].size
                              /\ m.seg[s].doomed = store.seg[s].doomed
       /\ \A s \in old : ~m.seg[s].onDisk /\ ~m.seg[s].pending
  BY <1>1, <1>5, <1>11, <1>14, DroppedSegment
<1>17. \A t \in Segments : Found(m, t) => Found(store, t) /\ t < store.next
  <2>1. \A t \in Segments : Found(store, t) => t < store.next
    BY <1>1, ListedAreSegments DEF Found, Stored, SoundStore, PlaceIsSound
  <2> QED
    BY <1>15, <2>1
<1>18. SoundStore(store', 0) /\ AtRest(store') /\ Follows(m, store')
  BY <1>3, <1>14, <1>15, <1>16, <1>17, AtRestFollows
<1>19. /\ store'.degraded = store.degraded /\ store'.inits = store.inits
            /\ store'.lastGen = store.lastGen
       /\ store'.queue = Q /\ store'.low = store.low /\ store'.passed = store.passed
       /\ \A s \in Segments : store'.seg[s].pending = m.seg[s].pending
                                /\ store'.seg[s].disc = m.seg[s].disc
  BY <1>3, <1>14, <1>15, NotedFollows
<1>20. /\ store'.next = store.next /\ store'.removing = ends /\ store'.closed = store.closed
       /\ store'.unlinks = {} /\ store'.disk = n
  BY <1>14, <1>18 DEF Follows
<1>21. /\ \A s \in old : ~store'.seg[s].onDisk /\ ~store'.seg[s].pending
       /\ \A s \in Segments \ old : store'.seg[s].onDisk = store.seg[s].onDisk
                                    /\ store'.seg[s].pending = store.seg[s].pending
       /\ \A s \in Segments : store'.seg[s].doomed = store.seg[s].doomed
                              /\ store'.seg[s].size = store.seg[s].size
  BY <1>5, <1>16, <1>18, <1>19 DEF Follows
<1>22. store.removing => ends
  BY <1>8 DEF StoreInv, WriterIsSound
<1>23. writer.hand = {} /\ writer.jobs = {}
  BY <1>2 DEF StoreInv, WriterIsSound
<1>24. /\ writer' \in WriterType
       /\ ends => writer'.at = "removing" /\ writer'.hand = {}
       /\ ~ends => writer'.at = A /\ writer'.hand = H
       /\ writer'.jobs = jobs
  <2>1. H \in SUBSET Segments /\ jobs \in SUBSET Segments
    BY <1>6, <1>7, <1>12
  <2> HIDE DEF ends, H
  <2>2. CASE ends
    <3>1. writer' = [Resting EXCEPT !.at = "removing"]
      BY <1>4, <2>2
    <3> QED
      BY <1>9, <2>2, <3>1 DEF WriterType, Resting
  <2>3. CASE ~ends
    <3>1. writer' = [Resting EXCEPT !.at = A, !.jobs = jobs, !.hand = H]
      BY <1>4, <2>3
    <3> QED
      BY <1>10, <2>1, <2>3, <3>1 DEF WriterType, Resting
  <2> QED
    BY <2>2, <2>3
<1>25. WriterIsSound'
  <2>1. ~store'.degraded =>
          /\ store'.queue \cap writer'.jobs = {}
          /\ \A t \in store'.queue \cup writer'.jobs : store'.seg[t].pending
    <3>1. ASSUME ~store.degraded, NEW t \in queue
          PROVE  store'.seg[t].pending
      <4>1. t \in store.queue /\ t \notin old /\ t \in Segments
        BY <1>7, <1>12
      <4>2. store.seg[t].pending
        BY <3>1, <4>1 DEF StoreInv, WriterIsSound
      <4> QED
        BY <1>21, <4>1, <4>2
    <3> QED
      BY <1>7, <1>19, <1>24, <3>1
  <2>2. store'.removing => store'.closed /\ \A g \in Gets : reads'[g] = 0
    BY <1>2, <1>8, <1>20
  <2>3. writer'.jobs # {} <=> writer'.at \in {"writing", "committing"}
    <3> HIDE DEF ends
    <3> QED
      BY <1>9, <1>10, <1>24
  <2>4. writer'.hand # {} => writer'.at \in {"writing", "committing", "unlinking"}
    <3> HIDE DEF ends, H
    <3> QED
      BY <1>10, <1>24
  <2>5. /\ writer'.at = "committing" => Min(writer'.jobs) \in files'
        /\ writer'.at = "evicting" => writer'.victim \in Segments
             /\ store'.seg[writer'.victim].onDisk
        /\ writer'.at = "removing" => store'.removing
    <3> HIDE DEF ends, H
    <3> QED
      BY <1>10, <1>20, <1>24
  <2> QED
    BY <1>24, <2>1, <2>2, <2>3, <2>4, <2>5 DEF WriterIsSound
<1> HIDE DEF ends
<1>26. writer'.hand \subseteq onDisk \cup store.unlinks
         /\ (~ends => writer'.hand = onDisk \cup store.unlinks)
  BY <1>24
<1>27. FilesAreSound'
  <2>1. ASSUME NEW t \in store'.unlinks \cup writer'.hand
        PROVE  t < store'.next /\ ~store'.seg[t].onDisk /\ ~store'.seg[t].pending
    <3>1. t \in onDisk \/ t \in store.unlinks
      BY <1>20, <1>26
    <3>2. CASE t \in onDisk
      <4>1. t \in old /\ t \in Segments /\ store.seg[t].retired
        BY <1>5, <1>6, <3>2
      <4> QED
        BY <1>1, <1>20, <1>21, <4>1, RetiredHasLeft
    <3>3. CASE t \in store.unlinks
      <4>1. t < store.next /\ ~store.seg[t].onDisk /\ ~store.seg[t].pending /\ t \in Segments
        BY <1>12, <3>3 DEF StoreInv, FilesAreSound
      <4> QED
        BY <1>20, <1>21, <4>1
    <3> QED
      BY <3>1, <3>2, <3>3
  <2>2. ~store'.removing => \A t \in Segments : store'.seg[t].onDisk => t \in files'
    BY <1>2, <1>20, <1>21, <1>22 DEF StoreInv, FilesAreSound
  <2>3. ASSUME NEW g \in Gets, reads'[g] # 0
        PROVE  /\ reads'[g] \in files' /\ reads'[g] \notin store'.unlinks \cup writer'.hand
               /\ store'.seg[reads'[g]].onDisk \/ store'.seg[reads'[g]].doomed
    <3>1. PICK t : t = reads[g]
      OBVIOUS
    <3>2. /\ t \in files /\ t \notin store.unlinks /\ t \in Segments
          /\ store.seg[t].onDisk \/ store.seg[t].doomed
      BY <1>2, <2>3, <3>1 DEF StoreInv, FilesAreSound
    <3>3. t \notin old
      BY <1>5, <3>1 DEF Pinned
    <3>4. t \notin onDisk
      BY <1>6, <3>3
    <3> QED
      BY <1>2, <1>20, <1>21, <1>26, <3>1, <3>2, <3>3, <3>4
  <2> QED
    BY <1>2, <2>1, <2>2, <2>3 DEF StoreInv, FilesAreSound
<1>28. GensAreSound'
  <2>1. /\ gen \in 1..MaxGens /\ gen \in store.inits /\ store.lastGen <= gen
             /\ diskFaults \in 0..MaxDiskFaults
    BY DEF StoreInv, GensAreSound
  <2>2. {kicked', fresh'} \subseteq BOOLEAN
    BY <1>2 DEF StoreInv, GensAreSound
  <2> QED
    BY <1>2, <1>19, <2>1, <2>2 DEF GensAreSound
<1>29. PlaylistIsTrue'
  <2>1. ASSUME fresh'
        PROVE  shown'.list = Listed(store') /\ shown'.gone = Gone(store')
    <3>1. fresh /\ old = {}
      BY <1>2, <2>1
    <3>2. \A s \in Segments : /\ store'.seg[s].onDisk = store.seg[s].onDisk
                              /\ store'.seg[s].pending = store.seg[s].pending
                              /\ store'.seg[s].disc = store.seg[s].disc
      BY <1>16, <1>19, <1>21, <3>1
    <3>3. Listed(store') = Listed(store) /\ Gone(store') = Gone(store)
      BY <1>1, <1>19, <1>20, <3>2, ListedSame, GoneSame
    <3> QED
      BY <1>2, <3>1, <3>3 DEF StoreInv, PlaylistIsTrue
  <2> QED
    BY <1>18, <2>1, PlaylistOf
<1>30. DiskIsAccounted'
  <2>1. PICK S : S = {t \in Segments : store'.seg[t].onDisk}
    OBVIOUS
  <2>2. /\ {t \in Segments : store.seg[t].onDisk} = S \cup onDisk /\ S \cap onDisk = {}
        /\ S \subseteq Segments
    <3>1. \A t \in Segments : store.seg[t].onDisk <=> store'.seg[t].onDisk \/ t \in onDisk
      BY <1>6, <1>21
    <3>2. \A t \in onDisk : ~store'.seg[t].onDisk
      BY <1>6, <1>21
    <3> QED
      BY <1>6, <2>1, <3>1, <3>2
  <2>3. SizeOf(store, S \cup onDisk) = SizeOf(store, S) + SizeOf(store, onDisk)
          /\ SizeOf(store, S) \in Nat
    BY <1>1, <1>6, <2>2, SizeOfParts
  <2>4. SizeOf(store, onDisk) \in Nat
    <3>1. {} \subseteq Segments /\ onDisk \cap {} = {}
      OBVIOUS
    <3> QED
      BY <1>1, <1>6, <3>1, SizeOfParts
  <2>5. SizeOf(store', S) = SizeOf(store, S)
    BY <1>21, <2>2, SizeOfSame
  <2>6. ~store.removing => store.disk = SizeOf(store, S \cup onDisk)
    BY <2>2 DEF StoreInv, DiskIsAccounted
  <2>7. ~store'.removing => store'.disk = SizeOf(store', S)
    BY <1>20, <1>22, <2>3, <2>4, <2>5, <2>6 DEF n
  <2>8. \A g \in Gets : reads'[g] # 0 => reads'[g] \in files'
    BY <1>27 DEF FilesAreSound
  <2>9. ASSUME NEW t \in files', ~store'.removing, ~store'.degraded
        PROVE  \/ store'.seg[t].onDisk /\ Found(store', t)
               \/ t \in store'.unlinks \cup writer'.hand
               \/ store'.seg[t].doomed /\ Pinned(t)' # {}
    <3>1. t \in files /\ t \in Segments /\ ~ends /\ ~store.removing /\ ~store.degraded
      BY <1>2, <1>19, <1>20, <1>22, <2>9 DEF StoreInv, FilesAreSound
    <3>2. Pinned(t)' = Pinned(t)
      BY <1>2 DEF Pinned
    <3>3. \/ store.seg[t].onDisk \/ t \in store.unlinks
          \/ store.seg[t].doomed /\ Pinned(t) # {}
      BY <1>2, <1>23, <3>1 DEF StoreInv, DiskIsAccounted
    <3>4. store'.seg[t].onDisk => Found(store', t)
      BY <1>18, <3>1, OnDiskIsFound
    <3>5. store.seg[t].onDisk => t \in onDisk \/ store'.seg[t].onDisk
      BY <1>6, <1>21, <3>1
    <3> QED
      BY <1>21, <1>26, <3>1, <3>2, <3>3, <3>4, <3>5
  <2> QED
    BY <2>1, <2>7, <2>8, <2>9 DEF DiskIsAccounted
<1> QED
  BY <1>18, <1>25, <1>27, <1>28, <1>29, <1>30 DEF StoreInv
\* What a segment that joins the list leaves of the store.
Joins(q) ==
  /\ q.next = store.next + 1 /\ q.removing = store.removing /\ q.closed = store.closed
  /\ q.unlinks = store.unlinks /\ q.disk = store.disk
  /\ q.inits = store.inits /\ q.lastGen = gen
  /\ \A t \in Segments : t # store.next =>
       /\ q.seg[t].onDisk = store.seg[t].onDisk /\ q.seg[t].doomed = store.seg[t].doomed
       /\ q.seg[t].size = store.seg[t].size /\ q.seg[t].gen = store.seg[t].gen
       /\ q.seg[t].pending => store.seg[t].pending
  /\ ~q.seg[store.next].onDisk /\ ~q.seg[store.next].doomed /\ q.seg[store.next].gen = gen
  /\ \A t \in Segments : Found(q, t) => t = store.next \/ (t < store.next /\ Found(store, t))
  /\ ~q.degraded =>
       /\ ~store.degraded /\ q.queue \subseteq store.queue \cup {store.next}
       /\ \A t \in Segments : t # store.next /\ store.seg[t].pending => q.seg[t].pending
       /\ store.next \in q.queue /\ store.next \notin store.queue => q.seg[store.next].pending

\* The segment as it joins the list, before anything is trimmed: on its way to the
\* disk, in memory alone, or in a window that has just degraded.
LEMMA QueuedIsSound ==
  ASSUME StoreInv, NEW z \in Sizes, store.next \in Segments
  PROVE  SoundStore(Queued(z), 1) /\ Joins(Queued(z))
<1> DEFINE s      == store.next
           c      == s > 1 /\ gen # store.lastGen
           new    == [Unborn EXCEPT !.gen = gen, !.size = z, !.held = TRUE, !.disc = c]
           segs   == [store.seg EXCEPT ![s] = new]
           added  == [store EXCEPT !.next = s + 1, !.lastGen = gen, !.seg[s] = new]
           wnew   == [new EXCEPT !.pending = TRUE]
           wsegs  == [store.seg EXCEPT ![s] = wnew]
           Q      == store.queue \cup {s}
           put    == [added EXCEPT !.seg[s].pending = TRUE, !.queue = @ \cup {s}]
           q      == Queued(z)
<1>1. /\ SoundStore(store, 0) /\ store \in StoreType /\ s \in Segments /\ s \in Nat
      /\ gen \in Nat /\ z \in Nat /\ c \in BOOLEAN
  BY InvParts, BoundsAreNumbers
<1>2. /\ ~Queues => q = added
      /\ Queues /\ Full => q = Degrade(added)
      /\ Queues /\ ~Full => q = put
  BY DEF Queued
<1>3. /\ new \in SegmentType /\ new.gen = gen /\ new.size = z /\ new.held /\ ~new.onDisk
           /\ ~new.pending
      /\ ~new.retired /\ ~new.doomed /\ ~new.left
  <2> HIDE DEF c
  <2> QED
    BY <1>1 DEF Unborn, SegmentType
<1> HIDE DEF new
<1>4. /\ wnew \in SegmentType /\ wnew.gen = gen /\ wnew.size = z /\ wnew.held /\ ~wnew.onDisk
           /\ wnew.pending
      /\ ~wnew.retired /\ ~wnew.doomed /\ ~wnew.left
  BY <1>3 DEF SegmentType
<1> HIDE DEF wnew
<1>5. /\ segs \in [Segments -> SegmentType] /\ segs[s] = new /\ \A t \in Segments : t # s
           => segs[t] = store.seg[t]
      /\ wsegs \in [Segments -> SegmentType] /\ wsegs[s] = wnew
      /\ \A t \in Segments : t # s => wsegs[t] = store.seg[t]
  BY <1>1, <1>3, <1>4 DEF StoreType
<1>6. added = [store EXCEPT !.next = s + 1, !.lastGen = gen, !.seg = segs]
  BY <1>1 DEF StoreType
<1>7. put = [store EXCEPT !.next = s + 1, !.lastGen = gen, !.seg = wsegs, !.queue = Q]
  <2>1. [segs EXCEPT ![s].pending = TRUE] = wsegs
    <3>1. [segs EXCEPT ![s].pending = TRUE] = [segs EXCEPT ![s] = [segs[s] EXCEPT !.pending = TRUE]]
      OBVIOUS
    <3>2. [segs EXCEPT ![s].pending = TRUE] = [segs EXCEPT ![s] = wnew]
      BY <1>5, <3>1 DEF wnew
    <3>3. [segs EXCEPT ![s] = wnew] = [store.seg EXCEPT ![s] = wnew]
      OBVIOUS
    <3> QED
      BY <3>2, <3>3
  <2>2. put = [added EXCEPT !.seg = [segs EXCEPT ![s].pending = TRUE], !.queue = Q]
    <3> HIDE DEF segs
    <3>1. added.seg = segs /\ added.queue = store.queue
      BY <1>1, <1>6 DEF StoreType
    <3> HIDE DEF added
    <3> QED
      BY <3>1
  <2> HIDE DEF segs, wsegs, put, Q
  <2> QED
    BY <1>1, <1>6, <2>1, <2>2 DEF StoreType
<1> HIDE DEF segs, wsegs, Q
<1>8. Q \in SUBSET Segments
  BY <1>1 DEF StoreType, Q
<1>9. /\ added \in StoreType /\ added.next = s + 1 /\ added.lastGen = gen /\ added.seg = segs
      /\ added.low = store.low /\ added.passed = store.passed /\ added.window = store.window
      /\ added.degraded = store.degraded /\ added.forgone = store.forgone
           /\ added.inits = store.inits
      /\ added.queue = store.queue /\ added.unlinks = store.unlinks /\ added.disk = store.disk
      /\ added.closed = store.closed /\ added.removing = store.removing
  <2> HIDE DEF added, new, s
  <2>1. s + 1 \in Nat
    BY <1>1
  <2>2. PICK m \in Nat : m = s + 1
    BY <2>1
  <2>3. [store EXCEPT !.next = m, !.lastGen = gen] \in StoreType
    BY <1>1 DEF StoreType
  <2>4. added = [store EXCEPT !.next = m, !.lastGen = gen, !.seg = segs]
    BY <1>6, <2>2
  <2>5. added \in StoreType
    BY <1>5, <2>3, <2>4 DEF StoreType
  <2> QED
    BY <1>1, <2>2, <2>4, <2>5 DEF StoreType
<1>10. /\ put \in StoreType /\ put.next = s + 1 /\ put.lastGen = gen /\ put.seg = wsegs
       /\ put.low = store.low /\ put.passed = store.passed /\ put.window = store.window
       /\ put.degraded = store.degraded /\ put.forgone = store.forgone /\ put.inits = store.inits
       /\ put.queue = Q /\ put.unlinks = store.unlinks /\ put.disk = store.disk
       /\ put.closed = store.closed /\ put.removing = store.removing
  <2> HIDE DEF put, added, new, s
  <2>1. s + 1 \in Nat
    BY <1>1
  <2>2. PICK m \in Nat : m = s + 1
    BY <2>1
  <2>3. [store EXCEPT !.next = m, !.lastGen = gen] \in StoreType
    BY <1>1 DEF StoreType
  <2>4. put = [store EXCEPT !.next = m, !.lastGen = gen, !.seg = wsegs, !.queue = Q]
    BY <1>7, <2>2
  <2>5. [store EXCEPT !.next = m, !.lastGen = gen, !.seg = wsegs] \in StoreType
    BY <1>5, <2>3 DEF StoreType
  <2>6. put \in StoreType
    BY <1>8, <2>4, <2>5 DEF StoreType
  <2> QED
    BY <1>1, <2>2, <2>4, <2>6 DEF StoreType
<1> SUFFICES SoundStore(q, 1) /\ Joins(q)
  OBVIOUS
<1> HIDE DEF added, put, q
<1>11. SoundStore(added, 1) /\ \A t \in Segments : Found(added, t) => t = s
         \/ (t < s /\ Found(store, t))
  BY <1>1, <1>3, <1>5, <1>9, AddedIsSound
<1>12. CASE ~Queues
  <2>1. q = added
    BY <1>2, <1>12
  <2>2. \A t \in Segments : t # s => q.seg[t] = store.seg[t]
    BY <1>5, <1>9, <2>1
  <2>3. q.seg[s] = new /\ q.queue = store.queue
    BY <1>5, <1>9, <2>1
  <2> QED
    <3>1. /\ q.next = s + 1 /\ q.removing = store.removing /\ q.closed = store.closed
          /\ q.unlinks = store.unlinks /\ q.disk = store.disk
          /\ q.inits = store.inits /\ q.lastGen = gen /\ q.degraded = store.degraded
      BY <1>9, <2>1
    <3>2. ~q.seg[s].onDisk /\ ~q.seg[s].doomed /\ q.seg[s].gen = gen
      BY <1>3, <2>3
    <3>3. SoundStore(q, 1) /\ \A t \in Segments : Found(q, t) => t = s \/ (t < s /\ Found(store, t))
      BY <1>11, <2>1
    <3>4. /\ q.queue \subseteq store.queue \cup {s}
          /\ s \in q.queue /\ s \notin store.queue => q.seg[s].pending
      BY <2>3
    <3> HIDE DEF s
    <3> QED
      BY <2>2, <3>1, <3>2, <3>3, <3>4 DEF Joins, s
<1>13. CASE Queues /\ Full
  <2>1. q = Degrade(added)
    BY <1>2, <1>13
  <2>2. ~added.degraded /\ 1 \in {0, 1}
    BY <1>9, <1>13 DEF Queues
  <2>3. /\ SoundStore(q, 1) /\ Follows(added, q) /\ q.degraded = TRUE
        /\ q.inits = added.inits /\ q.lastGen = added.lastGen
    BY <1>11, <2>1, <2>2, DegradeFollows
  <2>4. \A t \in Segments : t # s => added.seg[t] = store.seg[t]
    BY <1>5, <1>9
  <2>5. added.seg[s] = new
    BY <1>5, <1>9
  <2>6. /\ q.next = s + 1 /\ q.removing = store.removing /\ q.closed = store.closed
        /\ q.unlinks = store.unlinks /\ q.disk = store.disk
    BY <1>9, <2>3 DEF Follows
  <2>7. \A t \in Segments : t # s =>
              /\ q.seg[t].onDisk = store.seg[t].onDisk /\ q.seg[t].doomed = store.seg[t].doomed
              /\ q.seg[t].size = store.seg[t].size /\ q.seg[t].gen = store.seg[t].gen
              /\ q.seg[t].pending => store.seg[t].pending
    BY <2>3, <2>4 DEF Follows
  <2>8. ~q.seg[s].onDisk /\ ~q.seg[s].doomed /\ q.seg[s].gen = gen
    BY <1>1, <1>3, <2>3, <2>5 DEF Follows
  <2>9. \A t \in Segments : Found(q, t) => t = s \/ (t < s /\ Found(store, t))
    BY <1>11, <2>3 DEF Follows
  <2> QED
    <3>1. q.inits = store.inits /\ q.lastGen = gen /\ q.degraded
      BY <1>9, <2>3
    <3> HIDE DEF s
    <3> QED
      BY <2>3, <2>6, <2>7, <2>8, <2>9, <3>1 DEF Joins, s
<1>14. CASE Queues /\ ~Full
  <2>1. q = put
    BY <1>2, <1>14
  <2>2. SoundStore(put, 1) /\ \A t \in Segments : Found(put, t) => t = s
          \/ (t < s /\ Found(store, t))
    BY <1>1, <1>4, <1>5, <1>10, <1>14, AddedIsSound DEF Queues
  <2>3. \A t \in Segments : t # s => q.seg[t] = store.seg[t]
    BY <1>5, <1>10, <2>1
  <2>4. q.seg[s] = wnew /\ q.queue = Q
    BY <1>5, <1>10, <2>1
  <2> QED
    <3>1. /\ q.next = s + 1 /\ q.removing = store.removing /\ q.closed = store.closed
          /\ q.unlinks = store.unlinks /\ q.disk = store.disk
          /\ q.inits = store.inits /\ q.lastGen = gen /\ ~store.degraded
      BY <1>10, <1>14, <2>1 DEF Queues
    <3>2. ~q.seg[s].onDisk /\ ~q.seg[s].doomed /\ q.seg[s].gen = gen /\ q.seg[s].pending
      BY <1>4, <2>4
    <3>3. SoundStore(q, 1) /\ \A t \in Segments : Found(q, t) => t = s \/ (t < s /\ Found(store, t))
      BY <2>1, <2>2
    <3>4. q.queue \subseteq store.queue \cup {s}
      BY <2>4 DEF Q
    <3> HIDE DEF s
    <3> QED
      BY <2>3, <3>1, <3>2, <3>3, <3>4 DEF Joins, s
<1> QED
  BY <1>12, <1>13, <1>14
\* A publication.
LEMMA PublishSegmentKeeps ==
  ASSUME StoreInv, NEW z \in Sizes, PublishSegment(z)
  PROVE  StoreInv'
<1>1. /\ SoundStore(store, 0) /\ AtRest(store) /\ store \in StoreType /\ writer \in WriterType
      /\ ListIsSound(store) /\ \A t \in Segments : store.seg[t] \in SegmentType /\ t \in Nat
      /\ store.next \in Nat /\ gen \in Nat
  BY InvParts
<1> DEFINE s == store.next
<1>2. PICK q : q = Queued(z)
  OBVIOUS
<1>3. /\ s \in Segments /\ fresh' = FALSE /\ kicked' \in BOOLEAN
      /\ UNCHANGED <<writer, files, reads, gen, shown, diskFaults>>
  BY DEF PublishSegment
<1>4. SoundStore(q, 1) /\ Joins(q)
  BY <1>2, <1>3, QueuedIsSound
<1>5. /\ q.next = s + 1 /\ q.removing = store.removing /\ q.closed = store.closed
      /\ q.unlinks = store.unlinks /\ q.disk = store.disk
      /\ q.inits = store.inits /\ q.lastGen = gen
      /\ \A t \in Segments : t # s =>
           /\ q.seg[t].onDisk = store.seg[t].onDisk /\ q.seg[t].doomed = store.seg[t].doomed
           /\ q.seg[t].size = store.seg[t].size /\ q.seg[t].gen = store.seg[t].gen
           /\ q.seg[t].pending => store.seg[t].pending
      /\ ~q.seg[s].onDisk /\ ~q.seg[s].doomed /\ q.seg[s].gen = gen
      /\ \A t \in Segments : Found(q, t) => t = s \/ (t < s /\ Found(store, t))
  BY <1>4 DEF Joins
<1>6. PICK d : d = Trim(q)
  OBVIOUS
<1>7. PICK e : e = EvictInits(d)
  OBVIOUS
<1>8. store' = Noted(e, 1) /\ 1 \in {0, 1}
  BY <1>2, <1>6, <1>7 DEF PublishSegment, Becomes
<1>9. /\ SoundStore(d, 1) /\ Follows(q, d) /\ Spares(d)
      /\ d.degraded = q.degraded /\ d.queue = q.queue /\ d.inits = q.inits
      /\ d.lastGen = q.lastGen
      /\ \A t \in Segments : d.seg[t].pending = q.seg[t].pending
  BY <1>4, <1>6, <1>8, TrimFollows
<1>10. /\ SoundStore(e, 1) /\ Follows(d, e) /\ Spares(e)
       /\ e.degraded = d.degraded /\ e.queue = d.queue
       /\ e.lastGen = d.lastGen /\ e.seg = d.seg
       /\ \A g \in d.inits : g >= d.lastGen => g \in e.inits
       /\ \A t \in Segments : t < d.next /\ Found(d, t) /\ d.seg[t].gen \in d.inits =>
            d.seg[t].gen \in e.inits
  <2>1. d.lastGen \in Nat
    BY <1>1, <1>5, <1>9
  <2> QED
    BY <1>7, <1>8, <1>9, <2>1, EvictInitsKeeps
<1>11. gen \in store.inits /\ \A t \in Segments : t < s /\ Found(store, t)
         => store.seg[t].gen \in store.inits
  BY <1>1 DEF AtRest, StoreInv, GensAreSound
<1>12. \A t \in Segments : t < e.next /\ Found(e, t) => e.seg[t].gen \in e.inits
  <2>1. ASSUME NEW t \in Segments, Found(e, t), t < e.next
        PROVE  e.seg[t].gen \in e.inits
    <3>1. Found(d, t) /\ Found(q, t) /\ d.seg[t].gen = q.seg[t].gen
            /\ e.seg[t].gen = d.seg[t].gen /\ t < d.next
      BY <1>9, <1>10, <2>1 DEF Follows
    <3>2. q.seg[t].gen \in d.inits
      <4>1. CASE t = s
        BY <1>5, <1>9, <1>11, <4>1
      <4>2. CASE t # s
        <5>1. t < s /\ Found(store, t)
          BY <1>5, <3>1, <4>2
        <5> QED
          BY <1>5, <1>9, <1>11, <4>2, <5>1
      <4> QED
        BY <4>1, <4>2
    <3> QED
      BY <1>10, <3>1, <3>2
  <2> QED
    BY <2>1
<1>13. SoundStore(store', 0) /\ AtRest(store') /\ Follows(e, store')
  BY <1>8, <1>10, <1>12, NotedAtRest
<1>14. Follows(q, store')
  BY <1>9, <1>10, <1>13, FollowsTwice
<1>15. /\ store'.degraded = q.degraded /\ store'.inits = e.inits /\ store'.lastGen = gen
       /\ store'.queue = q.queue
       /\ \A t \in Segments : store'.seg[t].pending = q.seg[t].pending
  BY <1>5, <1>8, <1>9, <1>10, NotedFollows
<1>16. /\ store'.next = s + 1 /\ store'.removing = store.removing /\ store'.closed = store.closed
       /\ store'.unlinks = store.unlinks /\ store'.disk = store.disk
       /\ ~store'.seg[s].onDisk /\ ~store'.seg[s].doomed
  BY <1>3, <1>5, <1>14 DEF Follows
<1>17. \A t \in Segments : t # s =>
          /\ store'.seg[t].onDisk = store.seg[t].onDisk
               /\ store'.seg[t].doomed = store.seg[t].doomed
          /\ store'.seg[t].size = store.seg[t].size
          /\ store'.seg[t].pending => store.seg[t].pending
  BY <1>5, <1>14, <1>15 DEF Follows
<1>18. /\ ~store.seg[s].onDisk /\ ~store.seg[s].pending /\ ~store.seg[s].doomed
  <2>1. PlaceIsSound(store, s)
    BY <1>1, <1>3 DEF SoundStore
  <2> QED
    BY <1>1, <2>1 DEF PlaceIsSound
<1>19. /\ store.queue \subseteq Segments /\ store.unlinks \subseteq Segments
            /\ files \subseteq Segments
       /\ writer.jobs \subseteq Segments /\ writer.hand \subseteq Segments
  BY <1>1 DEF StoreType, WriterType, StoreInv, FilesAreSound
<1>20. WriterIsSound'
  <2>1. ~store'.degraded =>
          /\ store'.queue \cap writer'.jobs = {}
          /\ \A t \in store'.queue \cup writer'.jobs : store'.seg[t].pending
    <3>1. ASSUME ~store'.degraded
          PROVE  /\ ~store.degraded /\ store.queue \cap writer.jobs = {}
                 /\ \A t \in store.queue \cup writer.jobs : store.seg[t].pending
                 /\ s \notin store.queue \cup writer.jobs
                 /\ store'.queue \subseteq store.queue \cup {s}
                 /\ \A t \in Segments : t # s /\ store.seg[t].pending => store'.seg[t].pending
                 /\ s \in store'.queue => store'.seg[s].pending
      <4>1. ~q.degraded /\ ~store.degraded
        BY <1>4, <1>15, <3>1 DEF Joins
      <4>2. /\ store.queue \cap writer.jobs = {}
            /\ \A t \in store.queue \cup writer.jobs : store.seg[t].pending
        BY <4>1 DEF StoreInv, WriterIsSound
      <4>3. s \notin store.queue \cup writer.jobs
        BY <1>18, <4>2
      <4>4. /\ q.queue \subseteq store.queue \cup {s}
            /\ \A t \in Segments : t # s /\ store.seg[t].pending => q.seg[t].pending
            /\ s \in q.queue /\ s \notin store.queue => q.seg[s].pending
        BY <1>4, <4>1 DEF Joins
      <4> QED
        BY <1>3, <1>15, <4>1, <4>2, <4>3, <4>4
    <3> HIDE DEF s
    <3>2. ASSUME ~store'.degraded, NEW t \in store'.queue \cup writer.jobs
          PROVE  store'.seg[t].pending
      BY <1>19, <3>1, <3>2
    <3>3. ASSUME ~store'.degraded
          PROVE  store'.queue \cap writer.jobs = {}
      BY <3>1, <3>3
    <3> QED
      BY <1>3, <3>2, <3>3
  <2>2. writer.at = "evicting" => writer.victim \in Segments /\ store'.seg[writer.victim].onDisk
    <3>1. writer.at = "evicting" => writer.victim \in Segments /\ store.seg[writer.victim].onDisk
      BY DEF StoreInv, WriterIsSound
    <3> QED
      BY <1>17, <1>18, <3>1
  <2>3. /\ writer.jobs # {} <=> writer.at \in {"writing", "committing"}
        /\ writer.hand # {} => writer.at \in {"writing", "committing", "unlinking"}
        /\ writer.at = "committing" => Min(writer.jobs) \in files
        /\ writer.at = "removing" => store.removing
        /\ store.removing => store.closed /\ \A g \in Gets : reads[g] = 0
    BY DEF StoreInv, WriterIsSound
  <2> HIDE DEF s
  <2> QED
    BY <1>1, <1>3, <1>16, <2>1, <2>2, <2>3 DEF WriterIsSound
<1>21. FilesAreSound'
  <2>1. ASSUME NEW t \in store.unlinks \cup writer.hand
        PROVE  t < store'.next /\ ~store'.seg[t].onDisk /\ ~store'.seg[t].pending
    <3>1. t < s /\ ~store.seg[t].onDisk /\ ~store.seg[t].pending /\ t \in Segments /\ t \in Nat
      BY <1>1, <1>19 DEF StoreInv, FilesAreSound
    <3>2. t < s + 1 /\ t # s
      BY <1>1, <3>1
    <3> QED
      BY <1>16, <1>17, <3>1, <3>2
  <2>2. ~store'.removing => \A t \in Segments : store'.seg[t].onDisk => t \in files
    BY <1>16, <1>17 DEF StoreInv, FilesAreSound
  <2>3. ASSUME NEW g \in Gets, reads[g] # 0
        PROVE  /\ reads[g] \in files /\ reads[g] \notin store.unlinks \cup writer.hand
               /\ store'.seg[reads[g]].onDisk \/ store'.seg[reads[g]].doomed
    <3>1. /\ reads[g] \in files /\ reads[g] \notin store.unlinks \cup writer.hand
          /\ store.seg[reads[g]].onDisk \/ store.seg[reads[g]].doomed
      BY <2>3 DEF StoreInv, FilesAreSound
    <3>2. reads[g] # s /\ reads[g] \in Segments
      BY <1>18, <1>19, <3>1
    <3> QED
      BY <1>17, <3>1, <3>2
  <2>4. files \subseteq Segments /\ reads \in [Gets -> Segments \cup {0}]
    BY DEF StoreInv, FilesAreSound
  <2> QED
    BY <1>3, <1>16, <2>1, <2>2, <2>3, <2>4 DEF FilesAreSound
<1>22. GensAreSound'
  <2>1. /\ gen \in 1..MaxGens /\ diskFaults \in 0..MaxDiskFaults
    BY DEF StoreInv, GensAreSound
  <2>2. {kicked', fresh'} \subseteq BOOLEAN
    BY <1>3
  <2>3. gen \in e.inits
    BY <1>1, <1>5, <1>9, <1>10, <1>11
  <2>4. store'.lastGen <= gen
    BY <1>1, <1>15
  <2> QED
    BY <1>3, <1>15, <2>1, <2>2, <2>3, <2>4 DEF GensAreSound
<1>23. PlaylistIsTrue'
  BY <1>3, <1>13, PlaylistOf
<1>24. DiskIsAccounted'
  <2>1. PICK S : S = {t \in Segments : store.seg[t].onDisk}
    OBVIOUS
  <2>2. {t \in Segments : store'.seg[t].onDisk} = S /\ S \subseteq Segments /\ s \notin S
    BY <1>16, <1>17, <1>18, <2>1
  <2>3. SizeOf(store', S) = SizeOf(store, S)
    <3>1. \A t \in S : store'.seg[t].size = store.seg[t].size
      BY <1>17, <2>2
    <3> QED
      BY <3>1, SizeOfSame
  <2>4. ~store'.removing => store'.disk = SizeOf(store', {t \in Segments : store'.seg[t].onDisk})
    BY <1>16, <2>1, <2>2, <2>3 DEF StoreInv, DiskIsAccounted
  <2>5. \A g \in Gets : reads'[g] # 0 => reads'[g] \in files'
    BY <1>21 DEF FilesAreSound
  <2>6. ASSUME NEW t \in files, ~store.removing, ~store'.degraded
        PROVE  \/ store'.seg[t].onDisk /\ Found(store', t)
               \/ t \in store.unlinks \cup (writer.hand \cup (IF writer.at = "committing" THEN {Min(writer.jobs)} ELSE {}))
               \/ store'.seg[t].doomed /\ Pinned(t) # {}
    <3>1. t \in Segments /\ ~store.degraded
      BY <1>4, <1>15, <1>19, <2>6 DEF Joins
    <3>2. \/ store.seg[t].onDisk
          \/ t \in store.unlinks \cup (writer.hand \cup (IF writer.at = "committing" THEN {Min(writer.jobs)} ELSE {}))
          \/ store.seg[t].doomed /\ Pinned(t) # {}
      BY <2>6, <3>1 DEF StoreInv, DiskIsAccounted
    <3>3. store'.seg[t].onDisk => Found(store', t)
      BY <1>13, <3>1, OnDiskIsFound
    <3>4. CASE t = s
      BY <1>18, <3>2, <3>4
    <3>5. CASE t # s
      BY <1>17, <3>1, <3>2, <3>3, <3>5
    <3> QED
      BY <3>4, <3>5
  <2>7. ASSUME NEW t \in files', ~store'.removing, ~store'.degraded
        PROVE  \/ store'.seg[t].onDisk /\ Found(store', t)
               \/ t \in store'.unlinks \cup (writer'.hand \cup (IF writer'.at = "committing" THEN {Min(writer'.jobs)} ELSE {}))
               \/ store'.seg[t].doomed /\ Pinned(t)' # {}
    <3>1. Pinned(t)' = Pinned(t)
      BY <1>3 DEF Pinned
    <3> QED
      BY <1>3, <1>16, <2>6, <2>7, <3>1
  <2> QED
    BY <2>4, <2>5, <2>7 DEF DiskIsAccounted
<1> QED
  BY <1>13, <1>20, <1>21, <1>22, <1>23, <1>24 DEF StoreInv

\* The invariant is inductive: every operation of the segmenter, of the writer and of
\* the requests keeps it.
THEOREM StoreInvHolds == StoreSpec => []StoreInv
<1>1. ASSUME StoreInv, [StoreNext]_storeVars
      PROVE  StoreInv'
  <2>1. CASE UNCHANGED storeVars
    <3>1. UNCHANGED <<store, writer, kicked, files, reads, gen, shown, fresh, diskFaults>>
      BY <2>1 DEF storeVars
    <3>2. SoundStore(store', 0) /\ AtRest(store')
      BY <1>1, <3>1, InvParts
    <3>3. WriterIsSound' /\ FilesAreSound' /\ GensAreSound' /\ PlaylistIsTrue' /\ DiskIsAccounted'
      BY <1>1, <3>1
      DEF StoreInv, WriterIsSound, FilesAreSound, GensAreSound, PlaylistIsTrue, DiskIsAccounted,
      Pinned
    <3> QED
      BY <3>2, <3>3 DEF StoreInv
  <2>2. CASE SegmenterStep
    <3>1. CASE NewGeneration
      BY <1>1, <3>1, NewGenerationKeeps
    <3>2. ASSUME NEW z \in Sizes, PublishSegment(z) PROVE StoreInv'
      BY <1>1, <3>2, PublishSegmentKeeps
    <3>3. CASE CloseStore
      BY <1>1, <3>3, CloseStoreKeeps
    <3> QED
      BY <2>2, <3>1, <3>2, <3>3 DEF SegmenterStep
  <2>3. CASE WriterStep
    <3>1. CASE Collect
      BY <1>1, <3>1, CollectKeeps
    <3>2. CASE RemoveWindow
      BY <1>1, <3>2, RemoveWindowKeeps
    <3>3. CASE WriteJob
      BY <1>1, <3>3, WriteJobKeeps
    <3>4. CASE WriteFails
      BY <1>1, <3>4, WriteFailsKeeps
    <3>5. CASE CommitJob
      BY <1>1, <3>5, CommitJobKeeps
    <3>6. CASE Unlink
      BY <1>1, <3>6, UnlinkKeeps
    <3>7. CASE PickVictim
      BY <1>1, <3>7, PickVictimKeeps
    <3>8. CASE Evict
      BY <1>1, <3>8, EvictKeeps
    <3> QED
      BY <2>3, <3>1, <3>2, <3>3, <3>4, <3>5, <3>6, <3>7, <3>8 DEF WriterStep
  <2>4. CASE FetchStep
    <3>1. CASE Render
      BY <1>1, <3>1, RenderKeeps
    <3>2. ASSUME NEW g \in Gets, Unpin(g) PROVE StoreInv'
      BY <1>1, <3>2, UnpinKeeps
    <3>3. ASSUME NEW g \in Gets, NEW s \in Segments, Pin(g, s) PROVE StoreInv'
      BY <1>1, <3>3, PinKeeps
    <3>4. CASE StoreTick
      BY <1>1, <3>4, StoreTickKeeps
    <3> QED
      BY <2>4, <3>1, <3>2, <3>3, <3>4 DEF FetchStep
  <2> QED
    BY <1>1, <2>1, <2>2, <2>3, <2>4 DEF StoreNext
<1> QED
  BY <1>1, StoreInitKeeps, PTL DEF StoreSpec

\* The store is what its type says.
THEOREM StoreIsTyped == StoreSpec => []StoreTypeOK
<1>1. StoreInv => StoreTypeOK
  <2> SUFFICES ASSUME StoreInv PROVE StoreTypeOK
    OBVIOUS
  <2>1. /\ store \in StoreType /\ writer \in WriterType /\ store.low \in Nat /\ store.next \in Nat
        /\ store.low <= store.next /\ store.low >= 1
    BY InvParts
  <2>2. /\ store.passed \in Nat /\ store.disk \in Int /\ store.inits \subseteq 1..MaxGens
        /\ store.unlinks \subseteq Segments
    BY <2>1 DEF StoreType
  <2>3. writer.at \in {"idle", "writing", "committing", "unlinking", "capping", "evicting", "removing"}
    BY <2>1 DEF WriterType
  <2>4. files \subseteq Segments /\ reads \in [Gets -> Segments \cup {0}]
    BY DEF StoreInv, FilesAreSound
  <2>5. {kicked, fresh} \subseteq BOOLEAN
    BY DEF StoreInv, GensAreSound
  <2>6. diskFaults \in 0..MaxDiskFaults
    BY DEF StoreInv, GensAreSound
  <2>7. store.low \in 1..store.next
    BY <2>1
  <2> QED
    BY <2>2, <2>3, <2>4, <2>5, <2>6, <2>7 DEF StoreTypeOK
<1> QED
  BY <1>1, StoreInvHolds, PTL

\* A player fetches what its playlist lists, and what left it, for as long as it is
\* due (store.go:19-27, :186-191).
THEOREM StoreServesThePlaylist == StoreSpec => []WantedIsFetchable
<1>1. StoreInv => WantedIsFetchable
  <2> SUFFICES ASSUME StoreInv, NEW s \in 1..(store.next - 1) \ store.forgone, ~store.closed
               PROVE  LET x == store.seg[s]
                      IN Fetchable(s)
                        \/ (x.left /\ IF x.kept THEN x.ticks >= Unlisted ELSE x.pubs >= Unlisted)
    BY DEF WantedIsFetchable
  <2> DEFINE x == store.seg[s]
  <2>1. /\ SoundStore(store, 0) /\ AtRest(store) /\ ListIsSound(store) /\ store.next \in Nat
             /\ store.low \in Nat
        /\ store.low <= store.next /\ store.low >= 1
    BY InvParts
  <2>2. s \in Segments /\ s \in Nat /\ s < store.next /\ s >= 1 /\ s \notin store.forgone
    BY <2>1, ListedAreSegments
  <2>3. PlaceIsSound(store, s) /\ PastIsSound(store, s, 0)
    BY <2>1, <2>2 DEF SoundStore
  <2>4. LiveEdge \in Nat /\ StoreSegments \in Nat /\ StoreSegments >= LiveEdge
          /\ Unlisted = StoreSegments - LiveEdge
    BY BoundsAreNumbers
  <2>5. s \in Stored(store) <=> ~(s < store.low)
    BY <2>1, <2>2 DEF Stored
  <2>6. ~store.removing
    BY DEF StoreInv, WriterIsSound
  <2>7. x.onDisk => s \in files /\ store.window
    BY <2>2, <2>3, <2>6 DEF StoreInv, FilesAreSound, PlaceIsSound
  <2>8. x.pending => x.held
    BY <2>3 DEF PlaceIsSound
  <2>9. Found(store, s) => x.gen \in store.inits
    BY <2>1, <2>2 DEF AtRest
  <2>10. Found(store, s) /\ (x.held \/ x.onDisk) => Fetchable(s)
    BY <2>7, <2>9 DEF Fetchable
  <2>11. CASE x.onDisk \/ x.pending
    BY <2>1, <2>2, <2>8, <2>10, <2>11, OnDiskIsFound
  <2>12. CASE ~x.onDisk /\ ~x.pending /\ s \in Stored(store)
    <3>1. x.held
      BY <2>3, <2>12 DEF PlaceIsSound
    <3> QED
      BY <2>10, <2>12, <3>1 DEF Found
  <2>13. CASE ~x.onDisk /\ ~x.pending /\ s \notin Stored(store)
    <3>1. s < store.low
      BY <2>5, <2>13
    <3>2. x.left
      <4>1. s \notin Listed(store)
        <5>1. \E m \in Nat : Listed(store) = m..(store.next - 1) /\ store.low <= m
          BY <2>1, ListedIsTheEnd
        <5> QED
          BY <2>1, <2>2, <3>1, <5>1
      <4> QED
        BY <2>1, <2>2, <4>1 DEF AtRest
    <3>3. CASE x.kept
      BY <2>2, <2>3, <2>13, <3>2, <3>3 DEF PastIsSound
    <3>4. CASE ~x.kept
      <4>1. /\ (x.pubs >= Unlisted) \/ (x.pubs >= store.next - 1 - s - LiveEdge)
            /\ s + StoreSegments < store.next
        <5>1. x.pubs \in Nat
          BY <2>2, InvParts DEF SegmentType
        <5> QED
          BY <2>2, <2>3, <2>13, <3>1, <3>2, <3>4, <5>1 DEF PastIsSound
      <4>2. x.pubs \in Nat
        BY <2>2, InvParts DEF SegmentType
      <4>3. x.pubs >= Unlisted
        <5> HIDE DEF x
        <5> QED
          BY <2>1, <2>2, <2>4, <4>1, <4>2
      <4> QED
        BY <3>2, <3>4, <4>3
    <3> QED
      BY <3>3, <3>4
  <2> QED
    BY <2>11, <2>12, <2>13
<1> QED
  BY <1>1, StoreInvHolds, PTL

\* A playlist is what the store holds, and numbers its discontinuities the same
\* whichever way what came before has left (store.go:611-620).
THEOREM StorePlaylistIsTrue == StoreSpec => []PlaylistIsTrue
  BY StoreInvHolds, PTL DEF StoreInv

\* The window's bytes, files and reads are accounted for (rewind.go:579-597, :691-722).
THEOREM StoreDiskIsAccounted == StoreSpec => []DiskIsAccounted
  BY StoreInvHolds, PTL DEF StoreInv
==============================================================================

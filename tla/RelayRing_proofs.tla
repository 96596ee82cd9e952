-------------------------- MODULE RelayRing_proofs --------------------------
(***************************************************************************)
(* What holds of RelayRing for every packet size, chunk size, capacity and *)
(* number of readers.                                                      *)
(***************************************************************************)
EXTENDS RelayRing, SequenceTheorems, TLAPS

(* The strengthening.  StoreIsContiguous and ResidentIsLog speak of the    *)
(* store; the readers' promises need to know where a cursor can be.        *)
LogIsStored == Len(log) = head /\ Len(chunks) <= head

CursorsWithinLog == \A r \in Readers : cursor[r] <= head

ClosedIsEnded == closed <=> phase = "ended"

StoreInv ==
  /\ chunks \in Seq(Chunk) /\ head \in Nat
  /\ log \in Seq(Seq(Byte))
  /\ LogIsStored /\ StoreIsContiguous /\ ResidentIsLog

\* A reader that has not joined was handed nothing.
OutIsFresh == \A r \in Readers : pc[r] = "out" => Len(got[r]) = 0 /\ lost[r] = 0

ReaderInv ==
  /\ CursorsWithinLog /\ EveryIndexAccountedFor /\ NoLostWakeup /\ FinalReadIsEmpty
  /\ OutIsFresh

IInv == TypeOK /\ StoreInv /\ ReaderInv /\ ClosedIsEnded

----------------------------------------------------------------------------
(* Arithmetic and sequences. *)

\* Go's integer division: the whole units fit in n.
LEMMA WholeUnits ==
  ASSUME NEW n \in Nat, NEW unit \in Nat \ {0}
  PROVE  /\ Whole(n, unit) \in Nat
         /\ Whole(n, unit) * unit \in 0..n
<1>1. n \div unit \in Nat
  BY Z3
<1>2. (n \div unit) * unit <= n
  BY Z3
<1>3. (n \div unit) * unit \in Nat
  BY <1>1, Z3
<1> QED BY <1>1, <1>2, <1>3 DEF Whole

\* What follows the last whole unit is bytes again.
LEMMA LeftoverType ==
  ASSUME NEW S, NEW s \in Seq(S), NEW unit \in Nat \ {0}
  PROVE  Leftover(s, unit) \in Seq(S)
<1> DEFINE w == Whole(Len(s), unit) * unit
<1>1. w \in 0..Len(s)
  BY WholeUnits
<1>2. \A i \in (w + 1)..Len(s) : s[i] \in S
  BY <1>1
<1>3. SubSeq(s, w + 1, Len(s)) \in Seq(S)
  <2> HIDE DEF w
  <2> QED BY <1>1, <1>2, SubSeqProperties
<1> QED BY <1>3 DEF Leftover

\* So is everything up to it.
LEMMA WholePartType ==
  ASSUME NEW S, NEW s \in Seq(S), NEW unit \in Nat \ {0}
  PROVE  WholePart(s, unit) \in Seq(S)
<1> DEFINE w == Whole(Len(s), unit) * unit
<1>1. w \in 0..Len(s)
  BY WholeUnits
<1>2. \A i \in 1..w : s[i] \in S
  BY <1>1
<1>3. SubSeq(s, 1, w) \in Seq(S)
  <2> HIDE DEF w
  <2> QED BY <1>1, <1>2, SubSeqProperties
<1> QED BY <1>3 DEF WholePart

\* Cutting the pending packets into chunks stays inside them.
LEMMA FullChunksType ==
  ASSUME NEW S, NEW s \in Seq(S), ChunkBytes \in Nat \ {0}
  PROVE  FullChunks(s) \in Seq(Seq(S))
<1> DEFINE k == Whole(Len(s), ChunkBytes)
           D(i) == SubSeq(s, (i - 1) * ChunkBytes + 1, i * ChunkBytes)
<1>1. k \in Nat /\ k * ChunkBytes \in 0..Len(s)
  BY WholeUnits
<1>2. ASSUME NEW i \in 1..k PROVE D(i) \in Seq(S)
  <2> DEFINE a == (i - 1) * ChunkBytes
             b == i * ChunkBytes
  <2>1. a \in Nat
    BY <1>1, Z3
  <2>2. b \in Nat /\ b <= k * ChunkBytes
    <3> HIDE DEF k
    <3> QED BY <1>1, <1>2, Z3
  <2>3. \A j \in (a + 1)..b : s[j] \in S
    <3> HIDE DEF a, b, k
    <3> QED BY <1>1, <2>1, <2>2
  <2>4. SubSeq(s, a + 1, b) \in Seq(S)
    <3> HIDE DEF a, b
    <3> QED BY <2>1, <2>2, <2>3, SubSeqProperties
  <2> QED BY <2>4
<1>3. [i \in 1..k |-> D(i)] \in Seq(Seq(S))
  <2> HIDE DEF k, D
  <2> QED BY <1>1, <1>2, IsASeq
<1> QED BY <1>3 DEF FullChunks
----------------------------------------------------------------------------
(* The store as a sequence: cs holds the last Len(cs) entries of lg. *)

Suffix(cs, lg) ==
  /\ Len(cs) <= Len(lg)
  /\ \A i \in 1..Len(cs) : /\ cs[i].index = Len(lg) - Len(cs) + i
                          /\ cs[i].data = lg[cs[i].index]

\* Appending the same data to both keeps it so.
LEMMA SuffixExtended ==
  ASSUME NEW cs \in Seq(Chunk), NEW lg \in Seq(Seq(Byte)), Suffix(cs, lg),
         NEW ds \in Seq(Seq(Byte)), NEW new \in Seq(Chunk),
         Len(new) = Len(ds),
         \A i \in 1..Len(ds) : new[i].index = Len(lg) + i /\ new[i].data = ds[i]
  PROVE  Suffix(cs \o new, lg \o ds)
<1> DEFINE all == cs \o new
           big == lg \o ds
<1>1. /\ all \in Seq(Chunk) /\ Len(all) = Len(cs) + Len(ds)
      /\ \A i \in 1..Len(all) :
           all[i] = IF i <= Len(cs) THEN cs[i] ELSE new[i - Len(cs)]
  BY ConcatProperties
<1>2. /\ big \in Seq(Seq(Byte)) /\ Len(big) = Len(lg) + Len(ds)
      /\ \A i \in 1..Len(big) :
           big[i] = IF i <= Len(lg) THEN lg[i] ELSE ds[i - Len(lg)]
  BY ConcatProperties
<1> HIDE DEF all, big
<1>3. ASSUME NEW i \in 1..Len(all)
      PROVE  /\ all[i].index = Len(big) - Len(all) + i
             /\ all[i].data = big[all[i].index]
  <2>1. CASE i <= Len(cs)
    <3>1. all[i] = cs[i] /\ i \in 1..Len(cs)
      BY <1>1, <2>1
    <3>2. cs[i].index = Len(lg) - Len(cs) + i /\ cs[i].data = lg[cs[i].index]
          /\ Len(cs) <= Len(lg)
      BY <3>1 DEF Suffix
    <3>3. cs[i].index \in 1..Len(lg)
      BY <3>1, <3>2
    <3>4. big[cs[i].index] = lg[cs[i].index]
      <4>1. cs[i].index \in 1..Len(big) /\ cs[i].index <= Len(lg)
        <5>1. Len(ds) \in Nat /\ Len(lg) \in Nat
          OBVIOUS
        <5> QED BY <1>2, <3>3, <5>1
      <4> QED BY <1>2, <4>1, Zenon
    <3> QED BY <1>1, <1>2, <3>1, <3>2, <3>4
  <2>2. CASE i > Len(cs)
    <3> DEFINE j == i - Len(cs)
    <3>1. j \in 1..Len(ds) /\ all[i] = new[j]
      BY <1>1, <2>2
    <3>2. new[j].index = Len(lg) + j /\ new[j].data = ds[j]
      BY <3>1
    <3>3. big[Len(lg) + j] = ds[j]
      <4>1. /\ Len(lg) + j \in 1..Len(big) /\ ~(Len(lg) + j <= Len(lg))
            /\ (Len(lg) + j) - Len(lg) = j
        <5>1. Len(lg) \in Nat /\ Len(ds) \in Nat /\ Len(big) = Len(lg) + Len(ds)
          BY <1>2
        <5>2. j \in 1..Len(ds)
          BY <3>1
        <5> HIDE DEF j
        <5> QED BY <5>1, <5>2
      <4> HIDE DEF j
      <4> QED BY <1>2, <4>1
    <3> QED BY <1>1, <1>2, <3>1, <3>2, <3>3
  <2> QED BY <2>1, <2>2, <1>1
<1>4. Len(all) <= Len(big)
  BY <1>1, <1>2 DEF Suffix
<1> QED BY <1>3, <1>4 DEF Suffix, all, big

\* Dropping from the front keeps it so, and only moves the oldest index up.
LEMMA SuffixDropped ==
  ASSUME NEW cs \in Seq(Chunk), NEW lg \in Seq(Seq(Byte)), Suffix(cs, lg),
         NEW e \in 0..Len(cs)
  PROVE  LET ds == SubSeq(cs, 1 + e, Len(cs))
         IN  /\ ds \in Seq(Chunk) /\ Len(ds) = Len(cs) - e
             /\ Suffix(ds, lg)
<1> DEFINE ds == SubSeq(cs, 1 + e, Len(cs))
<1>1. \A i \in (1 + e)..Len(cs) : cs[i] \in Chunk
  OBVIOUS
<1>2. /\ ds \in Seq(Chunk) /\ Len(ds) = Len(cs) - e
      /\ \A i \in 1..Len(ds) : ds[i] = cs[e + i]
  BY <1>1, SubSeqProperties
<1> HIDE DEF ds
<1>3. ASSUME NEW i \in 1..Len(ds)
      PROVE  /\ ds[i].index = Len(lg) - Len(ds) + i
             /\ ds[i].data = lg[ds[i].index]
  <2>1. ds[i] = cs[e + i] /\ e + i \in 1..Len(cs)
    BY <1>2
  <2>2. cs[e + i].index = Len(lg) - Len(cs) + (e + i)
        /\ cs[e + i].data = lg[cs[e + i].index]
    BY <2>1 DEF Suffix
  <2> QED BY <2>1, <2>2, <1>2
<1>4. Suffix(ds, lg)
  BY <1>2, <1>3 DEF Suffix
<1> QED BY <1>2, <1>4 DEF ds

----------------------------------------------------------------------------
(* Publishing. *)

\* What StoreInv says of the store and the log, as the two lemmas above say it.
LEMMA StoreInvIsSuffix ==
  StoreInv <=> /\ chunks \in Seq(Chunk) /\ log \in Seq(Seq(Byte))
               /\ head = Len(log)
               /\ Suffix(chunks, log)
               /\ Len(chunks) <= Capacity
               /\ head > 0 => Len(chunks) > 0
<1>1. ASSUME StoreInv
      PROVE  /\ head = Len(log) /\ Suffix(chunks, log) /\ Len(chunks) <= Capacity
             /\ head > 0 => Len(chunks) > 0
  BY <1>1 DEF StoreInv, LogIsStored, StoreIsContiguous, ResidentIsLog, Suffix
<1>2. ASSUME chunks \in Seq(Chunk), log \in Seq(Seq(Byte)), head = Len(log),
             Suffix(chunks, log), Len(chunks) <= Capacity, head > 0 => Len(chunks) > 0
      PROVE  StoreInv
  <2>1. head \in Nat
    BY <1>2
  <2>2. LogIsStored
    BY <1>2 DEF LogIsStored, Suffix
  <2>3. StoreIsContiguous
    BY <1>2 DEF StoreIsContiguous, Suffix
  <2>4. ResidentIsLog
    BY <1>2 DEF ResidentIsLog, Suffix
  <2> QED BY <1>2, <2>1, <2>2, <2>3, <2>4 DEF StoreInv
<1> QED BY <1>1, <1>2 DEF StoreInv

\* One publish, of any number of chunks, keeps the store contiguous and equal
\* to the end of the log, only adds to the log, and wakes every subscribed
\* reader whenever the head moved.
LEMMA PublishStore ==
  ASSUME StoreInv, now \in Nat, NEW datas \in Seq(Seq(Byte)), Publish(datas)
  PROVE  /\ StoreInv'
         /\ head' = head + Len(datas)
         /\ log' = log \o datas
         /\ Len(chunks') <= Len(chunks) + Len(datas)
         /\ IF Len(datas) = 0 THEN UNCHANGED <<chunks, head, woken>>
                               ELSE woken' = [r \in Readers |-> TRUE]
<1>1. CASE Len(datas) = 0
  <2>1. UNCHANGED <<chunks, head, log, woken>>
    BY <1>1 DEF Publish
  <2>2. datas = << >>
    BY <1>1, EmptySeq
  <2>3. log' = log \o datas
    BY <2>1, <2>2, ConcatEmptySeq DEF StoreInv
  <2>4. StoreInv'
    BY <2>1 DEF StoreInv, LogIsStored, StoreIsContiguous, ResidentIsLog
  <2>5. Len(chunks') <= Len(chunks) + Len(datas)
    BY <1>1, <2>1 DEF StoreInv
  <2> QED BY <1>1, <2>1, <2>3, <2>4, <2>5 DEF StoreInv
<1>2. CASE Len(datas) > 0
  <2> DEFINE new == Stamped(datas)
             all == chunks \o new
  <2>0. Len(datas) # 0
    BY <1>2
  <2>1. PICK aged \in 0..Len(chunks) :
          /\ IsExpiredPrefix(aged)
          /\ chunks' = SubSeq(all, 1 + Evicted(aged, Len(all)), Len(all))
    BY <2>0, Zenon DEF Publish
  <2>2. head' = head + Len(datas) /\ log' = log \o datas
        /\ woken' = [r \in Readers |-> TRUE]
    BY <1>2 DEF Publish
  <2>3. chunks \in Seq(Chunk) /\ log \in Seq(Seq(Byte)) /\ head = Len(log)
        /\ Suffix(chunks, log)
    BY StoreInvIsSuffix
  <2>4. /\ new \in Seq(Chunk) /\ Len(new) = Len(datas)
        /\ \A i \in 1..Len(datas) : new[i].index = Len(log) + i /\ new[i].data = datas[i]
    BY <2>3 DEF Stamped, Chunk
  <2> HIDE DEF new
  <2>5. Suffix(all, log \o datas)
    BY <2>3, <2>4, SuffixExtended
  <2>6. /\ all \in Seq(Chunk) /\ Len(all) = Len(chunks) + Len(datas)
        /\ log \o datas \in Seq(Seq(Byte)) /\ Len(log \o datas) = Len(log) + Len(datas)
    <3>0. chunks \in Seq(Chunk) /\ new \in Seq(Chunk) /\ Len(new) = Len(datas)
      BY <2>3, <2>4
    <3>a. chunks \o new \in Seq(Chunk) /\ Len(chunks \o new) = Len(chunks) + Len(new)
      <4> HIDE DEF Chunk
      <4> QED BY <3>0, ConcatProperties
    <3>1. all \in Seq(Chunk) /\ Len(all) = Len(chunks) + Len(datas)
      BY <3>0, <3>a
    <3>2. log \o datas \in Seq(Seq(Byte)) /\ Len(log \o datas) = Len(log) + Len(datas)
      BY <2>3, ConcatProperties
    <3> QED BY <3>1, <3>2
  <2> DEFINE e == Evicted(aged, Len(all))
  <2>7. e \in 0..(Len(all) - 1) /\ Len(all) - e <= Capacity
    <3> HIDE DEF all
    <3> QED BY <1>2, <2>3, <2>6, ConstantsAssumption DEF Evicted, Higher
  <2> HIDE DEF e, all
  <2>8. chunks' = SubSeq(all, 1 + e, Len(all))
    BY <2>1 DEF e
  <2>9. chunks' \in Seq(Chunk) /\ Len(chunks') = Len(all) - e /\ Suffix(chunks', log')
    <3>1. all \in Seq(Chunk) /\ log \o datas \in Seq(Seq(Byte)) /\ e \in 0..Len(all)
          /\ Suffix(all, log \o datas)
      BY <2>5, <2>6, <2>7
    <3>2. /\ SubSeq(all, 1 + e, Len(all)) \in Seq(Chunk)
          /\ Len(SubSeq(all, 1 + e, Len(all))) = Len(all) - e
          /\ Suffix(SubSeq(all, 1 + e, Len(all)), log \o datas)
      BY <3>1, SuffixDropped
    <3> QED BY <2>2, <2>8, <3>2
  <2>10. /\ log' \in Seq(Seq(Byte)) /\ head' = Len(log')
         /\ Len(chunks') <= Capacity /\ Len(chunks') > 0
    BY <2>2, <2>3, <2>6, <2>7, <2>9
  <2>11. StoreInv'
    BY <2>9, <2>10 DEF StoreInv, LogIsStored, StoreIsContiguous, ResidentIsLog, Suffix
  <2>12. Len(chunks') <= Len(chunks) + Len(datas)
    BY <2>6, <2>7, <2>9
  <2> QED BY <1>2, <2>2, <2>11, <2>12
<1> QED BY <1>1, <1>2
----------------------------------------------------------------------------
(* Reading. *)

\* The books of one Read: what it handed over and what it reported skipped.
LEMMA Balance ==
  ASSUME NEW old \in Nat, NEW start \in Nat, NEW had \in Nat, NEW missed \in Nat,
         NEW gap \in Nat, NEW first \in Nat, NEW last \in Nat,
         NEW a, NEW z, NEW k,
         old = start + had + missed,
         a = old + 1 + gap, z = a + (last - first), k = had + (last - first + 1)
  PROVE  z = start + k + (missed + gap)
  OBVIOUS

\* What a Read hands over: the next indices the store still has, and a count
\* of those it no longer has.
LEMMA BatchIsNext ==
  ASSUME StoreInv, NEW c \in 0..head,
         NEW first \in 1..Len(chunks), NEW last \in 1..Len(chunks),
         IsBatch(c, first, last)
  PROVE  /\ first <= last
         /\ chunks[first].index = c + 1 + Higher(0, chunks[1].index - (c + 1))
         /\ chunks[last].index = chunks[first].index + (last - first)
         /\ chunks[last].index <= head /\ chunks[last].index > c
         /\ Higher(0, chunks[1].index - (c + 1)) \in Nat
<1> DEFINE b == head - Len(chunks)
<1>1. /\ \A i \in 1..Len(chunks) : chunks[i].index = b + i
      /\ b \in Nat /\ head \in Nat /\ Len(chunks) \in Nat
  BY DEF StoreInv, StoreIsContiguous, LogIsStored
<1>2. first <= last
  BY ConstantsAssumption DEF IsBatch, Lower
<1>3. chunks[first].index = b + first /\ chunks[last].index = b + last
      /\ chunks[1].index = b + 1
  BY <1>1
<1>4. b + first > c
  BY <1>3 DEF IsBatch
<1>5. first > 1 => b + (first - 1) <= c
  <2>1. first > 1 => first - 1 \in 1..Len(chunks) /\ chunks[first - 1].index <= c
    BY DEF IsBatch
  <2> QED BY <2>1, <1>1
<1> HIDE DEF b
<1>6. b + Len(chunks) = head
  BY <1>1 DEF b
<1> QED BY <1>1, <1>2, <1>3, <1>4, <1>5, <1>6 DEF Higher

\* Join's cursor is a place in the log, and no older than the store.
LEMMA JoinWithinLog ==
  ASSUME StoreInv, NEW behind, NEW c, IsJoinCursor(behind, c)
  PROVE  c \in 0..head /\ (Len(chunks) > 0 => c >= chunks[1].index - 1)
<1>1. /\ \A i \in 1..Len(chunks) : chunks[i].index = head - Len(chunks) + i
      /\ head \in Nat /\ Len(chunks) \in Nat /\ Len(chunks) <= head
  BY DEF StoreInv, StoreIsContiguous, LogIsStored
<1>2. CASE Len(chunks) = 0 /\ c = head
  BY <1>1, <1>2
<1>3. ASSUME NEW i \in 1..Len(chunks), c = chunks[i].index - 1
      PROVE  c \in 0..head /\ c >= chunks[1].index - 1
  <2> DEFINE b == head - Len(chunks)
  <2>1. b \in Nat /\ b + Len(chunks) = head
    BY <1>1
  <2>2. chunks[1].index = b + 1 /\ chunks[i].index = b + i
    BY <1>1, <1>3
  <2> HIDE DEF b
  <2>3. c = b + i - 1
    BY <1>3, <2>1, <2>2
  <2> QED BY <1>1, <2>1, <2>2, <2>3
<1> QED BY <1>1, <1>2, <1>3 DEF IsJoinCursor
----------------------------------------------------------------------------
(* The invariant. *)

\* What the steps that publish nothing leave alone.
LEMMA StoreUntouched ==
  ASSUME StoreInv, UNCHANGED <<chunks, head, log>>
  PROVE  StoreInv'
  BY DEF StoreInv, LogIsStored, StoreIsContiguous, ResidentIsLog

\* A step of the run loop that publishes, or nothing: the readers' promises
\* survive it because the ring is open and every subscription is ended.
LEMMA PublishKeepsReaders ==
  ASSUME TypeOK, StoreInv, ReaderInv, ~closed,
         NEW datas \in Seq(Seq(Byte)), Publish(datas),
         UNCHANGED <<closed, pc, cursor, from, got, lost>>
  PROVE  ReaderInv' /\ woken' \in [Readers -> BOOLEAN]
<1>1. /\ head' = head + Len(datas)
      /\ IF Len(datas) = 0 THEN UNCHANGED <<chunks, head, woken>>
                            ELSE woken' = [r \in Readers |-> TRUE]
  BY PublishStore DEF TypeOK
<1>2. head' \in Nat /\ head \in Nat /\ head' >= head
  BY <1>1 DEF TypeOK
<1>3. CursorsWithinLog'
  BY <1>2 DEF ReaderInv, CursorsWithinLog, TypeOK
<1>4. EveryIndexAccountedFor'
  BY DEF ReaderInv, EveryIndexAccountedFor
<1>5. NoLostWakeup'
  BY <1>1 DEF ReaderInv, NoLostWakeup, TypeOK
<1>6. FinalReadIsEmpty'
  BY DEF ReaderInv, FinalReadIsEmpty
<1>7. woken' \in [Readers -> BOOLEAN]
  BY <1>1 DEF TypeOK
<1>8. OutIsFresh'
  BY DEF ReaderInv, OutIsFresh
<1> QED BY <1>3, <1>4, <1>5, <1>6, <1>7, <1>8 DEF ReaderInv

\* A new ring, with no reader.
LEMMA InitIInv == Init => IInv
<1> SUFFICES ASSUME Init PROVE IInv
  OBVIOUS
<1>1. TypeOK
  <2>1. << >> \in Seq(Chunk) /\ << >> \in Seq(Byte) /\ << >> \in Seq(Nat)
        /\ << >> \in Seq(Seq(Byte))
    BY EmptySeq
  <2> QED BY <2>1 DEF Init, TypeOK
<1>2. LogIsStored /\ ResidentIsLog
  BY DEF Init, LogIsStored, ResidentIsLog
<1>3. StoreIsContiguous
  BY ConstantsAssumption DEF Init, StoreIsContiguous
<1>4. ClosedIsEnded /\ CursorsWithinLog /\ NoLostWakeup /\ FinalReadIsEmpty /\ OutIsFresh
  BY DEF Init, OutIsFresh, ClosedIsEnded, CursorsWithinLog, NoLostWakeup, FinalReadIsEmpty
<1>5. EveryIndexAccountedFor
  BY DEF Init, EveryIndexAccountedFor
<1>6. StoreInv
  BY <1>1, <1>2, <1>3 DEF StoreInv, TypeOK
<1> QED BY <1>1, <1>4, <1>5, <1>6 DEF IInv, ReaderInv

\* The actions of the run loop.
LEMMA LoopKeepsIInv ==
  ASSUME IInv, Tick \/ LoopNext
  PROVE  IInv'
<1> USE DEF IInv
<1>1. CASE Tick
  <2>1. TypeOK'
    BY <1>1 DEF Tick, ringVars, loopVars, readerVars, TypeOK
  <2>2. StoreInv'
    BY <1>1, StoreUntouched DEF Tick, ringVars
  <2>3. ReaderInv'
    BY <1>1 DEF Tick, ringVars, loopVars, readerVars, ReaderInv, CursorsWithinLog,
                EveryIndexAccountedFor, NoLostWakeup, FinalReadIsEmpty, OutIsFresh
  <2>4. ClosedIsEnded'
    BY <1>1 DEF Tick, ringVars, loopVars, ClosedIsEnded
  <2> QED BY <2>1, <2>2, <2>3, <2>4
<1>2. CASE MarkBoundary
  <2> DEFINE datas == IF Len(pending) > 0 /\ ~closed THEN <<pending>> ELSE << >>
  <2>1. datas \in Seq(Seq(Byte)) /\ Publish(datas)
    BY <1>2 DEF MarkBoundary, TypeOK
  <2> HIDE DEF datas
  <2>2. ~closed
    BY <1>2 DEF MarkBoundary, ClosedIsEnded
  <2>3. StoreInv'
    BY <2>1, PublishStore DEF TypeOK
  <2>4. ReaderInv' /\ woken' \in [Readers -> BOOLEAN]
    BY <1>2, <2>1, <2>2, PublishKeepsReaders DEF MarkBoundary
  <2>5. TypeOK'
    <3>1. chunks' \in Seq(Chunk) /\ head' \in Nat /\ log' \in Seq(Seq(Byte))
      BY <2>3 DEF StoreInv
    <3>2. << >> \in Seq(Byte)
      BY EmptySeq
    <3>3. /\ phase' = "marked" /\ conn' = conn + 1 /\ sent' = 0
          /\ partial' = << >> /\ pending' = << >>
          /\ mark' = head' + 1
          /\ UNCHANGED <<closed, total, now, boundaries, pc, cursor, from, got, lost>>
      BY <1>2 DEF MarkBoundary
    <3>4. /\ partial' \in Seq(Byte) /\ pending' \in Seq(Byte) /\ closed' \in BOOLEAN
          /\ total' \in Nat /\ now' \in Nat /\ conn' \in Nat /\ sent' \in Nat
          /\ phase' \in {"idle", "marked", "attempt", "ended"}
          /\ mark' \in Nat /\ boundaries' \in Seq(Nat)
      <4>1. conn' \in Nat /\ mark' \in Nat /\ sent' \in Nat
        <5>1. conn \in Nat /\ head' \in Nat
          BY <3>1 DEF TypeOK
        <5>2. conn' = conn + 1 /\ mark' = head' + 1 /\ sent' = 0
          BY <3>3
        <5>3. conn' \in Nat
          BY <5>1, <5>2
        <5>4. mark' \in Nat
          <6>1. \A x \in Nat : x + 1 \in Nat
            OBVIOUS
          <6> QED BY <5>1, <5>2, <6>1, Zenon
        <5>5. sent' \in Nat
          BY <5>2
        <5> QED BY <5>3, <5>4, <5>5
      <4>2. phase' \in {"idle", "marked", "attempt", "ended"}
        BY <3>3
      <4>3. /\ closed' \in BOOLEAN /\ total' \in Nat /\ now' \in Nat
            /\ boundaries' \in Seq(Nat)
        BY <3>3 DEF TypeOK
      <4> QED BY <3>2, <3>3, <4>1, <4>2, <4>3
    <3>5. /\ pc' \in [Readers -> {"out", "reading", "empty", "waiting", "closing",
                                  "ended", "left"}]
          /\ cursor' \in [Readers -> Nat] /\ from' \in [Readers -> Nat]
          /\ got' \in [Readers -> Seq(Seq(Byte))] /\ lost' \in [Readers -> Nat]
      BY <3>3 DEF TypeOK
    <3> QED BY <2>4, <3>1, <3>4, <3>5 DEF TypeOK
  <2>6. ClosedIsEnded'
    BY <1>2, <2>2 DEF MarkBoundary, ClosedIsEnded
  <2> QED BY <2>3, <2>4, <2>5, <2>6
<1>3. CASE RecordBoundary
  <2>1. boundaries' \in Seq(Nat)
    <3> DEFINE grown == Append(boundaries, mark)
               n == 1 + Higher(0, Len(grown) - MaxBoundaries)
    <3>1. grown \in Seq(Nat) /\ n \in Nat \ {0}
      BY ConstantsAssumption DEF TypeOK, Higher
    <3>2. SubSeq(grown, n, Len(grown)) \in Seq(Nat)
      <4> HIDE DEF grown, n
      <4>1. \A i \in n..Len(grown) : grown[i] \in Nat
        BY <3>1
      <4> QED BY <3>1, <4>1, SubSeqProperties
    <3> QED BY <1>3, <3>2 DEF RecordBoundary, TypeOK
  <2>2. TypeOK'
    BY <1>3, <2>1 DEF RecordBoundary, ringVars, readerVars, TypeOK
  <2>3. StoreInv'
    BY <1>3, StoreUntouched DEF RecordBoundary, ringVars
  <2>4. ReaderInv'
    BY <1>3 DEF RecordBoundary, ringVars, readerVars, ReaderInv, CursorsWithinLog,
                EveryIndexAccountedFor, NoLostWakeup, FinalReadIsEmpty, OutIsFresh
  <2>5. ClosedIsEnded'
    BY <1>3 DEF RecordBoundary, ringVars, ClosedIsEnded
  <2> QED BY <2>2, <2>3, <2>4, <2>5
<1>4. ASSUME NEW n \in 1..MaxWrite, Write(n) PROVE IInv'
  <2> DEFINE fresh    == [i \in 1..n |-> [conn |-> conn, off |-> sent + i]]
             combined == partial \o fresh
             packets  == pending \o WholePart(combined, TSPacketSize)
  <2>1. n \in Nat
    BY ConstantsAssumption
  <2>2. fresh \in Seq(Byte)
    BY <2>1 DEF TypeOK, Byte
  <2> HIDE DEF fresh
  <2>3. combined \in Seq(Byte)
    BY <2>2, ConcatProperties DEF TypeOK
  <2> HIDE DEF combined
  <2>4. WholePart(combined, TSPacketSize) \in Seq(Byte)
        /\ Leftover(combined, TSPacketSize) \in Seq(Byte)
    BY <2>3, WholePartType, LeftoverType, ConstantsAssumption
  <2>5. packets \in Seq(Byte)
    BY <2>4, ConcatProperties DEF TypeOK
  <2> HIDE DEF packets
  <2>6. FullChunks(packets) \in Seq(Seq(Byte)) /\ Leftover(packets, ChunkBytes) \in Seq(Byte)
    BY <2>5, FullChunksType, LeftoverType, ConstantsAssumption
  <2>7. /\ partial' = Leftover(combined, TSPacketSize)
        /\ pending' = Leftover(packets, ChunkBytes)
        /\ Publish(FullChunks(packets))
        /\ total' = total + n /\ sent' = sent + n
        /\ UNCHANGED <<closed, now, phase, conn, mark, boundaries,
                       pc, cursor, from, got, lost>>
        /\ ~closed
    BY <1>4 DEF Write, packets, combined, fresh
  <2>8. StoreInv'
    BY <2>6, <2>7, PublishStore DEF TypeOK
  <2>9. ReaderInv' /\ woken' \in [Readers -> BOOLEAN]
    BY <2>6, <2>7, PublishKeepsReaders
  <2>10. TypeOK'
    <3>1. chunks' \in Seq(Chunk) /\ head' \in Nat /\ log' \in Seq(Seq(Byte))
      BY <2>8 DEF StoreInv
    <3> QED BY <2>1, <2>4, <2>6, <2>7, <2>9, <3>1 DEF TypeOK
  <2>11. ClosedIsEnded'
    BY <2>7 DEF ClosedIsEnded
  <2> QED BY <2>8, <2>9, <2>10, <2>11
<1>5. CASE EndAttempt
  <2>1. TypeOK'
    BY <1>5 DEF EndAttempt, ringVars, readerVars, TypeOK
  <2>2. StoreInv'
    BY <1>5, StoreUntouched DEF EndAttempt, ringVars
  <2>3. ReaderInv'
    BY <1>5 DEF EndAttempt, ringVars, readerVars, ReaderInv, CursorsWithinLog,
                EveryIndexAccountedFor, NoLostWakeup, FinalReadIsEmpty, OutIsFresh
  <2>4. ClosedIsEnded'
    BY <1>5 DEF EndAttempt, ringVars, ClosedIsEnded
  <2> QED BY <2>1, <2>2, <2>3, <2>4
<1>6. CASE ResetPosition
  <2>1. TypeOK'
    BY <1>6 DEF ResetPosition, readerVars, TypeOK
  <2>2. StoreInv'
    BY <1>6, StoreUntouched DEF ResetPosition
  <2>3. ReaderInv'
    BY <1>6 DEF ResetPosition, readerVars, ReaderInv, CursorsWithinLog,
                EveryIndexAccountedFor, NoLostWakeup, FinalReadIsEmpty, OutIsFresh
  <2>4. ClosedIsEnded'
    BY <1>6 DEF ResetPosition, ClosedIsEnded
  <2> QED BY <2>1, <2>2, <2>3, <2>4
<1>7. CASE Close
  <2>1. TypeOK'
    BY <1>7 DEF Close, TypeOK
  <2>2. StoreInv'
    BY <1>7, StoreUntouched DEF Close
  <2>3. ReaderInv'
    BY <1>7 DEF Close, ReaderInv, CursorsWithinLog, TypeOK,
                EveryIndexAccountedFor, NoLostWakeup, FinalReadIsEmpty, OutIsFresh
  <2>4. ClosedIsEnded'
    BY <1>7 DEF Close, ClosedIsEnded
  <2> QED BY <2>1, <2>2, <2>3, <2>4
<1> QED BY <1>1, <1>2, <1>3, <1>4, <1>5, <1>6, <1>7 DEF LoopNext

\* A step that changes nothing but readers keeps what does not speak of them.
LEMMA ReaderStepsKeepLoop ==
  ASSUME IInv, UNCHANGED <<ringVars, now, loopVars>>
  PROVE  StoreInv' /\ ClosedIsEnded'
<1>1. UNCHANGED <<chunks, head, log, closed, phase>>
  BY DEF ringVars, loopVars
<1>2. StoreInv'
  BY <1>1, StoreUntouched DEF IInv
<1>3. ClosedIsEnded'
  BY <1>1 DEF IInv, ClosedIsEnded
<1> QED BY <1>2, <1>3

\* The actions of one reader.
LEMMA ReaderKeepsIInv ==
  ASSUME IInv, NEW r \in Readers,
         \/ \E behind \in JoinBehinds : Join(r, behind)
         \/ ReaderStep(r) \/ Timeout(r) \/ Leave(r)
  PROVE  IInv'
<1> USE DEF IInv
<1>1. ASSUME NEW behind \in JoinBehinds, Join(r, behind) PROVE IInv'
  <2>1. StoreInv' /\ ClosedIsEnded'
    BY <1>1, ReaderStepsKeepLoop DEF Join
  <2>2. PICK start \in 0..head :
          /\ cursor' = [cursor EXCEPT ![r] = start]
          /\ from' = [from EXCEPT ![r] = start]
          /\ pc[r] = "out" /\ pc' = [pc EXCEPT ![r] = "reading"]
          /\ UNCHANGED <<ringVars, now, loopVars, woken, got, lost>>
    BY <1>1 DEF Join
  <2>3. TypeOK'
    BY <2>2 DEF TypeOK, ringVars, loopVars
  <2>4. CursorsWithinLog' /\ NoLostWakeup' /\ FinalReadIsEmpty' /\ OutIsFresh'
    BY <2>2 DEF TypeOK, ringVars, ReaderInv, CursorsWithinLog, NoLostWakeup,
                FinalReadIsEmpty, OutIsFresh
  <2>5. EveryIndexAccountedFor'
    BY <2>2 DEF TypeOK, ReaderInv, EveryIndexAccountedFor, OutIsFresh
  <2> QED BY <2>1, <2>3, <2>4, <2>5 DEF ReaderInv
<1>2. CASE ReadChunks(r)
  <2>1. StoreInv' /\ ClosedIsEnded'
    BY <1>2, ReaderStepsKeepLoop DEF ReadChunks
  <2>2. PICK first \in 1..Len(chunks), last \in 1..Len(chunks) :
          /\ IsBatch(cursor[r], first, last)
          /\ cursor' = [cursor EXCEPT ![r] = chunks[last].index]
          /\ got' = [got EXCEPT ![r] =
               @ \o [i \in 1..(last - first + 1) |-> chunks[first + i - 1].data]]
          /\ lost' = [lost EXCEPT ![r] =
               @ + Higher(0, chunks[1].index - (cursor[r] + 1))]
    BY <1>2 DEF ReadChunks, Deliver
  <2>3. pc[r] = "reading" /\ UNCHANGED <<ringVars, now, loopVars, pc, woken, from>>
    BY <1>2 DEF ReadChunks
  <2> DEFINE gap == Higher(0, chunks[1].index - (cursor[r] + 1))
             batch == [i \in 1..(last - first + 1) |-> chunks[first + i - 1].data]
  <2>4. cursor[r] \in 0..head
    BY DEF TypeOK, ReaderInv, CursorsWithinLog
  <2>5. /\ first <= last
        /\ chunks[first].index = cursor[r] + 1 + gap
        /\ chunks[last].index = chunks[first].index + (last - first)
        /\ chunks[last].index <= head /\ chunks[last].index > cursor[r]
        /\ gap \in Nat
    BY <2>2, <2>4, BatchIsNext
  <2>6. batch \in Seq(Seq(Byte)) /\ Len(batch) = last - first + 1
    <3>1. \A i \in 1..(last - first + 1) : chunks[first + i - 1].data \in Seq(Byte)
      <4> SUFFICES ASSUME NEW i \in 1..(last - first + 1)
                   PROVE  chunks[first + i - 1].data \in Seq(Byte)
        OBVIOUS
      <4>1. chunks[first + i - 1] \in Chunk
        <5>1. first + i - 1 \in 1..Len(chunks)
          BY <2>5
        <5> QED BY <5>1 DEF TypeOK
      <4> QED BY <4>1 DEF Chunk
    <3>2. last - first + 1 \in Nat
      BY <2>5
    <3> DEFINE n == last - first + 1
               b == [i \in 1..n |-> chunks[first + i - 1].data]
    <3> HIDE DEF n
    <3>3. n \in Nat /\ \A i \in 1..n : chunks[first + i - 1].data \in Seq(Byte)
      BY <3>1, <3>2 DEF n
    <3>4. b \in Seq(Seq(Byte)) /\ Len(b) = n
      BY <3>3
    <3> QED BY <3>4 DEF n
  <2>7. got[r] \in Seq(Seq(Byte))
    BY DEF TypeOK
  <2>8. got[r] \o batch \in Seq(Seq(Byte))
        /\ Len(got[r] \o batch) = Len(got[r]) + (last - first + 1)
    <3> HIDE DEF batch
    <3>1. got[r] \o batch \in Seq(Seq(Byte))
          /\ Len(got[r] \o batch) = Len(got[r]) + Len(batch)
      BY <2>6, <2>7, ConcatProperties
    <3> QED BY <2>6, <3>1
  <2>9. chunks[last].index \in Nat /\ lost[r] + gap \in Nat
    <3>1. chunks[last] \in Chunk /\ lost[r] \in Nat
      BY DEF TypeOK
    <3> QED BY <3>1, <2>5 DEF Chunk
  <2> HIDE DEF gap, batch
  <2>10. /\ cursor' = [cursor EXCEPT ![r] = chunks[last].index]
         /\ got' = [got EXCEPT ![r] = got[r] \o batch]
         /\ lost' = [lost EXCEPT ![r] = lost[r] + gap]
    BY <2>2 DEF gap, batch
  <2>11. TypeOK'
    <3>1. /\ cursor' \in [Readers -> Nat] /\ got' \in [Readers -> Seq(Seq(Byte))]
          /\ lost' \in [Readers -> Nat]
      BY <2>8, <2>9, <2>10 DEF TypeOK
    <3> QED BY <2>3, <3>1 DEF TypeOK, ringVars, loopVars
  <2>12. CursorsWithinLog'
    BY <2>3, <2>5, <2>10 DEF TypeOK, ringVars, ReaderInv, CursorsWithinLog
  <2>13. NoLostWakeup' /\ FinalReadIsEmpty' /\ OutIsFresh'
    BY <2>3, <2>10 DEF TypeOK, ringVars, ReaderInv, NoLostWakeup, FinalReadIsEmpty, OutIsFresh
  <2>14. EveryIndexAccountedFor'
    <3>1. cursor[r] = from[r] + Len(got[r]) + lost[r]
      BY DEF ReaderInv, EveryIndexAccountedFor
    <3>2. /\ cursor[r] \in Nat /\ from[r] \in Nat /\ lost[r] \in Nat
          /\ Len(got[r]) \in Nat
      BY <2>7 DEF TypeOK
    <3>3. chunks[last].index = from[r] + Len(got[r] \o batch) + (lost[r] + gap)
      <4>1. /\ chunks[first].index = cursor[r] + 1 + gap
            /\ chunks[last].index = chunks[first].index + (last - first)
            /\ Len(got[r] \o batch) = Len(got[r]) + (last - first + 1)
            /\ gap \in Nat
        BY <2>5, <2>8
      <4> DEFINE Old == cursor[r]  Start == from[r]  Missed == lost[r]
                 Had == Len(got[r])  K == Len(got[r] \o batch)
                 A == chunks[first].index  Z == chunks[last].index
      <4>2. /\ Old \in Nat /\ Start \in Nat /\ Missed \in Nat /\ Had \in Nat
            /\ first \in Nat /\ last \in Nat /\ gap \in Nat
            /\ Old = Start + Had + Missed
            /\ A = Old + 1 + gap /\ Z = A + (last - first)
            /\ K = Had + (last - first + 1)
        <5>1. Old \in Nat /\ Start \in Nat /\ Missed \in Nat /\ Had \in Nat
          BY <3>2
        <5>2. first \in Nat /\ last \in Nat /\ gap \in Nat
          BY <4>1
        <5>3. /\ Old = Start + Had + Missed
              /\ A = Old + 1 + gap /\ Z = A + (last - first)
              /\ K = Had + (last - first + 1)
          BY <3>1, <4>1
        <5> QED BY <5>1, <5>2, <5>3
      <4> HIDE DEF Old, Start, Missed, Had, K, A, Z
      <4>3. Z = Start + K + (Missed + gap)
        BY <4>2, Balance
      <4> QED BY <4>3 DEF Z, Start, K, Missed
    <3> QED BY <2>3, <2>10, <3>3 DEF TypeOK, ReaderInv, EveryIndexAccountedFor
  <2> QED BY <2>1, <2>11, <2>12, <2>13, <2>14 DEF ReaderInv
<1>3. ASSUME \/ ReadNothing(r) \/ Wait(r) \/ Wake(r) \/ FinalRead(r)
             \/ Timeout(r) \/ Leave(r)
      PROVE  IInv'
  <2>1. UNCHANGED <<ringVars, now, loopVars, cursor, from, got, lost>>
    BY <1>3 DEF ReadNothing, Wait, Wake, FinalRead, Timeout, Leave
  <2>2. StoreInv' /\ ClosedIsEnded'
    BY <2>1, ReaderStepsKeepLoop
  <2>3. /\ pc' \in [Readers -> {"out", "reading", "empty", "waiting", "closing",
                                "ended", "left"}]
        /\ woken' \in [Readers -> BOOLEAN]
    BY <1>3 DEF ReadNothing, Wait, Wake, FinalRead, Timeout, Leave, TypeOK
  <2>4. TypeOK'
    BY <2>1, <2>3 DEF TypeOK, ringVars, loopVars
  <2>5. CursorsWithinLog' /\ EveryIndexAccountedFor'
    BY <2>1 DEF ReaderInv, CursorsWithinLog, EveryIndexAccountedFor, ringVars
  <2>6. OutIsFresh'
    BY <1>3, <2>1 DEF ReaderInv, OutIsFresh, TypeOK,
                      ReadNothing, Wait, Wake, FinalRead, Timeout, Leave
  <2>7. NoLostWakeup' /\ FinalReadIsEmpty'
    <3>1. cursor[r] \in Nat /\ head \in Nat /\ cursor[r] <= head
      BY DEF TypeOK, ReaderInv, CursorsWithinLog
    <3>2. UNCHANGED <<head, closed, cursor>>
      BY <2>1 DEF ringVars
    <3>3. \A q \in Readers \ {r} : pc'[q] = pc[q] /\ woken'[q] = woken[q]
      BY <1>3 DEF TypeOK, ReadNothing, Wait, Wake, FinalRead, Timeout, Leave
    <3>4. pc'[r] = "waiting" /\ ~woken'[r] => cursor[r] = head /\ ~closed
      BY <1>3, <3>1 DEF TypeOK, ReadNothing, Wait, Wake, FinalRead, Timeout, Leave
    <3>5. pc'[r] \in {"closing", "ended"} => closed /\ cursor[r] = head
      BY <1>3, <3>1 DEF TypeOK, ReaderInv, FinalReadIsEmpty,
                        ReadNothing, Wait, Wake, FinalRead, Timeout, Leave
    <3>6. NoLostWakeup'
      BY <3>2, <3>3, <3>4 DEF ReaderInv, NoLostWakeup
    <3>7. FinalReadIsEmpty'
      BY <3>2, <3>3, <3>5 DEF ReaderInv, FinalReadIsEmpty
    <3> QED BY <3>6, <3>7
  <2> QED BY <2>2, <2>4, <2>5, <2>6, <2>7 DEF ReaderInv
<1> QED BY <1>1, <1>2, <1>3 DEF ReaderStep

\* Every step of the run loop, of a reader or of the clock keeps the invariant.
LEMMA NextIInv == IInv /\ [Next]_vars => IInv'
<1> SUFFICES ASSUME IInv, [Next]_vars PROVE IInv'
  OBVIOUS
<1>1. CASE Tick \/ LoopNext
  BY <1>1, LoopKeepsIInv
<1>2. ASSUME NEW r \in Readers,
             \/ \E behind \in JoinBehinds : Join(r, behind)
             \/ ReaderStep(r) \/ Timeout(r) \/ Leave(r)
      PROVE  IInv'
  BY <1>2, ReaderKeepsIInv
<1>3. CASE UNCHANGED vars
  <2>1. UNCHANGED <<ringVars, now, loopVars, readerVars>>
    BY <1>3 DEF vars
  <2>2. StoreInv' /\ ClosedIsEnded'
    BY <2>1, ReaderStepsKeepLoop
  <2>3. TypeOK'
    BY <2>1 DEF IInv, TypeOK, ringVars, loopVars, readerVars
  <2>4. ReaderInv'
    BY <2>1 DEF IInv, ReaderInv, ringVars, readerVars, CursorsWithinLog,
                EveryIndexAccountedFor, NoLostWakeup, FinalReadIsEmpty, OutIsFresh
  <2> QED BY <2>2, <2>3, <2>4 DEF IInv
<1> QED BY <1>1, <1>2, <1>3 DEF Next

\* The inductive invariant: the store is the end of the log, every cursor is
\* within the log, and the readers' books balance.
THEOREM RingInvariant == Spec => []IInv
<1>1. Init => IInv
  BY InitIInv
<1>2. IInv /\ [Next]_vars => IInv'
  BY NextIInv
<1> QED BY <1>1, <1>2, PTL DEF Spec

\* Types, for every size and number of readers.
THEOREM RingTypes == Spec => []TypeOK
<1>1. IInv => TypeOK
  BY DEF IInv
<1> QED BY <1>1, RingInvariant, PTL

\* The resident chunks are one contiguous run that ends at head, at most
\* Capacity long, and hold what was published.
THEOREM RingStore == Spec => [](StoreIsContiguous /\ ResidentIsLog)
<1>1. IInv => StoreIsContiguous /\ ResidentIsLog
  BY DEF IInv, StoreInv
<1> QED BY <1>1, RingInvariant, PTL

\* A reader is handed or told of every index between where it joined and its
\* cursor.
THEOREM RingAccounts == Spec => []EveryIndexAccountedFor
<1>1. IInv => EveryIndexAccountedFor
  BY DEF IInv, ReaderInv
<1> QED BY <1>1, RingInvariant, PTL

\* A reader blocked on an open notify channel has nothing to read.
THEOREM RingNoLostWakeup == Spec => []NoLostWakeup
<1>1. IInv => NoLostWakeup
  BY DEF IInv, ReaderInv
<1> QED BY <1>1, RingInvariant, PTL

\* ErrClosed is reported only when nothing is left to read.
THEOREM RingFinalRead == Spec => []FinalReadIsEmpty
<1>1. IInv => FinalReadIsEmpty
  BY DEF IInv, ReaderInv
<1> QED BY <1>1, RingInvariant, PTL

----------------------------------------------------------------------------
(* The ring implements FanOut. *)

\* The oldest index a reader can still be handed.
LEMMA FloorIs == StoreInv => Floor = head - Len(chunks) + 1
<1> SUFFICES ASSUME StoreInv PROVE Floor = head - Len(chunks) + 1
  OBVIOUS
<1>1. Len(chunks) \in Nat /\ head \in Nat
  BY DEF StoreInv
<1>2. CASE Len(chunks) = 0
  BY <1>1, <1>2 DEF Floor
<1>3. CASE Len(chunks) > 0
  <2>1. chunks[1].index = head - Len(chunks) + 1
    BY <1>3 DEF StoreInv, StoreIsContiguous
  <2> QED BY <1>1, <1>3, <2>1 DEF Floor
<1> QED BY <1>1, <1>2, <1>3

\* The oldest index only moves up: the store grows by no more than the head does.
LEMMA FloorBounds ==
  ASSUME NEW h \in Nat, NEW n \in Nat, NEW hh, NEW nn \in Nat, NEW d \in Nat,
         hh = h + d, nn <= n + d, n <= h
  PROVE  (hh - nn) + 1 >= (h - n) + 1
  OBVIOUS

\* The oldest index is at most the head, and within a store of c.
LEMMA FloorRange ==
  ASSUME NEW h \in Nat, NEW n \in Nat, NEW c \in Nat, NEW f, n > 0, n <= c, f = h - n + 1
  PROVE  f <= h /\ f > h - c
  OBVIOUS

\* A publish of at least one chunk is a Publish of the abstract log; a publish
\* of none is nothing to it.
LEMMA PublishImplements ==
  ASSUME TypeOK, StoreInv, ~closed, NEW datas \in Seq(Seq(Byte)), Publish(datas),
         UNCHANGED <<closed, pc, cursor, got>>
  PROVE  [FanOutBar!Next]_FanOutBar!vars
<1> DEFINE at == [r \in Readers |-> FanOutReader(r)]
<1>1. /\ StoreInv' /\ head' = head + Len(datas) /\ log' = log \o datas
      /\ Len(chunks') <= Len(chunks) + Len(datas)
      /\ IF Len(datas) = 0 THEN UNCHANGED <<chunks, head, woken>>
                            ELSE woken' = [r \in Readers |-> TRUE]
  BY PublishStore DEF TypeOK
<1>2. UNCHANGED at
  BY DEF FanOutReader
<1>3. CASE Len(datas) = 0
  <2>1. datas = << >>
    BY <1>3, EmptySeq
  <2>2. log' = log
    BY <1>1, <2>1, ConcatEmptySeq DEF TypeOK
  <2>3. UNCHANGED Floor
    BY <1>1, <1>3 DEF Floor
  <2> QED BY <1>2, <2>2, <2>3 DEF FanOutBar!vars
<1>4. CASE Len(datas) > 0
  <2>1. Len(log') = Len(log) + Len(datas) /\ log' \in Seq(Seq(Byte))
        /\ \A i \in 1..Len(log) : log'[i] = log[i]
    BY <1>1, ConcatProperties DEF TypeOK
  <2>2. SubSeq(log', 1, Len(log)) = log
    <3>1. SubSeq(log', 1, Len(log)) \in Seq(Seq(Byte))
          /\ Len(SubSeq(log', 1, Len(log))) = Len(log)
          /\ \A i \in 1..Len(log) : SubSeq(log', 1, Len(log))[i] = log[i]
      <4>1. \A i \in 1..Len(log) : log'[i] \in Seq(Byte)
        BY <2>1 DEF TypeOK
      <4> QED BY <2>1, <4>1, SubSeqProperties DEF TypeOK
    <3> QED BY <3>1, SeqEqual DEF TypeOK
  <2>3. Floor = head - Len(chunks) + 1 /\ Floor' = head' - Len(chunks') + 1
    <3>1. (StoreInv => Floor = head - Len(chunks) + 1)'
      BY FloorIs, PTL
    <3> QED BY <1>1, <3>1, FloorIs
  <2>4. /\ head' \in Nat /\ Len(chunks') \in Nat /\ Len(chunks') <= Capacity
        /\ head' > 0 => Len(chunks') > 0
        /\ head' = Len(log')
    BY <1>1 DEF StoreInv, StoreIsContiguous, LogIsStored
  <2>5. Floor' >= Floor
    <3>1. head \in Nat /\ Len(chunks) \in Nat /\ Len(chunks) <= head /\ Len(datas) \in Nat
      BY DEF StoreInv, LogIsStored
    <3> QED BY <1>1, <2>3, <2>4, <3>1, FloorBounds
  <2>6. Floor' <= Len(log') /\ Floor' > Len(log') - Capacity
    <3>1. head' > 0
      BY <1>1, <1>4 DEF TypeOK
    <3>2. Len(chunks') > 0 /\ Len(log') \in Nat
      BY <2>4, <3>1
    <3> QED BY <2>3, <2>4, <3>2, ConstantsAssumption, FloorRange
  <2>7. FanOutBar!Publish
    BY <1>2, <1>4, <2>1, <2>2, <2>5, <2>6 DEF FanOutBar!Publish, TypeOK
  <2> QED BY <2>7 DEF FanOutBar!Next
<1> QED BY <1>3, <1>4

\* The indices of a batch are the next stretch of the log.
LEMMA BatchIsLog ==
  ASSUME StoreInv, NEW first \in 1..Len(chunks), NEW last \in 1..Len(chunks),
         first <= last
  PROVE  [i \in 1..(last - first + 1) |-> chunks[first + i - 1].data]
           = SubSeq(log, chunks[first].index, chunks[last].index)
<1> DEFINE batch == [i \in 1..(last - first + 1) |-> chunks[first + i - 1].data]
           b == head - Len(chunks)
<1>1. /\ \A i \in 1..Len(chunks) : /\ chunks[i].index = b + i
                                    /\ chunks[i].data = log[b + i]
      /\ b \in Nat /\ head = Len(log) /\ Len(chunks) \in Nat /\ b + Len(chunks) = head
      /\ log \in Seq(Seq(Byte))
  <2>1. /\ b \in Nat /\ head = Len(log) /\ Len(chunks) \in Nat /\ b + Len(chunks) = head
        /\ log \in Seq(Seq(Byte))
    BY DEF StoreInv, LogIsStored
  <2>2. \A i \in 1..Len(chunks) : chunks[i].index = b + i
    BY DEF StoreInv, StoreIsContiguous
  <2>3. \A i \in 1..Len(chunks) : chunks[i].data = log[b + i]
    BY <2>2 DEF StoreInv, ResidentIsLog
  <2> QED BY <2>1, <2>2, <2>3
<1> HIDE DEF b
<1>2. chunks[first].index = b + first /\ chunks[last].index = b + last
  BY <1>1
<1>3. \A i \in (b + first)..(b + last) : log[i] \in Seq(Byte)
  BY <1>1
<1>4. /\ SubSeq(log, b + first, b + last) \in Seq(Seq(Byte))
      /\ Len(SubSeq(log, b + first, b + last)) = last - first + 1
      /\ \A i \in 1..(last - first + 1) :
           SubSeq(log, b + first, b + last)[i] = log[b + first + i - 1]
  BY <1>1, <1>3, SubSeqProperties
<1>5. \A i \in 1..(last - first + 1) : /\ first + i - 1 \in 1..Len(chunks)
                                      /\ b + (first + i - 1) = b + first + i - 1
  BY <1>1
<1>6. \A i \in 1..(last - first + 1) : batch[i] = log[b + first + i - 1]
  BY <1>1, <1>5
<1>7. \A i \in 1..(last - first + 1) : log[b + first + i - 1] \in Seq(Byte)
  BY <1>1
<1>8. batch \in Seq(Seq(Byte)) /\ Len(batch) = last - first + 1
  <2>1. \A i \in 1..(last - first + 1) : chunks[first + i - 1].data \in Seq(Byte)
    BY <1>6, <1>7
  <2>2. last - first + 1 \in Nat
    BY <1>1
  <2> QED BY <2>1, <2>2
<1> HIDE DEF batch
<1>9. batch = SubSeq(log, b + first, b + last)
  BY <1>4, <1>6, <1>8, SeqEqual
<1> QED BY <1>2, <1>9 DEF batch

\* A cursor just before the oldest index, written with the store's length.
LEMMA OneLess ==
  ASSUME NEW h \in Nat, NEW n \in Nat, NEW s \in 0..h, NEW i, i = h - n + 1, s >= i - 1
  PROVE  s >= h - n
  OBVIOUS

\* The abstract log accepts the cursor of such a join.
LEMMA JoinInRange ==
  ASSUME NEW h \in Nat, NEW n \in Nat, NEW s \in 0..h, NEW f, f = h - n + 1, s >= h - n
  PROVE  s \in (f - 1)..h
  OBVIOUS

\* Every step of the ring and its users is a step of the log, or nothing to it.
LEMMA StepImplements ==
  ASSUME IInv, [Next]_vars
  PROVE  [FanOutBar!Next]_FanOutBar!vars
<1> DEFINE at == [r \in Readers |-> FanOutReader(r)]
<1> USE DEF IInv
<1>1. ASSUME UNCHANGED <<chunks, head, log, closed, cursor, got, pc>>
      PROVE  [FanOutBar!Next]_FanOutBar!vars
  BY <1>1 DEF FanOutBar!vars, Floor, FanOutReader
<1>2. CASE MarkBoundary
  <2> DEFINE datas == IF Len(pending) > 0 /\ ~closed THEN <<pending>> ELSE << >>
  <2>1. datas \in Seq(Seq(Byte)) /\ Publish(datas)
    BY <1>2 DEF MarkBoundary, TypeOK
  <2>2. ~closed /\ UNCHANGED <<closed, pc, cursor, got>>
    BY <1>2 DEF MarkBoundary, ClosedIsEnded
  <2> HIDE DEF datas
  <2> QED BY <2>1, <2>2, PublishImplements
<1>3. ASSUME NEW n \in 1..MaxWrite, Write(n)
      PROVE  [FanOutBar!Next]_FanOutBar!vars
  <2>1. PICK packets \in Seq(Byte) : Publish(FullChunks(packets))
    <3> DEFINE fresh    == [i \in 1..n |-> [conn |-> conn, off |-> sent + i]]
               combined == partial \o fresh
               packets  == pending \o WholePart(combined, TSPacketSize)
    <3>1. fresh \in Seq(Byte)
      BY ConstantsAssumption DEF TypeOK, Byte
    <3> HIDE DEF fresh
    <3>2. combined \in Seq(Byte)
      BY <3>1, ConcatProperties DEF TypeOK
    <3> HIDE DEF combined
    <3>3. WholePart(combined, TSPacketSize) \in Seq(Byte)
      BY <3>2, WholePartType, ConstantsAssumption
    <3>4. packets \in Seq(Byte)
      BY <3>3, ConcatProperties DEF TypeOK
    <3>5. Publish(FullChunks(packets))
      BY <1>3 DEF Write, packets, combined, fresh
    <3> QED BY <3>4, <3>5
  <2>2. FullChunks(packets) \in Seq(Seq(Byte))
    BY FullChunksType, ConstantsAssumption
  <2>3. ~closed /\ UNCHANGED <<closed, pc, cursor, got>>
    BY <1>3 DEF Write
  <2> QED BY <2>1, <2>2, <2>3, PublishImplements
<1>4. CASE Tick \/ RecordBoundary \/ EndAttempt \/ ResetPosition
  BY <1>1, <1>4 DEF Tick, RecordBoundary, EndAttempt, ResetPosition,
                    ringVars, loopVars, readerVars
<1>5. CASE Close
  <2>1. FanOutBar!Close
    BY <1>5 DEF FanOutBar!Close, Close, ClosedIsEnded, Floor, FanOutReader
  <2> QED BY <2>1 DEF FanOutBar!Next
<1>6. ASSUME NEW r \in Readers, NEW behind \in JoinBehinds, Join(r, behind)
      PROVE  FanOutBar!Join(r)
  <2>1. PICK start \in 0..head :
          /\ IF behind = 0 THEN start = head ELSE IsJoinCursor(behind, start)
          /\ cursor' = [cursor EXCEPT ![r] = start]
    BY <1>6 DEF Join
  <2>2. /\ pc[r] = "out" /\ pc' = [pc EXCEPT ![r] = "reading"]
        /\ UNCHANGED <<chunks, head, log, closed, got>>
    BY <1>6 DEF Join, ringVars
  <2>3. start \in (Floor - 1)..Len(log)
    <3>1. /\ head \in Nat /\ head = Len(log) /\ Len(chunks) \in Nat
          /\ Floor = head - Len(chunks) + 1
          /\ Len(chunks) > 0 => chunks[1].index = head - Len(chunks) + 1
      BY FloorIs DEF StoreInv, LogIsStored, StoreIsContiguous
    <3>2. start >= head - Len(chunks)
      <4>1. CASE behind = 0
        BY <2>1, <3>1, <4>1
      <4>2. CASE behind # 0
        <5>1. IsJoinCursor(behind, start)
          BY <2>1, <4>2
        <5>2. CASE Len(chunks) > 0
          <6>1. start >= chunks[1].index - 1
            BY <5>1, <5>2, JoinWithinLog
          <6>2. chunks[1].index = head - Len(chunks) + 1
            BY <3>1, <5>2
          <6> HIDE DEF Floor
          <6> QED BY <3>1, <6>1, <6>2, OneLess
        <5>3. CASE Len(chunks) = 0
          BY <3>1, <5>1, <5>3 DEF IsJoinCursor
        <5> QED BY <3>1, <5>2, <5>3
      <4> QED BY <4>1, <4>2
    <3> QED BY <3>1, <3>2, JoinInRange
  <2>4. at[r] = "out" /\ at' = [at EXCEPT ![r] = "in"] /\ UNCHANGED Floor
    BY <2>2 DEF FanOutReader, TypeOK, Floor
  <2> QED BY <2>1, <2>2, <2>3, <2>4 DEF FanOutBar!Join
<1>7. ASSUME NEW r \in Readers, ReadChunks(r)
      PROVE  FanOutBar!Deliver(r)
  <2>1. PICK first \in 1..Len(chunks), last \in 1..Len(chunks) :
          /\ IsBatch(cursor[r], first, last)
          /\ cursor' = [cursor EXCEPT ![r] = chunks[last].index]
          /\ got' = [got EXCEPT ![r] =
               @ \o [i \in 1..(last - first + 1) |-> chunks[first + i - 1].data]]
    BY <1>7 DEF ReadChunks, Deliver
  <2>2. pc[r] = "reading" /\ UNCHANGED <<chunks, head, log, closed, pc>>
    BY <1>7 DEF ReadChunks, ringVars
  <2>3. at[r] = "in" /\ UNCHANGED at /\ UNCHANGED Floor
    BY <2>2 DEF FanOutReader, Floor
  <2>4. cursor[r] \in 0..head
    BY DEF TypeOK, ReaderInv, CursorsWithinLog
  <2>5. /\ first <= last
        /\ chunks[first].index = cursor[r] + 1 + Higher(0, chunks[1].index - (cursor[r] + 1))
        /\ chunks[last].index = chunks[first].index + (last - first)
        /\ chunks[last].index <= head
    BY <2>1, <2>4, BatchIsNext
  <2>6. got' = [got EXCEPT ![r] =
                  @ \o SubSeq(log, chunks[first].index, chunks[last].index)]
    BY <2>1, <2>5, BatchIsLog
  <2>7. chunks[first].index = FanOutBar!NextFor(r)
    <3>1. Len(chunks) > 0 /\ Floor = chunks[1].index /\ cursor[r] \in Nat
          /\ chunks[1].index \in Nat
      <4>1. chunks[1] \in Chunk /\ Len(chunks) > 0
        BY DEF TypeOK
      <4>2. chunks[1].index \in Nat /\ cursor[r] \in Nat
        BY <4>1 DEF Chunk, TypeOK
      <4>3. Floor = chunks[1].index
        BY <4>1 DEF Floor
      <4> QED BY <4>1, <4>2, <4>3
    <3> QED BY <2>5, <3>1 DEF Higher, FanOutBar!NextFor
  <2>8. chunks[last].index \in FanOutBar!NextFor(r)..Len(log)
    <3>1. chunks[first] \in Chunk /\ head = Len(log) /\ head \in Nat
      BY DEF TypeOK, StoreInv, LogIsStored
    <3>2. chunks[first].index \in Nat
      BY <3>1 DEF Chunk
    <3>3. chunks[last].index \in chunks[first].index..head
      BY <2>5, <3>1, <3>2
    <3> QED BY <2>7, <3>1, <3>3
  <2> QED BY <2>1, <2>2, <2>3, <2>6, <2>7, <2>8 DEF FanOutBar!Deliver
<1>8. ASSUME NEW r \in Readers, FinalRead(r) PROVE FanOutBar!Drain(r)
  <2>1. closed /\ cursor[r] = Len(log)
    BY <1>8 DEF FinalRead, ReaderInv, FinalReadIsEmpty, StoreInv, LogIsStored
  <2>2. at[r] = "in" /\ at' = [at EXCEPT ![r] = "gone"]
    BY <1>8 DEF FinalRead, FanOutReader, TypeOK
  <2>3. UNCHANGED <<log, Floor, closed, cursor, got>>
    BY <1>8 DEF FinalRead, ringVars, Floor
  <2> QED BY <2>1, <2>2, <2>3 DEF FanOutBar!Drain
<1>9. ASSUME NEW r \in Readers, Leave(r) PROVE FanOutBar!Leave(r)
  <2>1. at[r] = "in" /\ at' = [at EXCEPT ![r] = "gone"]
    BY <1>9 DEF Leave, FanOutReader, TypeOK
  <2>2. UNCHANGED <<log, Floor, closed, cursor, got>>
    BY <1>9 DEF Leave, ringVars, Floor
  <2> QED BY <2>1, <2>2 DEF FanOutBar!Leave
<1>10. ASSUME NEW r \in Readers, ReadNothing(r) \/ Wait(r) \/ Wake(r) \/ Timeout(r)
       PROVE  UNCHANGED FanOutBar!vars
  <2>1. UNCHANGED at
    BY <1>10 DEF ReadNothing, Wait, Wake, Timeout, FanOutReader, TypeOK
  <2>2. UNCHANGED <<log, Floor, closed, cursor, got>>
    BY <1>10 DEF ReadNothing, Wait, Wake, Timeout, ringVars, Floor
  <2> QED BY <2>1, <2>2 DEF FanOutBar!vars
<1>11. CASE UNCHANGED vars
  BY <1>1, <1>11 DEF vars, ringVars, readerVars
<1> QED
  BY <1>2, <1>3, <1>4, <1>5, <1>6, <1>7, <1>8, <1>9, <1>10, <1>11
     DEF Next, LoopNext, ReaderStep, FanOutBar!Next

\* What a client sees of the ring is what the abstract log allows: chunks in
\* order, each once, and none missed that the ring still held.
THEOREM RingImplementsFanOut == Spec => ImplementsFanOut
<1>1. Init => FanOutBar!Init
  <2> SUFFICES ASSUME Init PROVE FanOutBar!Init
    OBVIOUS
  <2>1. Floor = 1
    BY DEF Init, Floor
  <2>2. [r \in Readers |-> FanOutReader(r)] = [r \in Readers |-> "out"]
    BY DEF Init, FanOutReader
  <2> QED BY <2>1, <2>2 DEF Init, FanOutBar!Init
<1>2. IInv /\ [Next]_vars => [FanOutBar!Next]_FanOutBar!vars
  BY StepImplements
<1> QED BY <1>1, <1>2, RingInvariant, PTL DEF Spec, ImplementsFanOut, FanOutBar!Spec
----------------------------------------------------------------------------
(* The bytes: packets, boundaries, order. *)
\* A whole number of packets.
Packets(n) == \E k \in Nat : n = k * TSPacketSize

\* Packets and packets are packets.
LEMMA PacketsAdd ==
  ASSUME NEW m \in Nat, NEW n \in Nat, Packets(m), Packets(n)
  PROVE  Packets(m + n)
<1>1. PICK j \in Nat : m = j * TSPacketSize
  BY DEF Packets
<1>2. PICK k \in Nat : n = k * TSPacketSize
  BY DEF Packets
<1>3. TSPacketSize \in Nat
  BY ConstantsAssumption
<1>4. m + n = (j + k) * TSPacketSize
  BY <1>1, <1>2, <1>3, Z3
<1> QED
  BY <1>4 DEF Packets

\* So is what stays when packets are taken away.
LEMMA PacketsSubtract ==
  ASSUME NEW m \in Nat, NEW n \in Nat, Packets(m + n), Packets(n)
  PROVE  Packets(m)
<1>1. PICK j \in Nat : m + n = j * TSPacketSize
  BY DEF Packets
<1>2. PICK k \in Nat : n = k * TSPacketSize
  BY DEF Packets
<1>3. TSPacketSize \in Nat \ {0}
  BY ConstantsAssumption
<1>4. m = (j - k) * TSPacketSize
  BY <1>1, <1>2, <1>3, Z3
<1>5. j - k \in Nat
  BY <1>3, <1>4, Z3
<1> QED
  BY <1>4, <1>5 DEF Packets

\* A whole number of packets is what Go's remainder finds to be one.
LEMMA PacketsMod ==
  ASSUME NEW n \in Nat
  PROVE  Packets(n) <=> n % TSPacketSize = 0
<1>1. TSPacketSize \in Nat \ {0}
  BY ConstantsAssumption
<1>2. ASSUME n % TSPacketSize = 0 PROVE Packets(n)
  <2>1. n \div TSPacketSize \in Nat /\ n = (n \div TSPacketSize) * TSPacketSize
    BY <1>1, <1>2, Z3
  <2> QED
    BY <2>1 DEF Packets
<1>3. ASSUME NEW k \in Nat, n = k * TSPacketSize PROVE n % TSPacketSize = 0
  <2>1. n % TSPacketSize \in 0..(TSPacketSize - 1)
    BY <1>1, Z3
  <2>2. n = (n \div TSPacketSize) * TSPacketSize + (n % TSPacketSize) /\ n \div TSPacketSize \in Nat
    BY <1>1, Z3
  <2>3. PICK d \in Int : d = k - n \div TSPacketSize
    BY <2>2
  <2>4. d * TSPacketSize = n % TSPacketSize
    BY <1>1, <1>3, <2>1, <2>2, <2>3, Z3
  <2>5. ~(d > 0)
    <3>1. ASSUME d > 0 PROVE d * TSPacketSize >= TSPacketSize
      BY <1>1, <3>1, Z3
    <3> QED
      BY <1>1, <2>1, <2>4, <3>1
  <2>6. ~(d < 0)
    <3>1. ASSUME d < 0 PROVE d * TSPacketSize < 0
      BY <1>1, <3>1, Z3
    <3> QED
      BY <2>1, <2>4, <3>1
  <2>7. d = 0
    BY <2>5, <2>6
  <2> QED
    BY <1>1, <2>4, <2>7
<1> QED
  BY <1>2, <1>3 DEF Packets

\* The whole units in n bytes, packets or chunks, are packets, and less than one
\* packet is left over.
LEMMA WholeIsPackets ==
  ASSUME NEW n \in Nat
  PROVE  /\ Packets(Whole(n, TSPacketSize) * TSPacketSize)
         /\ Packets(Whole(n, ChunkBytes) * ChunkBytes)
         /\ n - Whole(n, TSPacketSize) * TSPacketSize < TSPacketSize
<1>1. Whole(n, TSPacketSize) \in Nat /\ Whole(n, ChunkBytes) \in Nat
  BY WholeUnits, ConstantsAssumption
<1>2. PICK k \in Nat : ChunkBytes = k * TSPacketSize
  BY ChunksArePackets
<1>3. TSPacketSize \in Nat \ {0}
  BY ConstantsAssumption
<1>4. ASSUME NEW w \in Nat PROVE Packets(w * ChunkBytes)
  <2>1. w * k \in Nat /\ w * ChunkBytes = (w * k) * TSPacketSize
    BY <1>2, <1>3, Z3
  <2> QED
    BY <2>1 DEF Packets
<1>5. n - (n \div TSPacketSize) * TSPacketSize < TSPacketSize
  BY <1>3, Z3
<1> QED
  BY <1>1, <1>4, <1>5 DEF Packets, Whole

\* Two bytes next to each other in one connection's stream.
Follows(a, b) == b.conn = a.conn /\ b.off = a.off + 1

Joined(s) == \A i \in 1..(Len(s) - 1) : Follows(s[i], s[i + 1])

\* Whole packets, none spliced from two streams.
Packed(s) == Packets(Len(s)) /\ \A i \in 1..(Len(s) - 1) : Packets(i) \/ Follows(s[i], s[i + 1])

ConnOf(s, c) == \A i \in 1..Len(s) : s[i].conn = c

\* Packed sequences put together.
LEMMA PackedConcat ==
  ASSUME NEW s \in Seq(Byte), NEW t \in Seq(Byte), Packed(s), Packed(t)
  PROVE  Packed(s \o t)
<1>1. /\ s \o t \in Seq(Byte) /\ Len(s \o t) = Len(s) + Len(t)
      /\ \A i \in 1..(Len(s) + Len(t)) : (s \o t)[i] = IF i <= Len(s) THEN s[i] ELSE t[i - Len(s)]
  BY ConcatProperties
<1>0. Len(s) \in Nat /\ Len(t) \in Nat
  OBVIOUS
<1>2. Len(s) \in Nat /\ Len(t) \in Nat /\ Packets(Len(s) + Len(t)) /\ Packets(Len(s))
  BY <1>0, PacketsAdd DEF Packed
<1>3. ASSUME NEW i \in 1..(Len(s) + Len(t) - 1)
      PROVE  Packets(i) \/ Follows((s \o t)[i], (s \o t)[i + 1])
  <2>1. CASE i < Len(s)
    BY <1>1, <1>2, <2>1 DEF Packed
  <2>2. CASE i = Len(s)
    BY <1>2, <2>2
  <2>3. CASE i > Len(s)
    <3>1. PICK j \in 1..(Len(t) - 1) : i = j + Len(s)
      <4>1. i - Len(s) \in 1..(Len(t) - 1) /\ i = (i - Len(s)) + Len(s)
        BY <1>2, <2>3
      <4> QED
        BY <4>1
    <3>2. (s \o t)[i] = t[j] /\ (s \o t)[i + 1] = t[j + 1]
      BY <1>1, <1>2, <3>1
    <3>3. Packets(j) => Packets(i)
      <4>1. j \in Nat
        BY <3>1
      <4> QED
        BY <1>2, <3>1, <4>1, PacketsAdd
    <3> QED
      BY <3>2, <3>3 DEF Packed
  <2> QED
    BY <1>2, <2>1, <2>2, <2>3
<1> QED
  BY <1>1, <1>2, <1>3 DEF Packed

\* A part of a sequence, position by position.
LEMMA Part ==
  ASSUME NEW s \in Seq(Byte), NEW a \in Nat, NEW b \in Nat, a <= b, b <= Len(s)
  PROVE  /\ SubSeq(s, a + 1, b) \in Seq(Byte) /\ Len(SubSeq(s, a + 1, b)) = b - a
         /\ \A i \in 1..(b - a) : SubSeq(s, a + 1, b)[i] = s[a + i]
<1>1. \A i \in (a + 1)..b : s[i] \in Byte
  <2>1. ASSUME NEW i \in (a + 1)..b PROVE i \in 1..Len(s)
    OBVIOUS
  <2> QED
    BY <2>1, ElementOfSeq
<1>2. /\ SubSeq(s, a + 1, b) \in Seq(Byte)
      /\ Len(SubSeq(s, a + 1, b)) = IF a + 1 <= b THEN b - (a + 1) + 1 ELSE 0
      /\ \A i \in 1..(b - (a + 1) + 1) : SubSeq(s, a + 1, b)[i] = s[a + 1 + i - 1]
  BY <1>1, SubSeqProperties
<1>3. \A i \in 1..(b - a) : a + 1 + i - 1 = a + i
  OBVIOUS
<1> QED
  BY <1>2, <1>3

\* A part of a packed sequence that begins and ends between packets.
LEMMA PackedPart ==
  ASSUME NEW s \in Seq(Byte), NEW a \in Nat, NEW b \in Nat, a <= b, b <= Len(s),
         Packed(s), Packets(a), Packets(b)
  PROVE  Packed(SubSeq(s, a + 1, b))
<1> DEFINE p == SubSeq(s, a + 1, b)
<1>1. p \in Seq(Byte) /\ Len(p) = b - a /\ \A i \in 1..(b - a) : p[i] = s[a + i]
  BY Part
<1> HIDE DEF p
<1>2. Packets(b - a)
  <2>1. (b - a) \in Nat /\ (b - a) + a = b
    OBVIOUS
  <2> QED
    BY <2>1, PacketsSubtract
<1>3. ASSUME NEW i \in 1..(b - a - 1) PROVE Packets(i) \/ Follows(p[i], p[i + 1])
  <2>1. p[i] = s[a + i] /\ p[i + 1] = s[a + i + 1] /\ a + i \in 1..(Len(s) - 1) /\ i \in Nat
    <3>1. a + (i + 1) = a + i + 1 /\ i \in 1..(b - a) /\ i + 1 \in 1..(b - a)
      BY <1>3
    <3> QED
      BY <1>1, <3>1
  <2>2. Packets(a + i) => Packets(i)
    <3>1. a + i = i + a
      BY <2>1
    <3> QED
      BY <2>1, <3>1, PacketsSubtract
  <2> QED
    BY <2>1, <2>2 DEF Packed
<1>4. Packed(p)
  BY <1>1, <1>2, <1>3 DEF Packed
<1> QED
  BY <1>4 DEF p

\* A connection's bytes cut between packets: packets, then the rest of the stream.
LEMMA JoinedParts ==
  ASSUME NEW s \in Seq(Byte), NEW a \in Nat, a <= Len(s), Joined(s), Packets(a)
  PROVE  Packed(SubSeq(s, 1, a)) /\ Joined(SubSeq(s, a + 1, Len(s)))
<1>1. /\ Len(SubSeq(s, 0 + 1, a)) = a - 0
      /\ \A i \in 1..(a - 0) : SubSeq(s, 0 + 1, a)[i] = s[0 + i]
  BY Part
<1>2. /\ Len(SubSeq(s, a + 1, Len(s))) = Len(s) - a
      /\ \A i \in 1..(Len(s) - a) : SubSeq(s, a + 1, Len(s))[i] = s[a + i]
  BY Part
<1>3. Len(SubSeq(s, 1, a)) = a /\ \A i \in 1..a : SubSeq(s, 1, a)[i] = s[i]
  BY <1>1
<1>4. Packed(SubSeq(s, 1, a))
  BY <1>3 DEF Packed, Joined
<1>5. ASSUME NEW i \in 1..(Len(s) - a - 1)
      PROVE  Follows(SubSeq(s, a + 1, Len(s))[i], SubSeq(s, a + 1, Len(s))[i + 1])
  <2>1. a + (i + 1) = a + i + 1 /\ i \in 1..(Len(s) - a) /\ i + 1 \in 1..(Len(s) - a)
          /\ a + i \in 1..(Len(s) - 1)
    BY <1>5
  <2> QED
    BY <1>2, <2>1 DEF Joined
<1> QED
  BY <1>2, <1>4, <1>5 DEF Joined

\* A connection's bytes and the next ones it sends.
LEMMA JoinedConcat ==
  ASSUME NEW s \in Seq(Byte), NEW t \in Seq(Byte), Joined(s), Joined(t), Len(t) > 0,
         Len(s) > 0 => Follows(s[Len(s)], t[1])
  PROVE  Joined(s \o t) /\ (s \o t)[Len(s \o t)] = t[Len(t)]
<1>1. /\ s \o t \in Seq(Byte) /\ Len(s \o t) = Len(s) + Len(t)
      /\ \A i \in 1..(Len(s) + Len(t)) : (s \o t)[i] = IF i <= Len(s) THEN s[i] ELSE t[i - Len(s)]
  BY ConcatProperties
<1>2. Len(s) \in Nat /\ Len(t) \in Nat
  OBVIOUS
<1>3. ASSUME NEW i \in 1..(Len(s) + Len(t) - 1) PROVE Follows((s \o t)[i], (s \o t)[i + 1])
  <2>1. CASE i < Len(s)
    BY <1>1, <1>2, <2>1 DEF Joined
  <2>2. CASE i = Len(s)
    BY <1>1, <1>2, <2>2
  <2>3. CASE i > Len(s)
    <3>1. PICK j \in 1..(Len(t) - 1) : i = j + Len(s)
      <4>1. i - Len(s) \in 1..(Len(t) - 1) /\ i = (i - Len(s)) + Len(s)
        BY <1>2, <2>3
      <4> QED
        BY <4>1
    <3>2. (s \o t)[i] = t[j] /\ (s \o t)[i + 1] = t[j + 1]
      BY <1>1, <1>2, <3>1
    <3> QED
      BY <3>2 DEF Joined
  <2> QED
    BY <1>2, <2>1, <2>2, <2>3
<1>4. (s \o t)[Len(s) + Len(t)] = t[Len(t)]
  BY <1>1, <1>2
<1> QED
  BY <1>1, <1>3, <1>4 DEF Joined

\* The chunks cut from whole packets are whole packets, and so is what stays.
LEMMA CutPacked ==
  ASSUME NEW s \in Seq(Byte), Packed(s), NEW c, ConnOf(s, c)
  PROVE  /\ \A k \in 1..Len(FullChunks(s)) :
              Len(FullChunks(s)[k]) > 0 /\ Packed(FullChunks(s)[k]) /\ ConnOf(FullChunks(s)[k], c)
         /\ Packed(Leftover(s, ChunkBytes)) /\ ConnOf(Leftover(s, ChunkBytes), c)
<1> DEFINE w == Whole(Len(s), ChunkBytes)
<1>1. ChunkBytes \in Nat \ {0} /\ Len(s) \in Nat /\ w \in Nat /\ w * ChunkBytes \in 0..Len(s)
  BY WholeUnits, ConstantsAssumption
<1>2. \A v \in Nat : Packets(v * ChunkBytes)
  <2>1. PICK k \in Nat : ChunkBytes = k * TSPacketSize
    BY ChunksArePackets
  <2>2. ASSUME NEW v \in Nat PROVE Packets(v * ChunkBytes)
    <3>1. v * k \in Nat /\ v * ChunkBytes = (v * k) * TSPacketSize
      BY <2>1, ConstantsAssumption, Z3
    <3> QED
      BY <3>1 DEF Packets
  <2> QED
    BY <2>2
<1>3. ASSUME NEW a \in Nat, NEW b \in Nat, a <= b, b <= Len(s), Packets(a), Packets(b)
      PROVE  Packed(SubSeq(s, a + 1, b)) /\ ConnOf(SubSeq(s, a + 1, b), c)
               /\ Len(SubSeq(s, a + 1, b)) = b - a
  <2>1. Packed(SubSeq(s, a + 1, b))
    BY <1>3, PackedPart
  <2>2. Len(SubSeq(s, a + 1, b)) = b - a /\ \A i \in 1..(b - a) : SubSeq(s, a + 1, b)[i] = s[a + i]
    BY <1>3, Part
  <2>3. ConnOf(SubSeq(s, a + 1, b), c)
    BY <1>1, <1>3, <2>2 DEF ConnOf
  <2> QED
    BY <2>1, <2>2, <2>3
<1>4. ASSUME NEW k \in 1..w
      PROVE  /\ Len(FullChunks(s)[k]) > 0 /\ Packed(FullChunks(s)[k]) /\ ConnOf(FullChunks(s)[k], c)
  <2> DEFINE a == (k - 1) * ChunkBytes
             b == k * ChunkBytes
  <2>0. k \in Nat /\ k - 1 \in Nat /\ k <= w
    BY <1>1
  <2>1. a \in Nat /\ b \in Nat /\ b = a + ChunkBytes
    BY <1>1, <2>0, Z3
  <2>2. b <= w * ChunkBytes
    <3> HIDE DEF w
    <3> QED
      BY <1>1, <2>0, Z3
  <2>3. Packets(a) /\ Packets(b)
    BY <1>2, <2>0
  <2>4. FullChunks(s)[k] = SubSeq(s, a + 1, b)
    BY DEF FullChunks
  <2> HIDE DEF a, b, w
  <2>5. a <= b /\ b <= Len(s) /\ b - a > 0
    BY <1>1, <2>1, <2>2
  <2> QED
    BY <1>3, <2>1, <2>3, <2>4, <2>5
<1>5. Len(FullChunks(s)) = w
  BY <1>1 DEF FullChunks
<1>6. Packed(Leftover(s, ChunkBytes)) /\ ConnOf(Leftover(s, ChunkBytes), c)
  <2>1. Packets(w * ChunkBytes) /\ w * ChunkBytes \in Nat /\ w * ChunkBytes <= Len(s)
          /\ Packets(Len(s))
    BY <1>1, <1>2 DEF Packed
  <2> QED
    BY <1>1, <1>3, <2>1 DEF Leftover
<1> QED
  BY <1>4, <1>5, <1>6

\* Cutting a connection's bytes at the last whole packet, when more of them are
\* handed over: whole packets, then the carry, which ends where the connection is.
LEMMA CarryMoves ==
  ASSUME NEW p \in Seq(Byte), NEW f \in Seq(Byte), NEW c, Joined(p), Joined(f), Len(f) > 0,
         ConnOf(p, c), ConnOf(f, c), Len(p) > 0 => Follows(p[Len(p)], f[1])
  PROVE  /\ Packed(WholePart(p \o f, TSPacketSize)) /\ ConnOf(WholePart(p \o f, TSPacketSize), c)
         /\ Joined(Leftover(p \o f, TSPacketSize)) /\ ConnOf(Leftover(p \o f, TSPacketSize), c)
         /\ LET l == Leftover(p \o f, TSPacketSize) IN Len(l) > 0 => l[Len(l)] = f[Len(f)]
<1> DEFINE m == p \o f
           w == Whole(Len(m), TSPacketSize) * TSPacketSize
<1>1. /\ m \in Seq(Byte) /\ Len(m) = Len(p) + Len(f)
      /\ \A i \in 1..(Len(p) + Len(f)) : m[i] = IF i <= Len(p) THEN p[i] ELSE f[i - Len(p)]
  BY ConcatProperties
<1>2. Joined(m) /\ m[Len(m)] = f[Len(f)]
  BY JoinedConcat
<1>3. ConnOf(m, c)
  BY <1>1 DEF ConnOf
<1> HIDE DEF m
<1>4. w \in Nat /\ w <= Len(m) /\ Packets(w)
  BY <1>1, WholeUnits, WholeIsPackets, ConstantsAssumption
<1> HIDE DEF w
<1>5. Packed(SubSeq(m, 1, w)) /\ Joined(SubSeq(m, w + 1, Len(m)))
  BY <1>1, <1>2, <1>4, JoinedParts
<1>6. Len(SubSeq(m, 1, w)) = w /\ \A i \in 1..w : SubSeq(m, 1, w)[i] = m[i]
  <2>1. /\ Len(SubSeq(m, 0 + 1, w)) = w - 0
        /\ \A i \in 1..(w - 0) : SubSeq(m, 0 + 1, w)[i] = m[0 + i]
    BY <1>1, <1>4, Part
  <2> QED
    BY <1>4, <2>1
<1>7. /\ Len(SubSeq(m, w + 1, Len(m))) = Len(m) - w
      /\ \A i \in 1..(Len(m) - w) : SubSeq(m, w + 1, Len(m))[i] = m[w + i]
  BY <1>1, <1>4, Part
<1>8. ConnOf(SubSeq(m, 1, w), c) /\ ConnOf(SubSeq(m, w + 1, Len(m)), c)
  BY <1>1, <1>3, <1>4, <1>6, <1>7 DEF ConnOf
<1>9. Len(SubSeq(m, w + 1, Len(m))) > 0 => SubSeq(m, w + 1, Len(m))[Len(m) - w] = m[Len(m)]
  <2>1. ASSUME Len(m) - w > 0 PROVE Len(m) - w \in 1..(Len(m) - w) /\ w + (Len(m) - w) = Len(m)
    BY <1>1, <1>4, <2>1
  <2> QED
    BY <1>7, <2>1
<1>10. WholePart(m, TSPacketSize) = SubSeq(m, 1, w)
         /\ Leftover(m, TSPacketSize) = SubSeq(m, w + 1, Len(m))
  BY DEF WholePart, Leftover, w
<1> QED
  BY <1>2, <1>5, <1>7, <1>8, <1>9, <1>10 DEF m
----------------------------------------------------------------------------
(* The packets and the boundaries. *)

GoodChunk(s) == Len(s) > 0 /\ Packed(s) /\ ConnOf(s, s[1].conn)

\* What the packetiser and the write unit hold.
TailInv ==
  /\ Packed(pending) /\ ConnOf(pending, conn)
  /\ Joined(partial) /\ ConnOf(partial, conn)
  /\ Len(partial) > 0 => partial[Len(partial)].off = sent

PacketInv == TailInv /\ \A k \in 1..Len(log) : GoodChunk(log[k])

\* What one publish appends comes from the running connection.
NewChunks(datas) ==
  \A j \in 1..Len(datas) : Len(datas[j]) > 0 /\ Packed(datas[j]) /\ ConnOf(datas[j], conn)

\* Nothing to publish, nothing appended.
LEMMA AppendNothing ==
  ASSUME IInv, UNCHANGED <<head, log>>
  PROVE  << >> \in Seq(Seq(Byte)) /\ log' = log \o << >> /\ head' = head + Len(<< >>)
           /\ NewChunks(<< >>)
<1>1. log \in Seq(Seq(Byte)) /\ head \in Nat
  BY DEF IInv, TypeOK
<1> QED
  BY <1>1, ConcatEmptySeq DEF NewChunks

\* A write cuts its chunks from whole packets of the running connection.
LEMMA WriteCuts ==
  ASSUME IInv, TailInv, NEW n \in 1..MaxWrite, Write(n)
  PROVE  TailInv' /\ \E datas \in Seq(Seq(Byte)) : Publish(datas) /\ NewChunks(datas)
<1> DEFINE fresh    == [i \in 1..n |-> [conn |-> conn, off |-> sent + i]]
           combined == partial \o fresh
           packets  == pending \o WholePart(combined, TSPacketSize)
<1>0. n \in Nat /\ n > 0 /\ conn \in Nat /\ sent \in Nat /\ partial \in Seq(Byte)
        /\ pending \in Seq(Byte)
  BY ConstantsAssumption DEF IInv, TypeOK
<1>1. /\ fresh \in Seq(Byte) /\ Len(fresh) = n
      /\ \A i \in 1..n : fresh[i].conn = conn /\ fresh[i].off = sent + i
  BY <1>0 DEF Byte
<1>2. /\ partial' = Leftover(combined, TSPacketSize)
      /\ pending' = Leftover(packets, ChunkBytes)
      /\ Publish(FullChunks(packets))
      /\ sent' = sent + n /\ conn' = conn
  BY DEF Write
<1> HIDE DEF fresh
<1>3. Joined(fresh) /\ ConnOf(fresh, conn)
  BY <1>0, <1>1 DEF Joined, Follows, ConnOf
<1>4. Len(partial) > 0 => Follows(partial[Len(partial)], fresh[1])
  BY <1>0, <1>1 DEF TailInv, ConnOf, Follows
<1>5. /\ Packed(WholePart(combined, TSPacketSize))
           /\ ConnOf(WholePart(combined, TSPacketSize), conn)
      /\ Joined(partial') /\ ConnOf(partial', conn)
      /\ Len(partial') > 0 => partial'[Len(partial')] = fresh[n]
  BY <1>0, <1>1, <1>2, <1>3, <1>4, CarryMoves DEF TailInv
<1>6. combined \in Seq(Byte)
  BY <1>0, <1>1, ConcatProperties
<1> HIDE DEF combined
<1>7. WholePart(combined, TSPacketSize) \in Seq(Byte)
  BY <1>6, WholePartType, ConstantsAssumption
<1>8. packets \in Seq(Byte) /\ Packed(packets)
  BY <1>0, <1>5, <1>7, PackedConcat, ConcatProperties DEF TailInv
<1>9. ConnOf(packets, conn)
  <2>1. \A i \in 1..Len(packets) : packets[i] = IF i <= Len(pending) THEN pending[i] ELSE WholePart(combined, TSPacketSize)[i - Len(pending)]
    BY <1>0, <1>7, ConcatProperties
  <2>2. Len(packets) = Len(pending) + Len(WholePart(combined, TSPacketSize))
    BY <1>0, <1>7, ConcatProperties
  <2> HIDE DEF packets
  <2>3. ASSUME NEW i \in 1..Len(packets) PROVE packets[i].conn = conn
    <3>1. CASE i <= Len(pending)
      BY <1>0, <2>1, <3>1 DEF ConnOf, TailInv
    <3>2. CASE i > Len(pending)
      <4>1. i - Len(pending) \in 1..Len(WholePart(combined, TSPacketSize))
        BY <1>0, <1>7, <2>2, <3>2
      <4> QED
        BY SMTT(20), <1>0, <1>5, <2>1, <3>2, <4>1 DEF ConnOf
    <3> QED
      BY <1>0, <3>1, <3>2
  <2> QED
    BY <2>3 DEF ConnOf
<1> HIDE DEF packets
<1>10. /\ NewChunks(FullChunks(packets))
       /\ Packed(pending') /\ ConnOf(pending', conn)
  BY <1>2, <1>8, <1>9, CutPacked DEF NewChunks
<1>11. TailInv'
  BY <1>0, <1>1, <1>2, <1>5, <1>10 DEF TailInv
<1>12. FullChunks(packets) \in Seq(Seq(Byte))
  BY <1>8, FullChunksType, ConstantsAssumption
<1> QED
  BY <1>2, <1>10, <1>11, <1>12

\* A boundary flushes the pending packets and forgets the carry.
LEMMA MarkFlushes ==
  ASSUME IInv, TailInv, MarkBoundary
  PROVE  /\ TailInv'
         /\ \E datas \in Seq(Seq(Byte)) :
              Publish(datas) /\ NewChunks(datas) /\ (Len(datas) > 0 => Len(pending) > 0)
<1> DEFINE datas == IF Len(pending) > 0 /\ ~closed THEN <<pending>> ELSE << >>
<1>1. datas \in Seq(Seq(Byte)) /\ Publish(datas)
  BY DEF MarkBoundary, IInv, TypeOK
<1>2. NewChunks(datas) /\ (Len(datas) > 0 => Len(pending) > 0)
  BY DEF NewChunks, TailInv
<1>3. pending' = << >> /\ partial' = << >>
  BY DEF MarkBoundary
<1>4. Packets(0)
  BY ConstantsAssumption DEF Packets
<1>5. TailInv'
  BY <1>3, <1>4 DEF TailInv, Packed, Joined, ConnOf
<1> QED
  BY <1>1, <1>2, <1>5

\* What any other step leaves alone or clears.
LEMMA OthersPublishNothing ==
  ASSUME IInv, TailInv, [Next]_vars,
         ~MarkBoundary, ~(\E n \in 1..MaxWrite : Write(n))
  PROVE  /\ UNCHANGED <<head, log, conn, sent>> /\ TailInv'
         /\ pending' \in {pending, << >>} /\ partial' \in {partial, << >>}
<1>1. /\ UNCHANGED <<head, log, conn, sent>>
      /\ (UNCHANGED <<pending, partial>> \/ (pending' = << >> /\ partial' = << >>))
  <2>1. CASE ResetPosition
    BY <2>1 DEF ResetPosition
  <2>2. CASE RecordBoundary \/ EndAttempt \/ Close \/ Tick
    BY <2>2 DEF RecordBoundary, EndAttempt, Close, Tick, ringVars, loopVars
  <2>3. ASSUME NEW r \in Readers,
               (\E behind \in JoinBehinds : Join(r, behind)) \/ ReaderStep(r) \/ Timeout(r)
                 \/ Leave(r)
        PROVE  UNCHANGED <<head, log, conn, sent, pending, partial>>
    BY <2>3 DEF Join, ReaderStep, ReadChunks, ReadNothing, Wait, Wake, FinalRead, Timeout, Leave,
       ringVars, loopVars
  <2>4. CASE UNCHANGED vars
    BY <2>4 DEF vars, ringVars, loopVars
  <2> QED
    BY <2>1, <2>2, <2>3, <2>4 DEF Next, LoopNext
<1>2. Packets(0)
  BY ConstantsAssumption DEF Packets
<1>3. TailInv'
  BY <1>1, <1>2 DEF TailInv, Packed, Joined, ConnOf
<1> QED
  BY <1>1, <1>3

\* The log and the data of one publish, position by position.
LEMMA LogGrows ==
  ASSUME IInv, NEW datas \in Seq(Seq(Byte)), Publish(datas)
  PROVE  /\ head = Len(log) /\ head' = Len(log') /\ Len(log') = Len(log) + Len(datas)
         /\ \A k \in 1..Len(log) : log'[k] = log[k]
         /\ \A j \in 1..Len(datas) : log'[Len(log) + j] = datas[j]
         /\ \A k \in 1..Len(log') : k \in 1..Len(log) \/ \E j \in 1..Len(datas) : k = Len(log) + j
<1>1. log \in Seq(Seq(Byte)) /\ head = Len(log) /\ log' = log \o datas /\ head' = head + Len(datas)
  BY PublishStore DEF IInv, StoreInv, LogIsStored, TypeOK
<1>2. /\ Len(log') = Len(log) + Len(datas)
      /\ \A k \in 1..(Len(log) + Len(datas)) : log'[k] = IF k <= Len(log) THEN log[k] ELSE datas[k - Len(log)]
  BY <1>1, ConcatProperties
<1>3. Len(log) \in Nat /\ Len(datas) \in Nat
  BY <1>1
<1>4. ASSUME NEW j \in 1..Len(datas) PROVE log'[Len(log) + j] = datas[j]
  <2>1. PICK i \in Nat : i = Len(log) + j
    BY <1>3
  <2>2. i \in 1..(Len(log) + Len(datas)) /\ ~(i <= Len(log)) /\ i - Len(log) = j
    BY <1>3, <2>1
  <2> QED
    BY <1>2, <2>1, <2>2
<1>5. ASSUME NEW k \in 1..Len(log'), k \notin 1..Len(log)
      PROVE  \E j \in 1..Len(datas) : k = Len(log) + j
  <2>1. k - Len(log) \in 1..Len(datas) /\ k = Len(log) + (k - Len(log))
    BY <1>2, <1>3, <1>5
  <2> QED
    BY <2>1
<1> QED
  BY <1>1, <1>2, <1>3, <1>4, <1>5

\* Every step keeps the packets whole.
LEMMA NextPacketInv == IInv /\ PacketInv /\ [Next]_vars => PacketInv'
<1> SUFFICES ASSUME IInv, PacketInv, [Next]_vars PROVE PacketInv'
  OBVIOUS
<1>1. TailInv
  BY DEF PacketInv
<1>2. ASSUME TailInv', NEW datas \in Seq(Seq(Byte)), Publish(datas), NewChunks(datas)
      PROVE  PacketInv'
  <2>1. ASSUME NEW k \in 1..Len(log') PROVE GoodChunk(log'[k])
    <3>1. CASE k \in 1..Len(log)
      BY <1>2, <3>1, LogGrows DEF PacketInv
    <3>2. ASSUME NEW j \in 1..Len(datas), k = Len(log) + j PROVE GoodChunk(log'[k])
      <4>1. log'[k] = datas[j]
        BY <1>2, <3>2, LogGrows
      <4> QED
        BY <1>2, <4>1 DEF NewChunks, GoodChunk, ConnOf
    <3> QED
      BY <1>2, <3>1, <3>2, LogGrows
  <2> QED
    BY <1>2, <2>1 DEF PacketInv
<1>3. ASSUME TailInv', UNCHANGED log PROVE PacketInv'
  BY <1>3 DEF PacketInv
<1>4. CASE MarkBoundary
  BY <1>1, <1>2, <1>4, MarkFlushes
<1>5. ASSUME NEW n \in 1..MaxWrite, Write(n) PROVE PacketInv'
  BY <1>1, <1>2, <1>5, WriteCuts
<1>6. CASE ~MarkBoundary /\ ~(\E n \in 1..MaxWrite : Write(n))
  BY <1>1, <1>3, <1>6, OthersPublishNothing
<1> QED
  BY <1>4, <1>5, <1>6

\* Every chunk is a whole number of packets, none of them spliced from two streams.
THEOREM RingPackets == Spec => []PacketsAreOneConnection
<1>1. Init => IInv /\ PacketInv
  <2> SUFFICES ASSUME Init PROVE PacketInv
    BY InitIInv
  <2>1. Packets(0)
    BY ConstantsAssumption DEF Packets
  <2> QED
    BY <2>1 DEF Init, PacketInv, TailInv, Packed, Joined, ConnOf
<1>2. IInv /\ PacketInv /\ [Next]_vars => IInv' /\ PacketInv'
  BY NextIInv, NextPacketInv
<1>3. IInv /\ PacketInv => PacketsAreOneConnection
  <2> SUFFICES ASSUME IInv, PacketInv, NEW k \in 1..Len(log)
               PROVE  /\ Len(log[k]) > 0 /\ Len(log[k]) % TSPacketSize = 0
                      /\ \A i \in 1..(Len(log[k]) - 1) :
                           i % TSPacketSize # 0 => Follows(log[k][i], log[k][i + 1])
    BY DEF PacketsAreOneConnection, Follows
  <2>1. log[k] \in Seq(Byte) /\ GoodChunk(log[k])
    BY ElementOfSeq DEF IInv, TypeOK, PacketInv
  <2>2. Len(log[k]) \in Nat
    BY <2>1
  <2> QED
    BY <2>1, <2>2, PacketsMod DEF GoodChunk, Packed
<1> QED
  BY <1>1, <1>2, <1>3, PTL DEF Spec
----------------------------------------------------------------------------
(* The boundaries. *)

BoundaryTypes ==
  /\ Len(boundaries) <= MaxBoundaries
  /\ \A i \in 1..Len(boundaries) : boundaries[i] <= head + 1
  /\ \A i, j \in 1..Len(boundaries) : i < j => boundaries[i] < boundaries[j]

\* Before the first connection there is nothing, and a boundary's index is the
\* one the connection's first chunk will have.
BeforeBytes ==
  /\ phase \in {"marked", "attempt"} => conn > 0
  /\ conn = 0 => Len(pending) = 0
  /\ phase = "marked" => mark = head + 1

\* The running connection has published nothing yet.
Unpublished == head > 0 => log[head][1].conn # conn

Remembered(k) ==
  \/ \E i \in 1..Len(boundaries) : boundaries[i] = k
  \/ Len(boundaries) = MaxBoundaries /\ k < boundaries[1]

BoundaryInv ==
  /\ BoundaryTypes /\ BeforeBytes
  /\ (phase # "marked" /\ conn > 0 /\ Unpublished)
       => \E i \in 1..Len(boundaries) : boundaries[i] = head + 1
  /\ \A k \in 1..Len(log) : Begins(k) => Remembered(k)

\* A chunk that is remembered stays so while nothing is recorded.
LEMMA RememberedStays ==
  ASSUME UNCHANGED boundaries, NEW k, Remembered(k)
  PROVE  Remembered(k)'
BY DEF Remembered

\* What a publish of the running connection's chunks adds to the log begins a
\* connection at most at its first chunk, which is the one on record.
LEMMA PublishRemembers ==
  ASSUME IInv, PacketInv, BoundaryInv, NEW datas \in Seq(Seq(Byte)), Publish(datas),
         NewChunks(datas),
         UNCHANGED boundaries, phase # "marked", Len(datas) > 0 => conn > 0
  PROVE  /\ BoundaryTypes'
         /\ \A k \in 1..Len(log') : Begins(k)' => Remembered(k)'
         /\ Len(datas) > 0 => head' > 0 /\ log'[head'][1].conn = conn
<1>1. /\ head = Len(log) /\ head' = Len(log') /\ Len(log') = Len(log) + Len(datas)
      /\ \A k \in 1..Len(log) : log'[k] = log[k]
      /\ \A j \in 1..Len(datas) : log'[Len(log) + j] = datas[j]
      /\ \A k \in 1..Len(log') : k \in 1..Len(log) \/ \E j \in 1..Len(datas) : k = Len(log) + j
  BY LogGrows
<1>2. Len(log) \in Nat /\ Len(datas) \in Nat /\ boundaries \in Seq(Nat) /\ Len(boundaries) \in Nat
  BY DEF IInv, TypeOK
<1>3. BoundaryTypes'
  <2>1. \A i \in 1..Len(boundaries) : boundaries[i] \in Nat
    BY <1>2, ElementOfSeq
  <2> QED
    BY <1>1, <1>2, <2>1 DEF BoundaryInv, BoundaryTypes
<1>4. ASSUME NEW j \in 1..Len(datas) PROVE log'[Len(log) + j][1].conn = conn
  <2>1. datas[j] \in Seq(Byte)
    BY ElementOfSeq
  <2>2. 1 \in 1..Len(datas[j])
    BY <2>1 DEF NewChunks
  <2> QED
    BY <1>1, <2>2 DEF NewChunks, ConnOf
<1>5. ASSUME NEW k \in 1..Len(log'), Begins(k)' PROVE Remembered(k)'
  <2>1. CASE k \in 1..Len(log)
    <3>1. k > 1 => k - 1 \in 1..Len(log)
      BY <1>2, <2>1
    <3>2. Begins(k)
      BY <1>1, <1>5, <2>1, <3>1 DEF Begins
    <3> QED
      BY <2>1, <3>2, RememberedStays DEF BoundaryInv
  <2>2. ASSUME NEW j \in 1..Len(datas), k = Len(log) + j PROVE Remembered(k)'
    <3>1. CASE j = 1
      <4>1. k = head + 1 /\ conn > 0 /\ log'[k][1].conn = conn
        BY <1>1, <1>2, <1>4, <2>2, <3>1
      <4>2. Unpublished
        <5>1. head > 0 => head \in 1..Len(log) /\ k > 1 /\ k - 1 = head
          BY <1>1, <1>2, <4>1
        <5> QED
          BY <1>1, <1>5, <4>1, <5>1 DEF Begins, Unpublished
      <4>3. Remembered(k)
        BY <4>1, <4>2 DEF BoundaryInv, Remembered
      <4> QED
        BY <4>3, RememberedStays
    <3>2. CASE j > 1
      <4>1. j - 1 \in 1..Len(datas) /\ k - 1 = Len(log) + (j - 1) /\ k > 1
        BY <1>2, <2>2, <3>2
      <4>2. log'[k][1].conn = conn /\ log'[k - 1][1].conn = conn
        BY <1>4, <2>2, <4>1
      <4> QED
        BY <1>5, <4>1, <4>2 DEF Begins
    <3> QED
      BY <3>1, <3>2
  <2> QED
    BY <1>1, <2>1, <2>2
<1>6. ASSUME Len(datas) > 0 PROVE head' > 0 /\ log'[head'][1].conn = conn
  <2>1. Len(datas) \in 1..Len(datas) /\ head' = Len(log) + Len(datas) /\ head' > 0
    BY <1>1, <1>2, <1>6
  <2> QED
    BY <1>4, <2>1
<1> QED
  BY <1>3, <1>5, <1>6

\* Recording keeps the list increasing and bounded; what falls off it is
\* older than everything that stays.
LEMMA RecordRemembers ==
  ASSUME IInv, BoundaryInv, RecordBoundary
  PROVE  /\ BoundaryTypes' /\ \E i \in 1..Len(boundaries') : boundaries'[i] = head + 1
         /\ \A k \in Nat : Remembered(k) => Remembered(k)'
<1>1. /\ mark = head + 1 /\ head \in Nat /\ boundaries \in Seq(Nat) /\ Len(boundaries) \in Nat
      /\ MaxBoundaries \in Nat \ {0} /\ UNCHANGED head
  BY ConstantsAssumption DEF RecordBoundary, BoundaryInv, BeforeBytes, IInv, TypeOK, ringVars
<1>2. /\ \A i \in 1..Len(boundaries) : boundaries[i] \in Nat /\ boundaries[i] <= head + 1
      /\ \A i, j \in 1..Len(boundaries) : i < j => boundaries[i] < boundaries[j]
      /\ Len(boundaries) <= MaxBoundaries
  BY <1>1, ElementOfSeq DEF BoundaryInv, BoundaryTypes
<1>3. CASE Len(boundaries) > 0 /\ Last(boundaries) >= mark
  <2>1. boundaries' = boundaries
    BY <1>3 DEF RecordBoundary
  <2>2. Len(boundaries) \in 1..Len(boundaries) /\ boundaries[Len(boundaries)] >= head + 1
    BY <1>1, <1>3 DEF Last
  <2>3. boundaries[Len(boundaries)] = head + 1
    BY <1>1, <1>2, <2>2
  <2>4. \E i \in 1..Len(boundaries') : boundaries'[i] = head + 1
    BY <2>1, <2>2, <2>3
  <2>5. BoundaryTypes'
    BY <1>1, <2>1 DEF BoundaryInv, BoundaryTypes
  <2>6. \A k \in Nat : Remembered(k) => Remembered(k)'
    BY <2>1, RememberedStays
  <2> QED
    BY <2>4, <2>5, <2>6
<1>4. CASE ~(Len(boundaries) > 0 /\ Last(boundaries) >= mark)
  <2> DEFINE grown == Append(boundaries, mark)
             d == Higher(0, Len(grown) - MaxBoundaries)
  <2>1. boundaries' = SubSeq(grown, 1 + d, Len(grown))
    BY <1>4 DEF RecordBoundary
  <2>2. /\ grown \in Seq(Nat) /\ Len(grown) = Len(boundaries) + 1
        /\ \A i \in 1..Len(boundaries) : grown[i] = boundaries[i]
        /\ grown[Len(boundaries) + 1] = head + 1
    BY <1>1, AppendProperties
  <2>3. d = IF Len(boundaries) = MaxBoundaries THEN 1 ELSE 0
    BY <1>1, <1>2, <2>2 DEF Higher
  <2> HIDE DEF grown, d
  <2>a. Len(grown) = Len(boundaries) + 1 /\ Len(boundaries) \in Nat /\ d \in 0..1
          /\ d <= Len(boundaries)
    BY <1>1, <2>2, <2>3
  <2>4. \A i \in (1 + d)..Len(grown) : grown[i] \in Nat
    <3>1. \A i \in (1 + d)..Len(grown) : i \in 1..Len(grown)
      BY <2>2, <2>3
    <3> QED
      BY <2>2, <3>1, ElementOfSeq
  <2>5. /\ Len(boundaries') = Len(boundaries) + 1 - d
        /\ \A i \in 1..(Len(boundaries) + 1 - d) : boundaries'[i] = grown[d + i]
    <3>1. 1 + d \in Nat /\ Len(grown) \in Nat /\ 1 + d <= Len(grown) + 1
      BY <1>1, <2>2, <2>3
    <3>2. /\ Len(SubSeq(grown, 1 + d, Len(grown))) = IF 1 + d <= Len(grown) THEN Len(grown) - (1 + d) + 1 ELSE 0
          /\ \A i \in 1..(Len(grown) - (1 + d) + 1) : SubSeq(grown, 1 + d, Len(grown))[i] = grown[1 + d + i - 1]
      BY <2>2, <2>3, <2>4, <3>1, SubSeqProperties
    <3>3. Len(grown) - (1 + d) + 1 = Len(boundaries) + 1 - d
            /\ \A i \in 1..(Len(boundaries) + 1 - d) : 1 + d + i - 1 = d + i
      BY <1>1, <2>2, <2>3
    <3>4. Len(SubSeq(grown, 1 + d, Len(grown))) = Len(boundaries) + 1 - d
      <4>1. 1 + d <= Len(grown)
        BY <2>a
      <4> QED
        BY <3>2, <3>3, <4>1
    <3>5. ASSUME NEW i \in 1..(Len(boundaries) + 1 - d)
          PROVE  SubSeq(grown, 1 + d, Len(grown))[i] = grown[d + i]
      BY <3>2, <3>3
    <3> QED
      BY <2>1, <3>4, <3>5
  <2>6. \A i \in 1..Len(boundaries) : boundaries[i] < head + 1
    <3>1. ASSUME NEW i \in 1..Len(boundaries) PROVE boundaries[i] < head + 1
      <4>1. Len(boundaries) \in 1..Len(boundaries) /\ ~(boundaries[Len(boundaries)] >= head + 1)
        BY <1>1, <1>4, <3>1 DEF Last
      <4>2. boundaries[i] <= boundaries[Len(boundaries)]
        BY <1>1, <1>2, <4>1
      <4> QED
        BY <1>1, <1>2, <4>1, <4>2
    <3> QED
      BY <3>1
  <2>7. \A i, j \in 1..Len(grown) : i < j => grown[i] < grown[j]
    <3>1. ASSUME NEW i \in 1..Len(grown), NEW j \in 1..Len(grown), i < j PROVE grown[i] < grown[j]
      <4>1. i \in 1..Len(boundaries) /\ (j \in 1..Len(boundaries) \/ j = Len(boundaries) + 1)
        BY <2>a, <3>1
      <4>2. CASE j \in 1..Len(boundaries)
        BY <1>2, <2>2, <3>1, <4>1, <4>2
      <4>3. CASE j = Len(boundaries) + 1
        BY <2>2, <2>6, <4>1, <4>3
      <4> QED
        BY <4>1, <4>2, <4>3
    <3> QED
      BY <3>1
  <2>8. BoundaryTypes'
    <3>1. Len(boundaries') <= MaxBoundaries
      BY <1>1, <1>2, <2>3, <2>5
    <3>2. \A i \in 1..Len(boundaries') : d + i \in 1..Len(grown) /\ boundaries'[i] = grown[d + i]
      BY <1>1, <2>2, <2>3, <2>5
    <3>3. ASSUME NEW i \in 1..Len(grown) PROVE grown[i] <= head + 1
      <4>1. i \in 1..Len(boundaries) \/ i = Len(boundaries) + 1
        BY <2>a
      <4> QED
        BY <1>1, <1>2, <2>2, <4>1
    <3>4. \A i, j \in 1..Len(boundaries') : i < j => d + i < d + j
      BY <1>1, <2>3, <2>5
    <3>5. \A i, j \in 1..Len(boundaries') : i < j => boundaries'[i] < boundaries'[j]
      BY <2>7, <3>2, <3>4
    <3> QED
      BY <1>1, <3>1, <3>2, <3>3, <3>5 DEF BoundaryTypes
  <2>9. \E i \in 1..Len(boundaries') : boundaries'[i] = head + 1
    <3>1. Len(boundaries') \in 1..Len(boundaries') /\ d + Len(boundaries') = Len(boundaries) + 1
      BY <1>1, <1>2, <2>3, <2>5
    <3> QED
      BY <2>2, <2>5, <3>1
  <2>10. ASSUME NEW k \in Nat, Remembered(k) PROVE Remembered(k)'
    <3>1. ASSUME NEW i \in 1..Len(boundaries), boundaries[i] = k, i > d PROVE Remembered(k)'
      <4>1. i - d \in 1..Len(boundaries') /\ d + (i - d) = i
        BY <1>1, <2>3, <2>5, <3>1
      <4>2. boundaries'[i - d] = k
        BY <2>2, <2>5, <3>1, <4>1
      <4> QED
        BY <4>1, <4>2 DEF Remembered
    <3>2. ASSUME d = 1, k <= boundaries[1] PROVE Remembered(k)'
      <4>1. Len(boundaries) = MaxBoundaries /\ Len(boundaries') = MaxBoundaries
        BY <1>1, <2>3, <2>5, <3>2
      <4>2. 1 \in 1..Len(grown) /\ 2 \in 1..Len(grown) /\ boundaries'[1] = grown[2]
              /\ grown[1] = boundaries[1]
            /\ grown[1] \in Nat /\ grown[2] \in Nat
        BY <1>1, <1>2, <2>2, <2>5, <3>2, <4>1, ElementOfSeq
      <4>3. k < boundaries'[1]
        BY <2>7, <3>2, <4>2
      <4> QED
        BY <4>1, <4>3 DEF Remembered
    <3>3. CASE \E i \in 1..Len(boundaries) : boundaries[i] = k
      <4>1. PICK i \in 1..Len(boundaries) : boundaries[i] = k
        BY <3>3
      <4>2. i > d \/ (d = 1 /\ i = 1)
        BY <1>1, <2>3, <4>1
      <4> QED
        BY <3>1, <3>2, <4>1, <4>2
    <3>4. CASE Len(boundaries) = MaxBoundaries /\ k < boundaries[1]
      <4>1. d = 1 /\ boundaries[1] \in Nat
        BY <1>1, <1>2, <2>3, <3>4
      <4> QED
        BY <3>2, <3>4, <4>1
    <3> QED
      BY <2>10, <3>3, <3>4 DEF Remembered
  <2> QED
    BY <2>8, <2>9, <2>10
<1> QED
  BY <1>3, <1>4

\* Every step keeps the record of the boundaries.
LEMMA NextBoundaryInv == IInv /\ PacketInv /\ BoundaryInv /\ [Next]_vars => BoundaryInv'
<1> SUFFICES ASSUME IInv, PacketInv, BoundaryInv, [Next]_vars PROVE BoundaryInv'
  OBVIOUS
<1>0. /\ TailInv /\ BeforeBytes /\ head \in Nat /\ conn \in Nat /\ head = Len(log)
      /\ boundaries \in Seq(Nat) /\ pending \in Seq(Byte)
  BY DEF PacketInv, BoundaryInv, IInv, TypeOK, StoreInv, LogIsStored
<1>1. CASE MarkBoundary
  <2>1. /\ phase = "idle" /\ phase' = "marked" /\ conn' = conn + 1 /\ mark' = head' + 1
        /\ pending' = << >> /\ UNCHANGED boundaries
    BY <1>1 DEF MarkBoundary
  <2>2. PICK datas \in Seq(Seq(Byte)) : Publish(datas) /\ NewChunks(datas)
          /\ (Len(datas) > 0 => Len(pending) > 0)
    BY <1>0, <1>1, MarkFlushes
  <2>3. Len(datas) > 0 => conn > 0
    BY <1>0, <2>2 DEF BeforeBytes
  <2>4. BoundaryTypes' /\ \A k \in 1..Len(log') : Begins(k)' => Remembered(k)'
    BY <2>1, <2>2, <2>3, PublishRemembers
  <2>5. BeforeBytes'
    BY <1>0, <2>1 DEF BeforeBytes
  <2> QED
    BY <2>1, <2>4, <2>5 DEF BoundaryInv
<1>2. CASE RecordBoundary
  <2>1. phase = "marked" /\ phase' = "attempt" /\ UNCHANGED <<head, log, conn, pending, mark>>
    BY <1>2 DEF RecordBoundary, ringVars
  <2>2. /\ BoundaryTypes' /\ \E i \in 1..Len(boundaries') : boundaries'[i] = head + 1
        /\ \A k \in Nat : Remembered(k) => Remembered(k)'
    BY <1>2, RecordRemembers
  <2>3. conn > 0
    BY <2>1 DEF BoundaryInv, BeforeBytes
  <2>4. BeforeBytes'
    BY <1>0, <2>1, <2>3 DEF BeforeBytes
  <2>5. \A k \in 1..Len(log') : Begins(k)' => Remembered(k)'
    <3>1. \A k \in 1..Len(log) : k \in Nat /\ (Begins(k)' => Begins(k))
      BY <2>1 DEF Begins
    <3> QED
      BY <2>1, <2>2, <3>1 DEF BoundaryInv
  <2> QED
    BY <2>1, <2>2, <2>4, <2>5 DEF BoundaryInv
<1>3. ASSUME NEW n \in 1..MaxWrite, Write(n) PROVE BoundaryInv'
  <2>1. phase = "attempt" /\ UNCHANGED <<phase, conn, mark, boundaries>> /\ conn > 0
    BY <1>0, <1>3 DEF Write, BeforeBytes
  <2>2. PICK datas \in Seq(Seq(Byte)) : Publish(datas) /\ NewChunks(datas)
    BY <1>0, <1>3, WriteCuts
  <2>3. /\ BoundaryTypes' /\ \A k \in 1..Len(log') : Begins(k)' => Remembered(k)'
        /\ Len(datas) > 0 => head' > 0 /\ log'[head'][1].conn = conn
    BY <2>1, <2>2, PublishRemembers
  <2>4. BeforeBytes'
    BY <2>1 DEF BeforeBytes
  <2>5. Unpublished' => \E i \in 1..Len(boundaries') : boundaries'[i] = head' + 1
    <3>1. CASE Len(datas) = 0
      <4>1. UNCHANGED <<head, log>>
        BY <2>2, <3>1 DEF Publish
      <4> QED
        BY <2>1, <4>1 DEF BoundaryInv, Unpublished
    <3>2. CASE Len(datas) > 0
      BY <2>1, <2>3, <3>2 DEF Unpublished
    <3> QED
      BY <2>2, <3>1, <3>2
  <2> QED
    BY <2>1, <2>3, <2>4, <2>5 DEF BoundaryInv
<1>4. CASE ~MarkBoundary /\ ~RecordBoundary /\ ~(\E n \in 1..MaxWrite : Write(n))
  <2>1. UNCHANGED <<head, log, conn>> /\ pending' \in {pending, << >>}
    BY <1>0, <1>4, OthersPublishNothing
  <2>2. /\ UNCHANGED <<boundaries, mark>>
        /\ phase' = phase \/ (phase # "marked" /\ phase' \in {"idle", "ended"})
    <3>1. CASE ResetPosition
      BY <3>1 DEF ResetPosition
    <3>2. CASE EndAttempt \/ Close \/ Tick
      BY <3>2 DEF EndAttempt, Close, Tick, ringVars, loopVars
    <3>3. ASSUME NEW r \in Readers,
                 (\E behind \in JoinBehinds : Join(r, behind)) \/ ReaderStep(r) \/ Timeout(r)
                   \/ Leave(r)
          PROVE  UNCHANGED <<boundaries, mark, phase>>
      BY <3>3 DEF Join, ReaderStep, ReadChunks, ReadNothing, Wait, Wake, FinalRead, Timeout,
         Leave, ringVars, loopVars
    <3>4. CASE UNCHANGED vars
      BY <3>4 DEF vars, ringVars, loopVars
    <3> QED
      BY <1>4, <3>1, <3>2, <3>3, <3>4 DEF Next, LoopNext
  <2>3. BeforeBytes'
    BY <1>0, <2>1, <2>2 DEF BeforeBytes
  <2>4. BoundaryTypes'
    BY <2>1, <2>2 DEF BoundaryInv, BoundaryTypes
  <2>5. \A k \in 1..Len(log') : Begins(k)' => Remembered(k)'
    BY <2>1, <2>2 DEF BoundaryInv, Begins, Remembered
  <2>6. (phase' # "marked" /\ conn' > 0 /\ Unpublished')
          => \E i \in 1..Len(boundaries') : boundaries'[i] = head' + 1
    BY <2>1, <2>2 DEF BoundaryInv, Unpublished
  <2> QED
    BY <2>3, <2>4, <2>5, <2>6 DEF BoundaryInv
<1> QED
  BY <1>1, <1>2, <1>3, <1>4

\* A reader that holds the first chunk of a connection finds it on record,
\* unless MaxBoundaries later boundaries have pushed it out.
THEOREM RingBoundaries == Spec => []BoundaryOnRecord
<1>1. Init => IInv /\ PacketInv /\ BoundaryInv
  <2> SUFFICES ASSUME Init PROVE PacketInv /\ BoundaryInv
    BY InitIInv
  <2>1. Packets(0)
    BY ConstantsAssumption DEF Packets
  <2>2. PacketInv
    BY <2>1 DEF Init, PacketInv, TailInv, Packed, Joined, ConnOf
  <2>3. BoundaryInv
    BY ConstantsAssumption DEF Init, BoundaryInv, BoundaryTypes, BeforeBytes, Unpublished
  <2> QED
    BY <2>2, <2>3
<1>2. IInv /\ PacketInv /\ BoundaryInv /\ [Next]_vars => IInv' /\ PacketInv' /\ BoundaryInv'
  BY NextIInv, NextPacketInv, NextBoundaryInv
<1>3. IInv /\ PacketInv /\ BoundaryInv => BoundaryOnRecord
  <2> SUFFICES ASSUME IInv, PacketInv, BoundaryInv, NEW i \in 1..Len(chunks)
               PROVE  LET k == chunks[i].index
                      IN  /\ \A b \in 1..Len(log[k]) : log[k][b].conn = log[k][1].conn
                          /\ Begins(k) => Remembered(k)
    BY DEF BoundaryOnRecord, Resident, Remembered
  <2>1. chunks[i].index \in 1..Len(log)
    BY DEF IInv, TypeOK, StoreInv, StoreIsContiguous, LogIsStored
  <2> QED
    BY <2>1 DEF PacketInv, GoodChunk, ConnOf, BoundaryInv
<1> QED
  BY <1>1, <1>2, <1>3, PTL DEF Spec
----------------------------------------------------------------------------
(* The order of the bytes. *)

Bytes(s) == {s[i] : i \in 1..Len(s)}

Sorted(s) == \A i, j \in 1..Len(s) : i < j => Before(s[i], s[j])

Precedes(s, t) == \A x \in Bytes(s), y \in Bytes(t) : Before(x, y)

\* Sent by an earlier connection, or by the c-th within its first n bytes.
UpTo(s, c, n) == \A x \in Bytes(s) : x.conn < c \/ (x.conn = c /\ x.off <= n)

\* What a sequence of bytes holds.
LEMMA BytesAreBytes ==
  ASSUME NEW s \in Seq(Byte)
  PROVE  \A x \in Bytes(s) : x.conn \in Nat /\ x.off \in Nat
<1>1. \A x \in Bytes(s) : x \in Byte
  BY ElementOfSeq DEF Bytes
<1> QED
  BY <1>1 DEF Byte

\* The bytes of two sequences put together.
LEMMA BytesConcat ==
  ASSUME NEW s \in Seq(Byte), NEW t \in Seq(Byte)
  PROVE  Bytes(s \o t) = Bytes(s) \cup Bytes(t)
<1>1. /\ Len(s \o t) = Len(s) + Len(t) /\ Len(s) \in Nat /\ Len(t) \in Nat
      /\ \A i \in 1..(Len(s) + Len(t)) : (s \o t)[i] = IF i <= Len(s) THEN s[i] ELSE t[i - Len(s)]
  BY ConcatProperties
<1>2. ASSUME NEW i \in 1..Len(s \o t) PROVE (s \o t)[i] \in Bytes(s) \cup Bytes(t)
  <2>1. CASE i <= Len(s)
    BY <1>1, <2>1 DEF Bytes
  <2>2. CASE i > Len(s)
    <3>1. i - Len(s) \in 1..Len(t) /\ (s \o t)[i] = t[i - Len(s)]
      BY <1>1, <2>2
    <3> QED
      BY <3>1 DEF Bytes
  <2> QED
    BY <1>1, <2>1, <2>2
<1>3. ASSUME NEW i \in 1..Len(s) PROVE s[i] \in Bytes(s \o t)
  <2>1. i \in 1..Len(s \o t) /\ (s \o t)[i] = s[i]
    BY <1>1
  <2> QED
    BY <2>1 DEF Bytes
<1>4. ASSUME NEW i \in 1..Len(t) PROVE t[i] \in Bytes(s \o t)
  <2>1. Len(s) + i \in 1..Len(s \o t) /\ (s \o t)[Len(s) + i] = t[i]
    BY <1>1
  <2> QED
    BY <2>1 DEF Bytes
<1> QED
  BY <1>2, <1>3, <1>4 DEF Bytes

\* Sorted sequences put together.
LEMMA SortedConcat ==
  ASSUME NEW s \in Seq(Byte), NEW t \in Seq(Byte), Sorted(s), Sorted(t), Precedes(s, t)
  PROVE  Sorted(s \o t)
<1>1. /\ Len(s \o t) = Len(s) + Len(t) /\ Len(s) \in Nat /\ Len(t) \in Nat
      /\ \A i \in 1..(Len(s) + Len(t)) : (s \o t)[i] = IF i <= Len(s) THEN s[i] ELSE t[i - Len(s)]
  BY ConcatProperties
<1>2. ASSUME NEW i \in 1..Len(s \o t), NEW j \in 1..Len(s \o t), i < j
      PROVE  Before((s \o t)[i], (s \o t)[j])
  <2>1. CASE j <= Len(s)
    <3>1. i \in 1..Len(s) /\ j \in 1..Len(s) /\ (s \o t)[i] = s[i] /\ (s \o t)[j] = s[j]
      BY <1>1, <1>2, <2>1
    <3> QED
      BY <1>2, <3>1 DEF Sorted
  <2>2. CASE i <= Len(s) /\ j > Len(s)
    <3>1. i \in 1..Len(s) /\ j - Len(s) \in 1..Len(t) /\ (s \o t)[i] = s[i]
            /\ (s \o t)[j] = t[j - Len(s)]
      BY <1>1, <1>2, <2>2
    <3> QED
      BY <3>1 DEF Precedes, Bytes
  <2>3. CASE i > Len(s)
    <3>1. /\ i - Len(s) \in 1..Len(t) /\ j - Len(s) \in 1..Len(t) /\ i - Len(s) < j - Len(s)
          /\ (s \o t)[i] = t[i - Len(s)] /\ (s \o t)[j] = t[j - Len(s)]
      BY <1>1, <1>2, <2>3
    <3> QED
      BY <3>1 DEF Sorted
  <2> QED
    BY <1>1, <1>2, <2>1, <2>2, <2>3
<1> QED
  BY <1>2 DEF Sorted

\* A part of a sorted sequence, and two parts of it that do not overlap.
LEMMA SortedParts ==
  ASSUME NEW s \in Seq(Byte), NEW a \in Nat, NEW b \in Nat, NEW d \in Nat, NEW e \in Nat,
         a <= b, b <= d, d <= e, e <= Len(s), Sorted(s)
  PROVE  /\ Sorted(SubSeq(s, a + 1, b)) /\ Bytes(SubSeq(s, a + 1, b)) \subseteq Bytes(s)
         /\ Sorted(SubSeq(s, d + 1, e)) /\ Bytes(SubSeq(s, d + 1, e)) \subseteq Bytes(s)
         /\ Precedes(SubSeq(s, a + 1, b), SubSeq(s, d + 1, e))
<1> DEFINE p == SubSeq(s, a + 1, b)
           q == SubSeq(s, d + 1, e)
<1>0. Len(s) \in Nat
  OBVIOUS
<1>1. /\ Len(p) = b - a /\ \A i \in 1..(b - a) : p[i] = s[a + i]
      /\ Len(q) = e - d /\ \A i \in 1..(e - d) : q[i] = s[d + i]
  <2>1. a <= b /\ b <= Len(s) /\ d <= e /\ e <= Len(s)
    BY <1>0
  <2> QED
    BY <2>1, Part
<1> HIDE DEF p, q
<1>2. (\A i \in 1..Len(p) : a + i \in 1..Len(s) /\ a + i <= b)
        /\ (\A i \in 1..Len(q) : d + i \in 1..Len(s) /\ d + i > d)
  BY <1>0, <1>1
<1>3. (\A i, j \in 1..Len(p) : i < j => a + i < a + j)
        /\ (\A i, j \in 1..Len(q) : i < j => d + i < d + j)
  BY <1>0, <1>1
<1>4. Sorted(p) /\ Sorted(q)
  BY <1>1, <1>2, <1>3 DEF Sorted
<1>5. Bytes(p) \subseteq Bytes(s) /\ Bytes(q) \subseteq Bytes(s)
  BY SMTT(20), <1>1, <1>2 DEF Bytes
<1>6. ASSUME NEW i \in 1..Len(p), NEW j \in 1..Len(q) PROVE Before(p[i], q[j])
  <2>1. a + i \in 1..Len(s) /\ d + j \in 1..Len(s) /\ a + i < d + j
    BY <1>0, <1>1, <1>2
  <2> QED
    BY <1>1, <2>1 DEF Sorted
<1> QED
  BY <1>4, <1>5, <1>6 DEF Precedes, Bytes, p, q

\* What one cut of a sorted sequence leaves: whole units in order, then the rest.
LEMMA CutSorted ==
  ASSUME NEW s \in Seq(Byte), NEW unit \in Nat \ {0}, Sorted(s)
  PROVE  /\ Sorted(WholePart(s, unit)) /\ Bytes(WholePart(s, unit)) \subseteq Bytes(s)
         /\ Sorted(Leftover(s, unit)) /\ Bytes(Leftover(s, unit)) \subseteq Bytes(s)
         /\ Precedes(WholePart(s, unit), Leftover(s, unit))
<1> DEFINE w == Whole(Len(s), unit) * unit
<1>z. PICK z \in Nat : z = 0
  OBVIOUS
<1>1. Len(s) \in Nat /\ w \in Nat /\ w <= Len(s) /\ z <= w /\ Len(s) <= Len(s)
  BY <1>z, WholeUnits
<1>2. WholePart(s, unit) = SubSeq(s, z + 1, w) /\ Leftover(s, unit) = SubSeq(s, w + 1, Len(s))
  BY <1>z DEF WholePart, Leftover
<1> HIDE DEF w
<1>3. /\ Sorted(SubSeq(s, z + 1, w)) /\ Bytes(SubSeq(s, z + 1, w)) \subseteq Bytes(s)
      /\ Sorted(SubSeq(s, w + 1, Len(s))) /\ Bytes(SubSeq(s, w + 1, Len(s))) \subseteq Bytes(s)
      /\ Precedes(SubSeq(s, z + 1, w), SubSeq(s, w + 1, Len(s)))
  <2>1. w <= w
    BY <1>1
  <2> QED
    BY <1>1, <2>1, SortedParts
<1> QED
  BY <1>2, <1>3

\* The chunks cut from a sorted sequence.
LEMMA ChunksSorted ==
  ASSUME NEW s \in Seq(Byte), Sorted(s)
  PROVE  /\ \A j \in 1..Len(FullChunks(s)) :
              /\ Sorted(FullChunks(s)[j]) /\ Bytes(FullChunks(s)[j]) \subseteq Bytes(s)
              /\ Precedes(FullChunks(s)[j], Leftover(s, ChunkBytes))
         /\ \A j, m \in 1..Len(FullChunks(s)) : j < m => Precedes(FullChunks(s)[j], FullChunks(s)[m])
<1> DEFINE w == Whole(Len(s), ChunkBytes)
           D(j) == SubSeq(s, (j - 1) * ChunkBytes + 1, j * ChunkBytes)
<1>1. Len(s) \in Nat /\ w \in Nat /\ w * ChunkBytes \in 0..Len(s) /\ ChunkBytes \in Nat \ {0}
  BY WholeUnits, ConstantsAssumption
<1>2. Len(FullChunks(s)) = w /\ \A j \in 1..w : FullChunks(s)[j] = D(j)
  BY <1>1 DEF FullChunks
<1>3. Leftover(s, ChunkBytes) = SubSeq(s, w * ChunkBytes + 1, Len(s))
  BY DEF Leftover
<1> HIDE DEF w
<1>4. ASSUME NEW j \in 1..w
      PROVE  /\ (j - 1) * ChunkBytes \in Nat /\ j * ChunkBytes \in Nat
             /\ (j - 1) * ChunkBytes <= j * ChunkBytes /\ j * ChunkBytes <= w * ChunkBytes
  BY <1>1, Z3
<1>5. ASSUME NEW j \in 1..w
      PROVE  Sorted(D(j)) /\ Bytes(D(j)) \subseteq Bytes(s)
               /\ Precedes(D(j), Leftover(s, ChunkBytes))
  <2> DEFINE a == (j - 1) * ChunkBytes
             b == j * ChunkBytes
             d == w * ChunkBytes
  <2>1. a \in Nat /\ b \in Nat /\ d \in Nat /\ a <= b /\ b <= d /\ d <= Len(s) /\ Len(s) <= Len(s)
    BY <1>1, <1>4
  <2>2. D(j) = SubSeq(s, a + 1, b) /\ Leftover(s, ChunkBytes) = SubSeq(s, d + 1, Len(s))
    BY <1>3
  <2> HIDE DEF a, b, d, D
  <2> QED
    BY <1>1, <2>1, <2>2, SortedParts
<1>6. ASSUME NEW j \in 1..w, NEW m \in 1..w, j < m PROVE Precedes(D(j), D(m))
  <2> DEFINE a == (j - 1) * ChunkBytes
             b == j * ChunkBytes
             d == (m - 1) * ChunkBytes
             e == m * ChunkBytes
  <2>1. b <= d
    <3>1. j \in Nat /\ m \in Nat /\ j <= m - 1
      BY <1>1, <1>6
    <3> QED
      BY <1>1, <3>1, Z3
  <2>2. a \in Nat /\ b \in Nat /\ d \in Nat /\ e \in Nat /\ a <= b /\ d <= e /\ e <= Len(s)
    <3>1. e <= w * ChunkBytes
      BY <1>4
    <3> HIDE DEF a, b, d, e
    <3>2. a \in Nat /\ b \in Nat /\ d \in Nat /\ e \in Nat /\ a <= b /\ d <= e
      BY <1>4 DEF a, b, d, e
    <3> QED
      BY <1>1, <3>1, <3>2
  <2>3. D(j) = SubSeq(s, a + 1, b) /\ D(m) = SubSeq(s, d + 1, e)
    OBVIOUS
  <2> HIDE DEF a, b, d, e, D
  <2> QED
    BY ZenonT(60), <1>1, <2>1, <2>2, <2>3, SortedParts
<1> QED
  BY <1>2, <1>5, <1>6

\* The carry and the write unit hold the newest bytes, in order.
TailOrder ==
  /\ Sorted(pending) /\ Sorted(partial) /\ Precedes(pending, partial)
  /\ UpTo(pending, conn, sent) /\ UpTo(partial, conn, sent)

LogOrder ==
  /\ \A k \in 1..Len(log) :
       /\ Sorted(log[k]) /\ UpTo(log[k], conn, sent)
       /\ Precedes(log[k], pending) /\ Precedes(log[k], partial)
  /\ \A k, m \in 1..Len(log) : k < m => Precedes(log[k], log[m])

OrderInv == TailOrder /\ LogOrder

\* A publish of chunks newer than the log, ahead of what is still held, keeps
\* the order.
LEMMA PublishOrders ==
  ASSUME IInv, LogOrder, NEW datas \in Seq(Seq(Byte)), Publish(datas), TailOrder',
         \A j \in 1..Len(datas) :
           /\ Sorted(datas[j]) /\ UpTo(datas[j], conn', sent')
           /\ Precedes(datas[j], pending') /\ Precedes(datas[j], partial'),
         \A j, m \in 1..Len(datas) : j < m => Precedes(datas[j], datas[m]),
         \A k \in 1..Len(log) :
           /\ UpTo(log[k], conn', sent')
           /\ Precedes(log[k], pending') /\ Precedes(log[k], partial')
           /\ \A j \in 1..Len(datas) : Precedes(log[k], datas[j])
  PROVE  OrderInv'
<1>1. /\ Len(log') = Len(log) + Len(datas) /\ Len(log) \in Nat /\ Len(datas) \in Nat
      /\ \A k \in 1..Len(log) : log'[k] = log[k]
      /\ \A j \in 1..Len(datas) : log'[Len(log) + j] = datas[j]
      /\ \A k \in 1..Len(log') : k \in 1..Len(log) \/ \E j \in 1..Len(datas) : k = Len(log) + j
  BY LogGrows DEF IInv, TypeOK
<1>2. ASSUME NEW k \in 1..Len(log')
      PROVE  /\ Sorted(log'[k]) /\ UpTo(log'[k], conn', sent')
             /\ Precedes(log'[k], pending') /\ Precedes(log'[k], partial')
  <2>1. CASE k \in 1..Len(log)
    BY <1>1, <2>1 DEF LogOrder
  <2>2. ASSUME NEW j \in 1..Len(datas), k = Len(log) + j
        PROVE  /\ Sorted(log'[k]) /\ UpTo(log'[k], conn', sent')
               /\ Precedes(log'[k], pending') /\ Precedes(log'[k], partial')
    BY <1>1, <2>2
  <2> QED
    BY <1>1, <2>1, <2>2
<1>3. ASSUME NEW k \in 1..Len(log'), NEW m \in 1..Len(log'), k < m PROVE Precedes(log'[k], log'[m])
  <2>1. CASE m \in 1..Len(log)
    <3>1. k \in 1..Len(log)
      BY <1>1, <1>3, <2>1
    <3> QED
      BY <1>1, <1>3, <2>1, <3>1 DEF LogOrder
  <2>2. ASSUME NEW j \in 1..Len(datas), m = Len(log) + j PROVE Precedes(log'[k], log'[m])
    <3>1. CASE k \in 1..Len(log)
      BY <1>1, <2>2, <3>1
    <3>2. ASSUME NEW i \in 1..Len(datas), k = Len(log) + i PROVE Precedes(log'[k], log'[m])
      <4>1. i < j
        BY <1>1, <1>3, <2>2, <3>2
      <4> QED
        BY <1>1, <2>2, <3>2, <4>1
    <3> QED
      BY <1>1, <3>1, <3>2
  <2> QED
    BY <1>1, <2>1, <2>2
<1> QED
  BY <1>2, <1>3 DEF OrderInv, LogOrder

\* What a write hands over is newer than every byte before it.
LEMMA WriteOrders ==
  ASSUME IInv, OrderInv, NEW n \in 1..MaxWrite, Write(n)
  PROVE  OrderInv'
<1> DEFINE fresh    == [i \in 1..n |-> [conn |-> conn, off |-> sent + i]]
           combined == partial \o fresh
           packets  == pending \o WholePart(combined, TSPacketSize)
           datas    == FullChunks(packets)
<1>0. /\ n \in Nat /\ conn \in Nat /\ sent \in Nat /\ partial \in Seq(Byte) /\ pending \in Seq(Byte)
      /\ log \in Seq(Seq(Byte)) /\ TSPacketSize \in Nat \ {0} /\ ChunkBytes \in Nat \ {0}
  BY ConstantsAssumption DEF IInv, TypeOK
<1>1. /\ fresh \in Seq(Byte) /\ Len(fresh) = n
      /\ \A i \in 1..n : fresh[i].conn = conn /\ fresh[i].off = sent + i
  BY <1>0 DEF Byte
<1>2. /\ partial' = Leftover(combined, TSPacketSize)
      /\ pending' = Leftover(packets, ChunkBytes)
      /\ Publish(datas)
      /\ sent' = sent + n /\ conn' = conn
  BY DEF Write
<1> HIDE DEF fresh
<1>3. Sorted(fresh) /\ \A y \in Bytes(fresh) : y.conn = conn /\ y.off \in Nat /\ y.off > sent
        /\ y.off <= sent + n
  <2>1. Sorted(fresh)
    BY <1>0, <1>1 DEF Sorted, Before
  <2>2. \A i \in 1..n : fresh[i].off \in Nat /\ fresh[i].off > sent /\ fresh[i].off <= sent + n
    BY <1>0, <1>1
  <2> QED
    BY <1>1, <2>1, <2>2 DEF Bytes
<1>4. ASSUME NEW s \in Seq(Byte), UpTo(s, conn, sent)
      PROVE  Precedes(s, fresh) /\ UpTo(s, conn', sent')
  <2>1. \A x \in Bytes(s) : x.conn \in Nat /\ x.off \in Nat
    BY BytesAreBytes
  <2> QED
    BY <1>0, <1>2, <1>3, <1>4, <2>1 DEF UpTo, Precedes, Before
<1>5. /\ combined \in Seq(Byte) /\ Sorted(combined)
           /\ Bytes(combined) = Bytes(partial) \cup Bytes(fresh)
  BY <1>0, <1>1, <1>3, <1>4, BytesConcat, SortedConcat, ConcatProperties DEF OrderInv, TailOrder
<1> HIDE DEF combined
<1>6. UpTo(combined, conn', sent') /\ Precedes(pending, combined)
  <2>1. UpTo(fresh, conn', sent')
    BY <1>2, <1>3 DEF UpTo
  <2>2. UpTo(partial, conn', sent') /\ Precedes(pending, fresh) /\ Precedes(pending, partial)
    BY <1>0, <1>4 DEF OrderInv, TailOrder
  <2> QED
    BY <1>5, <2>1, <2>2 DEF UpTo, Precedes
<1>7. \A k \in 1..Len(log) : Precedes(log[k], pending) /\ Precedes(log[k], combined)
                               /\ UpTo(log[k], conn', sent')
  <2>1. \A k \in 1..Len(log) : Precedes(log[k], fresh) /\ UpTo(log[k], conn', sent')
    BY <1>0, <1>4, ElementOfSeq DEF OrderInv, LogOrder
  <2> QED
    BY <1>5, <2>1 DEF OrderInv, LogOrder, Precedes
<1> DEFINE head_ == WholePart(combined, TSPacketSize)
<1>8. /\ head_ \in Seq(Byte) /\ Sorted(head_) /\ Bytes(head_) \subseteq Bytes(combined)
      /\ Sorted(partial') /\ Bytes(partial') \subseteq Bytes(combined) /\ Precedes(head_, partial')
  BY <1>0, <1>2, <1>5, CutSorted, WholePartType
<1> HIDE DEF head_
<1>9. packets \in Seq(Byte) /\ Sorted(packets) /\ Bytes(packets) = Bytes(pending) \cup Bytes(head_)
  <2>1. Precedes(pending, head_)
    BY <1>6, <1>8 DEF Precedes
  <2>2. packets = pending \o head_
    BY DEF head_
  <2> HIDE DEF packets
  <2> QED
    BY <1>0, <1>8, <2>1, <2>2, BytesConcat, SortedConcat, ConcatProperties DEF OrderInv, TailOrder
<1>10. /\ UpTo(packets, conn', sent') /\ Precedes(packets, partial')
       /\ \A k \in 1..Len(log) : Precedes(log[k], packets)
  <2>1. UpTo(pending, conn', sent') /\ UpTo(head_, conn', sent')
    BY <1>0, <1>4, <1>6, <1>8 DEF OrderInv, TailOrder, UpTo
  <2>2. Precedes(pending, partial')
    BY <1>6, <1>8 DEF Precedes
  <2> QED
    BY <1>7, <1>8, <1>9, <2>1, <2>2 DEF UpTo, Precedes
<1> HIDE DEF packets
<1>11. /\ Sorted(pending') /\ Bytes(pending') \subseteq Bytes(packets)
       /\ \A j \in 1..Len(datas) :
            /\ Sorted(datas[j]) /\ Bytes(datas[j]) \subseteq Bytes(packets)
                 /\ Precedes(datas[j], pending')
       /\ \A j, m \in 1..Len(datas) : j < m => Precedes(datas[j], datas[m])
       /\ datas \in Seq(Seq(Byte))
  BY <1>0, <1>2, <1>9, CutSorted, ChunksSorted, FullChunksType
<1> HIDE DEF datas
<1>12. TailOrder'
  <2>1. Precedes(pending', partial') /\ UpTo(pending', conn', sent')
    BY <1>10, <1>11 DEF Precedes, UpTo
  <2>2. UpTo(partial', conn', sent')
    BY <1>6, <1>8 DEF UpTo
  <2> QED
    BY <1>8, <1>11, <2>1, <2>2 DEF TailOrder
<1>13. \A j \in 1..Len(datas) : UpTo(datas[j], conn', sent') /\ Precedes(datas[j], partial')
  BY <1>10, <1>11 DEF UpTo, Precedes
<1>14. \A k \in 1..Len(log) : Precedes(log[k], pending') /\ Precedes(log[k], partial')
                               /\ \A j \in 1..Len(datas) : Precedes(log[k], datas[j])
  BY <1>7, <1>8, <1>10, <1>11 DEF Precedes
<1> QED
  BY <1>2, <1>7, <1>11, <1>12, <1>13, <1>14, PublishOrders DEF OrderInv

\* Every step keeps the bytes in order.
LEMMA NextOrderInv == IInv /\ PacketInv /\ OrderInv /\ [Next]_vars => OrderInv'
<1> SUFFICES ASSUME IInv, PacketInv, OrderInv, [Next]_vars PROVE OrderInv'
  OBVIOUS
<1>0. /\ TailInv /\ conn \in Nat /\ sent \in Nat /\ partial \in Seq(Byte) /\ pending \in Seq(Byte)
      /\ log \in Seq(Seq(Byte))
  BY DEF PacketInv, IInv, TypeOK
<1>e. /\ Bytes(<< >>) = {} /\ Sorted(<< >>)
  BY DEF Bytes, Sorted
<1>1. CASE MarkBoundary
  <2> DEFINE datas == IF Len(pending) > 0 /\ ~closed THEN <<pending>> ELSE << >>
  <2>1. /\ datas \in Seq(Seq(Byte)) /\ Publish(datas) /\ conn' = conn + 1 /\ sent' = 0
        /\ pending' = << >> /\ partial' = << >>
    BY <1>0, <1>1 DEF MarkBoundary
  <2>2. ASSUME NEW s \in Seq(Byte), UpTo(s, conn, sent) PROVE UpTo(s, conn', sent')
    <3>1. \A x \in Bytes(s) : x.conn \in Nat /\ x.off \in Nat
      BY BytesAreBytes
    <3> QED
      BY SMTT(20), <1>0, <2>1, <2>2, <3>1 DEF UpTo
  <2>3. TailOrder'
    BY <1>e, <2>1 DEF TailOrder, Precedes, UpTo
  <2>4. \A j \in 1..Len(datas) : datas[j] = pending
    OBVIOUS
  <2>5. \A j, m \in 1..Len(datas) : ~(j < m)
    OBVIOUS
  <2> HIDE DEF datas
  <2>6. UpTo(pending, conn', sent') /\ \A k \in 1..Len(log) : UpTo(log[k], conn', sent')
    BY <1>0, <2>2, ElementOfSeq DEF OrderInv, TailOrder, LogOrder
  <2>7. \A s : Precedes(s, pending') /\ Precedes(s, partial')
    BY <1>e, <2>1 DEF Precedes
  <2> QED
    BY <2>1, <2>3, <2>4, <2>5, <2>6, <2>7, PublishOrders DEF OrderInv, TailOrder, LogOrder
<1>2. ASSUME NEW n \in 1..MaxWrite, Write(n) PROVE OrderInv'
  BY <1>2, WriteOrders
<1>3. CASE ~MarkBoundary /\ ~(\E n \in 1..MaxWrite : Write(n))
  <2>1. /\ UNCHANGED <<head, log, conn, sent>>
        /\ pending' \in {pending, << >>} /\ partial' \in {partial, << >>}
    BY <1>0, <1>3, OthersPublishNothing
  <2>2. /\ Sorted(pending') /\ Bytes(pending') \subseteq Bytes(pending)
        /\ Sorted(partial') /\ Bytes(partial') \subseteq Bytes(partial)
    BY <1>e, <2>1 DEF OrderInv, TailOrder
  <2>3. TailOrder'
    BY <2>1, <2>2 DEF OrderInv, TailOrder, Precedes, UpTo
  <2>4. LogOrder'
    BY <2>1, <2>2 DEF OrderInv, LogOrder, Precedes, UpTo
  <2> QED
    BY <2>3, <2>4 DEF OrderInv
<1> QED
  BY <1>1, <1>2, <1>3

\* No byte is published twice or out of order.
THEOREM RingOrder == Spec => []BytesInOrder
<1>1. Init => IInv /\ PacketInv /\ OrderInv
  <2> SUFFICES ASSUME Init PROVE PacketInv /\ OrderInv
    BY InitIInv
  <2>1. Packets(0)
    BY ConstantsAssumption DEF Packets
  <2>2. PacketInv
    BY <2>1 DEF Init, PacketInv, TailInv, Packed, Joined, ConnOf
  <2>3. OrderInv
    BY DEF Init, OrderInv, TailOrder, LogOrder, Sorted, Precedes, UpTo, Bytes
  <2> QED
    BY <2>2, <2>3
<1>2. IInv /\ PacketInv /\ OrderInv /\ [Next]_vars => IInv' /\ PacketInv' /\ OrderInv'
  BY NextIInv, NextPacketInv, NextOrderInv
<1>3. IInv /\ PacketInv /\ OrderInv => BytesInOrder
  <2> SUFFICES ASSUME IInv, PacketInv, OrderInv PROVE BytesInOrder
    OBVIOUS
  <2>1. log \in Seq(Seq(Byte)) /\ Len(log) \in Nat
    BY DEF IInv, TypeOK
  <2>2. ASSUME NEW k \in 1..Len(log), NEW i \in 1..(Len(log[k]) - 1)
        PROVE  Before(log[k][i], log[k][i + 1])
    <3>1. log[k] \in Seq(Byte)
      BY <2>1, ElementOfSeq
    <3>2. i \in 1..Len(log[k]) /\ i + 1 \in 1..Len(log[k]) /\ i < i + 1
      BY <3>1
    <3> QED
      BY <3>2 DEF OrderInv, LogOrder, Sorted
  <2>3. ASSUME NEW k \in 1..(Len(log) - 1) PROVE Before(log[k][Len(log[k])], log[k + 1][1])
    <3>1. k \in 1..Len(log) /\ k + 1 \in 1..Len(log) /\ k < k + 1
      BY <2>1
    <3>2. Len(log[k]) \in 1..Len(log[k]) /\ 1 \in 1..Len(log[k + 1])
      <4>1. log[k] \in Seq(Byte) /\ log[k + 1] \in Seq(Byte) /\ Len(log[k]) > 0
              /\ Len(log[k + 1]) > 0
        BY <2>1, <3>1, ElementOfSeq DEF PacketInv, GoodChunk
      <4> QED
        BY <4>1
    <3> QED
      BY <3>1, <3>2 DEF OrderInv, LogOrder, Precedes, Bytes
  <2> QED
    BY <2>2, <2>3 DEF BytesInOrder
<1> QED
  BY <1>1, <1>2, <1>3, PTL DEF Spec
=============================================================================

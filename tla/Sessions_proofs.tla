-------------------------- MODULE Sessions_proofs --------------------------
(***************************************************************************)
(* The provider slots of the two proxies that run in the web processes:    *)
(* catch-up sessions (CatchUp) and films and episodes (VodSession), for    *)
(* any number of requests, sessions and profiles.  Neither shares a        *)
(* variable with the other.                                                *)
(***************************************************************************)
EXTENDS CatchUp, VodSession, FiniteSetTheorems, FunctionTheorems, TLAPS

----------------------------------------------------------------------------
(* Catch-up. *)

Entries == {NoFeed} \cup [on : Feeds, busy : BOOLEAN]

PoolT  == pooled \in Entries
LeaseT == leased \in [Feeds -> Nat]
SpotT  == spot \in [Gets -> Spots]
SawT   == saw \in [Gets -> Feeds \cup {NoFeed}]
TriedT == tried \in [Gets -> 0..Len(FeedOrder)]
OwnT   == lease \in [Gets -> Feeds \cup {NoFeed}]
PastT  == displaced \subseteq Gets /\ strayed \in BOOLEAN

Using(g)   == spot[g] \in {"open", "ready", "body"}
Holding(g) == spot[g] \in {"open", "ready", "body", "close"} /\ g \notin displaced
Left(g)    == spot[g] \in {"unseat", "drop", "forget"}
Waiting(g) == spot[g] \in {"register", "refund"}

Registers == \A g \in Gets : Waiting(g) => lease[g] \in Feeds

\* The slot of a busy entry has one holder, or one that has just given it back.
OnlyUsers == \A g \in displaced : Using(g)
OnePart   == \A g, h \in Gets : (Holding(g) \/ Left(g)) /\ (Holding(h) \/ Left(h)) => g = h
HeldBusy  == \A g \in Gets : Holding(g) => Busy(pooled) /\ lease[g] = pooled.on
LeftBusy  == \A g \in Gets : Left(g) => Busy(pooled)

Reserved(f) == {g \in Gets : Waiting(g) /\ lease[g] = f}
SeatOn(f)   == IF Busy(pooled) /\ pooled.on = f THEN 1 ELSE 0
Gone        == \E g \in Gets : Left(g)
Sat(f)      == IF Gone THEN 0 ELSE SeatOn(f)
Counted     == \A f \in Feeds : leased[f] = Cardinality(Reserved(f)) + Sat(f)

\* An entry of the pool is a profile of the session's and a flag.
LEMMA EntryFields ==
  /\ \A e \in Entries : Pooled(e) => e.on \in Feeds /\ e.busy \in BOOLEAN
                          /\ e \in [on : Feeds, busy : BOOLEAN]
  /\ \A f \in Feeds : [on |-> f, busy |-> TRUE] \in Entries /\ Busy([on |-> f, busy |-> TRUE])
  /\ NoFeed \notin Feeds /\ ~Pooled(NoFeed) /\ ~Busy(NoFeed)
<1>1. NoFeed \notin Feeds /\ NoFeed \notin [on : Feeds, busy : BOOLEAN]
  BY CatchUpAssumption
<1>2. ASSUME NEW e \in Entries, Pooled(e)
      PROVE  e.on \in Feeds /\ e.busy \in BOOLEAN /\ e \in [on : Feeds, busy : BOOLEAN]
  BY <1>2 DEF Entries, Pooled
<1>3. ASSUME NEW f \in Feeds
      PROVE  [on |-> f, busy |-> TRUE] \in Entries /\ Busy([on |-> f, busy |-> TRUE])
  <2>1. [on |-> f, busy |-> TRUE] \in [on : Feeds, busy : BOOLEAN]
    OBVIOUS
  <2>2. [on |-> f, busy |-> TRUE] # NoFeed
    BY <2>1, <1>1
  <2> QED
    BY <2>1, <2>2 DEF Entries, Busy, Pooled
<1>4. ~Pooled(NoFeed) /\ ~Busy(NoFeed)
  BY DEF Pooled, Busy
<1> QED
  BY <1>1, <1>2, <1>3, <1>4

\* What a slot taken, and one given back, make of the counters.
LEMMA LeaseCounts ==
  ASSUME LeaseT, NEW f \in Feeds, Lease(f)
  PROVE  LeaseT' /\ leased'[f] = leased[f] + 1 /\ \A e \in Feeds \ {f} : leased'[e] = leased[e]
BY DEF LeaseT, Lease

\* Giving a slot back takes it off its profile's counter, and no other's.
LEMMA ReturnCounts ==
  ASSUME LeaseT, NEW f, Return(f)
  PROVE  /\ LeaseT'
         /\ f \in Feeds => leased'[f] = IF leased[f] > 0 THEN leased[f] - 1 ELSE leased[f]
         /\ \A e \in Feeds \ {f} : leased'[e] = leased[e]
<1>1. leased \in [Feeds -> Nat]
  BY DEF LeaseT
<1>2. leased' = [leased EXCEPT ![f] = IF @ > 0 THEN @ - 1 ELSE @]
  BY DEF Return
<1>3. \A e \in Feeds : leased'[e] = IF e = f THEN (IF leased[f] > 0 THEN leased[f] - 1 ELSE leased[f]) ELSE leased[e]
  BY <1>1, <1>2
<1>4. \A e \in Feeds : leased[e] \in Nat
  BY <1>1
<1>5. \A e \in Feeds : leased'[e] \in Nat
  BY <1>3, <1>4
<1>6. leased' = [e \in Feeds |-> leased'[e]]
  BY <1>1, <1>2
<1>7. LeaseT'
  BY <1>5, <1>6 DEF LeaseT
<1> QED
  BY <1>3, <1>7

\* Every step keeps what the variables range over.
LEMMA StepTypes ==
  ASSUME PoolT, LeaseT, SpotT, SawT, TriedT, OwnT, PastT, Registers,
         [CatchUpNext]_catchUpVars
  PROVE  PoolT' /\ LeaseT' /\ SpotT' /\ SawT' /\ TriedT' /\ OwnT' /\ PastT'
<1> USE DEF sharedKeys, ofGets
<1>1. ASSUME NEW g \in Gets, Look(g)
      PROVE  PoolT' /\ LeaseT' /\ SpotT' /\ SawT' /\ TriedT' /\ OwnT' /\ PastT'
  <2>1. PoolT'
    BY <1>1 DEF Look, PoolT
  <2>2. LeaseT'
    BY <1>1 DEF Look, LeaseT
  <2>3. SpotT'
    BY <1>1 DEF Look, Goto, Ends, SpotT, Spots
  <2>4. SawT'
    BY <1>1 DEF Look, Ends, SawT, PoolT, Entries, Pooled, Busy, SeenBusy
  <2>5. TriedT'
    BY <1>1 DEF Look, Ends, TriedT
  <2>6. OwnT'
    BY <1>1 DEF Look, Ends, OwnT
  <2>7. PastT'
    BY <1>1 DEF Look, Ends, PastT
  <2> QED
    BY <2>1, <2>2, <2>3, <2>4, <2>5, <2>6, <2>7
<1>2. ASSUME NEW g \in Gets, Acquire(g)
      PROVE  PoolT' /\ LeaseT' /\ SpotT' /\ SawT' /\ TriedT' /\ OwnT' /\ PastT'
  <2>1. PoolT'
    BY <1>2, EntryFields DEF Acquire, Acquirable, Seat, PoolT
  <2>2. LeaseT'
    BY <1>2 DEF Acquire, Lease, Seat, LeaseT
  <2>3. SpotT'
    BY <1>2 DEF Acquire, Goto, SpotT, Spots
  <2>4. SawT'
    BY <1>2 DEF Acquire, SawT
  <2>5. TriedT'
    BY <1>2 DEF Acquire, TriedT
  <2>6. OwnT'
    BY <1>2 DEF Acquire, Acquirable, OwnT, PoolT, Entries, Pooled
  <2>7. PastT'
    BY <1>2 DEF Acquire, PastT
  <2> QED
    BY <2>1, <2>2, <2>3, <2>4, <2>5, <2>6, <2>7
<1>3. ASSUME NEW g \in Gets, Preempt(g)
      PROVE  PoolT' /\ LeaseT' /\ SpotT' /\ SawT' /\ TriedT' /\ OwnT' /\ PastT'
  <2>1. PoolT'
    BY <1>3 DEF Preempt, PoolT
  <2>2. LeaseT'
    BY <1>3 DEF Preempt, LeaseT
  <2>3. SpotT'
    BY <1>3 DEF Preempt, Goto, SpotT, Spots
  <2>4. SawT'
    BY <1>3 DEF Preempt, SawT
  <2>5. TriedT'
    BY <1>3 DEF Preempt, TriedT
  <2>6. OwnT'
    BY <1>3 DEF Preempt, OwnT
  <2>7. PastT'
    BY <1>3 DEF Preempt, PastT
  <2> QED
    BY <2>1, <2>2, <2>3, <2>4, <2>5, <2>6, <2>7
<1>4. ASSUME NEW g \in Gets, TakeOver(g)
      PROVE  PoolT' /\ LeaseT' /\ SpotT' /\ SawT' /\ TriedT' /\ OwnT' /\ PastT'
  <2>1. PoolT'
    BY <1>4, EntryFields DEF TakeOver, Seat, PoolT
  <2>2. LeaseT'
    BY <1>4 DEF TakeOver, LeaseT
  <2>3. SpotT'
    BY <1>4 DEF TakeOver, Goto, Ends, SpotT, Spots
  <2>4. SawT'
    BY <1>4 DEF TakeOver, Ends, SawT
  <2>5. TriedT'
    BY <1>4 DEF TakeOver, Seat, Ends, TriedT
  <2>6. OwnT'
    BY <1>4 DEF TakeOver, Ends, OwnT, PoolT, Entries, Pooled
  <2>7. PastT'
    BY <1>4 DEF TakeOver, Ends, Displace, Stray, Users, Standing, PastT
  <2> QED
    BY <2>1, <2>2, <2>3, <2>4, <2>5, <2>6, <2>7
<1>5. ASSUME NEW g \in Gets, AbandonPool(g)
      PROVE  PoolT' /\ LeaseT' /\ SpotT' /\ SawT' /\ TriedT' /\ OwnT' /\ PastT'
  <2>1. PoolT'
    BY <1>5 DEF AbandonPool, PoolT
  <2>2. LeaseT'
    BY <1>5, ReturnCounts DEF AbandonPool
  <2>3. SpotT'
    BY <1>5 DEF AbandonPool, Goto, SpotT, Spots
  <2>4. SawT'
    BY <1>5 DEF AbandonPool, SawT
  <2>5. TriedT'
    BY <1>5 DEF AbandonPool, TriedT
  <2>6. OwnT'
    BY <1>5 DEF AbandonPool, OwnT
  <2>7. PastT'
    BY <1>5 DEF AbandonPool, Displace, Stray, Users, Standing, PastT
  <2> QED
    BY <2>1, <2>2, <2>3, <2>4, <2>5, <2>6, <2>7
<1>6. ASSUME NEW g \in Gets, ForgetPool(g)
      PROVE  PoolT' /\ LeaseT' /\ SpotT' /\ SawT' /\ TriedT' /\ OwnT' /\ PastT'
  <2>1. PoolT'
    BY <1>6 DEF ForgetPool, PoolT, Entries
  <2>2. LeaseT'
    BY <1>6 DEF ForgetPool, LeaseT
  <2>3. SpotT'
    BY <1>6 DEF ForgetPool, Goto, SpotT, Spots
  <2>4. SawT'
    BY <1>6 DEF ForgetPool, SawT
  <2>5. TriedT'
    BY <1>6 DEF ForgetPool, TriedT
  <2>6. OwnT'
    BY <1>6 DEF ForgetPool, OwnT
  <2>7. PastT'
    BY <1>6 DEF ForgetPool, PastT
  <2> QED
    BY <2>1, <2>2, <2>3, <2>4, <2>5, <2>6, <2>7
<1>7. ASSUME NEW g \in Gets, ReserveFeed(g)
      PROVE  PoolT' /\ LeaseT' /\ SpotT' /\ SawT' /\ TriedT' /\ OwnT' /\ PastT'
  <2>1. PoolT'
    BY <1>7 DEF ReserveFeed, PoolT
  <2>2. LeaseT'
    BY <1>7 DEF ReserveFeed, Lease, LeaseT
  <2>3. SpotT'
    BY <1>7 DEF ReserveFeed, Goto, Ends, SpotT, Spots
  <2>4. SawT'
    BY <1>7 DEF ReserveFeed, Ends, SawT
  <2>5. TriedT'
    BY <1>7 DEF ReserveFeed, Ends, TriedT
  <2>6. OwnT'
    <3>1. tried[g] < Len(FeedOrder) => FeedOrder[tried[g] + 1] \in Feeds
      BY CatchUpAssumption DEF TriedT
    <3>2. ASSUME NEW f \in Feeds, lease' = [lease EXCEPT ![g] = f] PROVE OwnT'
      BY <3>2 DEF OwnT
    <3>3. ASSUME lease' \in {lease, [lease EXCEPT ![g] = NoFeed]} PROVE OwnT'
      BY <3>3 DEF OwnT
    <3> QED
      BY <1>7, <3>1, <3>2, <3>3 DEF ReserveFeed, Ends
  <2>7. PastT'
    BY <1>7 DEF ReserveFeed, Ends, PastT
  <2> QED
    BY <2>1, <2>2, <2>3, <2>4, <2>5, <2>6, <2>7
<1>8. ASSUME NEW g \in Gets, Register(g)
      PROVE  PoolT' /\ LeaseT' /\ SpotT' /\ SawT' /\ TriedT' /\ OwnT' /\ PastT'
  <2>1. PoolT'
    <3>1. spot[g] = "register" => lease[g] \in Feeds
      BY DEF Registers, Waiting
    <3> QED
      BY <1>8, <3>1, EntryFields DEF Register, Seat, Goto, PoolT
  <2>2. LeaseT'
    BY <1>8 DEF Register, LeaseT
  <2>3. SpotT'
    BY <1>8 DEF Register, Goto, SpotT, Spots
  <2>4. SawT'
    BY <1>8 DEF Register, SawT
  <2>5. TriedT'
    BY <1>8 DEF Register, TriedT
  <2>6. OwnT'
    BY <1>8 DEF Register, OwnT
  <2>7. PastT'
    BY <1>8 DEF Register, PastT
  <2> QED
    BY <2>1, <2>2, <2>3, <2>4, <2>5, <2>6, <2>7
<1>9. ASSUME NEW g \in Gets, RefundFeed(g)
      PROVE  PoolT' /\ LeaseT' /\ SpotT' /\ SawT' /\ TriedT' /\ OwnT' /\ PastT'
  <2>1. PoolT'
    BY <1>9 DEF RefundFeed, PoolT
  <2>2. LeaseT'
    BY <1>9, ReturnCounts DEF RefundFeed
  <2>3. SpotT'
    BY <1>9 DEF RefundFeed, Ends, Goto, SpotT, Spots
  <2>4. SawT'
    BY <1>9 DEF RefundFeed, Ends, SawT
  <2>5. TriedT'
    BY <1>9 DEF RefundFeed, Ends, TriedT
  <2>6. OwnT'
    BY <1>9 DEF RefundFeed, Ends, OwnT
  <2>7. PastT'
    BY <1>9 DEF RefundFeed, Ends, PastT
  <2> QED
    BY <2>1, <2>2, <2>3, <2>4, <2>5, <2>6, <2>7
<1>10. ASSUME NEW g \in Gets, Opened(g)
       PROVE  PoolT' /\ LeaseT' /\ SpotT' /\ SawT' /\ TriedT' /\ OwnT' /\ PastT'
  <2>1. PoolT'
    BY <1>10 DEF Opened, PoolT
  <2>2. LeaseT'
    BY <1>10 DEF Opened, LeaseT
  <2>3. SpotT'
    BY <1>10 DEF Opened, Goto, SpotT, Spots
  <2>4. SawT'
    BY <1>10 DEF Opened, SawT
  <2>5. TriedT'
    BY <1>10 DEF Opened, TriedT
  <2>6. OwnT'
    BY <1>10 DEF Opened, OwnT
  <2>7. PastT'
    BY <1>10 DEF Opened, PastT
  <2> QED
    BY <2>1, <2>2, <2>3, <2>4, <2>5, <2>6, <2>7
<1>11. ASSUME NEW g \in Gets, NotOpened(g)
       PROVE  PoolT' /\ LeaseT' /\ SpotT' /\ SawT' /\ TriedT' /\ OwnT' /\ PastT'
  <2>1. PoolT'
    BY <1>11 DEF NotOpened, PoolT
  <2>2. LeaseT'
    BY <1>11, ReturnCounts DEF NotOpened
  <2>3. SpotT'
    BY <1>11 DEF NotOpened, Goto, SpotT, Spots
  <2>4. SawT'
    BY <1>11 DEF NotOpened, SawT
  <2>5. TriedT'
    BY <1>11 DEF NotOpened, TriedT
  <2>6. OwnT'
    BY <1>11 DEF NotOpened, OwnT
  <2>7. PastT'
    BY <1>11 DEF NotOpened, Stray, PastT
  <2> QED
    BY <2>1, <2>2, <2>3, <2>4, <2>5, <2>6, <2>7
<1>12. ASSUME NEW g \in Gets, Drop(g)
       PROVE  PoolT' /\ LeaseT' /\ SpotT' /\ SawT' /\ TriedT' /\ OwnT' /\ PastT'
  <2>1. PoolT'
    BY <1>12 DEF Drop, PoolT, Entries
  <2>2. LeaseT'
    BY <1>12 DEF Drop, LeaseT
  <2>3. SpotT'
    BY <1>12 DEF Drop, Goto, SpotT, Spots
  <2>4. SawT'
    BY <1>12 DEF Drop, SawT
  <2>5. TriedT'
    BY <1>12 DEF Drop, TriedT
  <2>6. OwnT'
    BY <1>12 DEF Drop, OwnT
  <2>7. PastT'
    BY <1>12 DEF Drop, PastT
  <2> QED
    BY <2>1, <2>2, <2>3, <2>4, <2>5, <2>6, <2>7
<1>13. ASSUME NEW g \in Gets, StreamBegins(g)
       PROVE  PoolT' /\ LeaseT' /\ SpotT' /\ SawT' /\ TriedT' /\ OwnT' /\ PastT'
  <2>1. PoolT'
    BY <1>13 DEF StreamBegins, PoolT
  <2>2. LeaseT'
    BY <1>13 DEF StreamBegins, LeaseT
  <2>3. SpotT'
    BY <1>13 DEF StreamBegins, Goto, SpotT, Spots
  <2>4. SawT'
    BY <1>13 DEF StreamBegins, SawT
  <2>5. TriedT'
    BY <1>13 DEF StreamBegins, TriedT
  <2>6. OwnT'
    BY <1>13 DEF StreamBegins, OwnT
  <2>7. PastT'
    BY <1>13 DEF StreamBegins, PastT
  <2> QED
    BY <2>1, <2>2, <2>3, <2>4, <2>5, <2>6, <2>7
<1>14. ASSUME NEW g \in Gets, StreamNeverBegins(g)
       PROVE  PoolT' /\ LeaseT' /\ SpotT' /\ SawT' /\ TriedT' /\ OwnT' /\ PastT'
  <2>1. PoolT'
    BY <1>14 DEF StreamNeverBegins, PoolT
  <2>2. LeaseT'
    BY <1>14 DEF StreamNeverBegins, LeaseT
  <2>3. SpotT'
    BY <1>14 DEF StreamNeverBegins, Goto, SpotT, Spots
  <2>4. SawT'
    BY <1>14 DEF StreamNeverBegins, SawT
  <2>5. TriedT'
    BY <1>14 DEF StreamNeverBegins, TriedT
  <2>6. OwnT'
    BY <1>14 DEF StreamNeverBegins, OwnT
  <2>7. PastT'
    BY <1>14 DEF StreamNeverBegins, Stray, PastT
  <2> QED
    BY <2>1, <2>2, <2>3, <2>4, <2>5, <2>6, <2>7
<1>15. ASSUME NEW g \in Gets, StreamEnds(g)
       PROVE  PoolT' /\ LeaseT' /\ SpotT' /\ SawT' /\ TriedT' /\ OwnT' /\ PastT'
  <2>1. PoolT'
    BY <1>15 DEF StreamEnds, PoolT
  <2>2. LeaseT'
    BY <1>15 DEF StreamEnds, LeaseT
  <2>3. SpotT'
    BY <1>15 DEF StreamEnds, Goto, Ends, SpotT, Spots
  <2>4. SawT'
    BY <1>15 DEF StreamEnds, Ends, SawT
  <2>5. TriedT'
    BY <1>15 DEF StreamEnds, Ends, TriedT
  <2>6. OwnT'
    BY <1>15 DEF StreamEnds, Ends, OwnT
  <2>7. PastT'
    BY <1>15 DEF StreamEnds, Ends, Stray, PastT
  <2> QED
    BY <2>1, <2>2, <2>3, <2>4, <2>5, <2>6, <2>7
<1>16. ASSUME NEW g \in Gets, Close(g)
       PROVE  PoolT' /\ LeaseT' /\ SpotT' /\ SawT' /\ TriedT' /\ OwnT' /\ PastT'
  <2>1. PoolT'
    BY <1>16 DEF Close, PoolT
  <2>2. LeaseT'
    BY <1>16, ReturnCounts DEF Close
  <2>3. SpotT'
    BY <1>16 DEF Close, Goto, SpotT, Spots
  <2>4. SawT'
    BY <1>16 DEF Close, SawT
  <2>5. TriedT'
    BY <1>16 DEF Close, TriedT
  <2>6. OwnT'
    BY <1>16 DEF Close, OwnT
  <2>7. PastT'
    BY <1>16 DEF Close, PastT
  <2> QED
    BY <2>1, <2>2, <2>3, <2>4, <2>5, <2>6, <2>7
<1>17. ASSUME NEW g \in Gets, Unseat(g)
       PROVE  PoolT' /\ LeaseT' /\ SpotT' /\ SawT' /\ TriedT' /\ OwnT' /\ PastT'
  <2>1. PoolT'
    <3>1. Pooled(pooled) => [pooled EXCEPT !.busy = FALSE] \in Entries
      BY EntryFields DEF PoolT, Entries
    <3> QED
      BY <1>17, <3>1 DEF Unseat, PoolT
  <2>2. LeaseT'
    BY <1>17 DEF Unseat, LeaseT
  <2>3. SpotT'
    BY <1>17 DEF Unseat, Ends, Goto, SpotT, Spots
  <2>4. SawT'
    BY <1>17 DEF Unseat, Ends, SawT
  <2>5. TriedT'
    BY <1>17 DEF Unseat, Ends, TriedT
  <2>6. OwnT'
    BY <1>17 DEF Unseat, Ends, OwnT
  <2>7. PastT'
    BY <1>17 DEF Unseat, Ends, PastT
  <2> QED
    BY <2>1, <2>2, <2>3, <2>4, <2>5, <2>6, <2>7
<1>18. CASE GraceEnds
  <2>1. PoolT'
    BY <1>18 DEF GraceEnds, PoolT
  <2>2. LeaseT'
    BY <1>18 DEF GraceEnds, LeaseT
  <2>3. SpotT'
    BY <1>18 DEF GraceEnds, SpotT
  <2>4. SawT'
    BY <1>18 DEF GraceEnds, SawT
  <2>5. TriedT'
    BY <1>18 DEF GraceEnds, TriedT
  <2>6. OwnT'
    BY <1>18 DEF GraceEnds, OwnT
  <2>7. PastT'
    BY <1>18 DEF GraceEnds, PastT
  <2> QED
    BY <2>1, <2>2, <2>3, <2>4, <2>5, <2>6, <2>7
<1>19. CASE GraceDrops
  <2>1. PoolT'
    BY <1>19 DEF GraceDrops, PoolT, Entries
  <2>2. LeaseT'
    BY <1>19 DEF GraceDrops, LeaseT
  <2>3. SpotT'
    BY <1>19 DEF GraceDrops, SpotT
  <2>4. SawT'
    BY <1>19 DEF GraceDrops, SawT
  <2>5. TriedT'
    BY <1>19 DEF GraceDrops, TriedT
  <2>6. OwnT'
    BY <1>19 DEF GraceDrops, OwnT
  <2>7. PastT'
    BY <1>19 DEF GraceDrops, Stray, PastT
  <2> QED
    BY <2>1, <2>2, <2>3, <2>4, <2>5, <2>6, <2>7
<1>20. CASE Expire
  <2>1. PoolT'
    BY <1>20 DEF Expire, PoolT, Entries
  <2>2. LeaseT'
    BY <1>20 DEF Expire, LeaseT
  <2>3. SpotT'
    BY <1>20 DEF Expire, SpotT
  <2>4. SawT'
    BY <1>20 DEF Expire, SawT
  <2>5. TriedT'
    BY <1>20 DEF Expire, TriedT
  <2>6. OwnT'
    BY <1>20 DEF Expire, OwnT
  <2>7. PastT'
    BY <1>20 DEF Expire, PastT
  <2> QED
    BY <2>1, <2>2, <2>3, <2>4, <2>5, <2>6, <2>7
<1>21. CASE UNCHANGED catchUpVars
  <2>1. PoolT'
    BY <1>21 DEF catchUpVars, PoolT
  <2>2. LeaseT'
    BY <1>21 DEF catchUpVars, LeaseT
  <2>3. SpotT'
    BY <1>21 DEF catchUpVars, SpotT
  <2>4. SawT'
    BY <1>21 DEF catchUpVars, SawT
  <2>5. TriedT'
    BY <1>21 DEF catchUpVars, TriedT
  <2>6. OwnT'
    BY <1>21 DEF catchUpVars, OwnT
  <2>7. PastT'
    BY <1>21 DEF catchUpVars, PastT
  <2> QED
    BY <2>1, <2>2, <2>3, <2>4, <2>5, <2>6, <2>7
<1> QED
  BY <1>1, <1>2, <1>3, <1>4, <1>5, <1>6, <1>7, <1>8, <1>9, <1>10, <1>11, <1>12, <1>13, <1>14,
     <1>15, <1>16, <1>17, <1>18, <1>19, <1>20, <1>21 DEF CatchUpNext, GetTakes, GetOpens,
     GetStreams, Lapse

\* A step of one GET's: where it was, where it is, and that no other moved.
LEMMA OneMoves ==
  ASSUME SpotT, NEW g \in Gets, NEW from, NEW to, Goto(g, from, to)
  PROVE  spot[g] = from /\ spot'[g] = to /\ \A h \in Gets \ {g} : spot'[h] = spot[h]
BY DEF SpotT, Goto

\* A GET that ends leaves no part of the hand-over behind.
LEMMA OneEnds ==
  ASSUME SpotT, OwnT, NEW g \in Gets, NEW from, Ends(g, from)
  PROVE  /\ spot[g] = from /\ spot'[g] = "done"
         /\ \A h \in Gets \ {g} : spot'[h] = spot[h] /\ lease'[h] = lease[h]
         /\ displaced' = displaced \ {g}
BY DEF SpotT, OwnT, Goto, Ends

\* An idle entry, or none: no GET has the slot, and none has just left it.
LEMMA IdleIsFree ==
  ASSUME HeldBusy, LeftBusy, ~Busy(pooled)
  PROVE  \A g \in Gets : ~Holding(g) /\ ~Left(g)
BY DEF HeldBusy, LeftBusy

\* A GET that has reserved and not registered knows its feed.
LEMMA StepRegisters ==
  ASSUME PoolT, LeaseT, SpotT, SawT, TriedT, OwnT, PastT, Registers,
         [CatchUpNext]_catchUpVars
  PROVE  Registers'
<1> USE DEF sharedKeys, ofGets
<1>1. ASSUME NEW g \in Gets, Look(g) PROVE Registers'
  BY <1>1 DEF Look, Goto, Ends, Registers, Waiting, SpotT, OwnT
<1>2. ASSUME NEW g \in Gets, Acquire(g) PROVE Registers'
  BY <1>2 DEF Acquire, Goto, Registers, Waiting, SpotT, OwnT
<1>3. ASSUME NEW g \in Gets, Preempt(g) PROVE Registers'
  BY <1>3 DEF Preempt, Goto, Registers, Waiting
<1>4. ASSUME NEW g \in Gets, TakeOver(g) PROVE Registers'
  BY <1>4 DEF TakeOver, Goto, Ends, Registers, Waiting, SpotT, OwnT
<1>5. ASSUME NEW g \in Gets, AbandonPool(g) PROVE Registers'
  BY <1>5 DEF AbandonPool, Goto, Registers, Waiting
<1>6. ASSUME NEW g \in Gets, ForgetPool(g) PROVE Registers'
  BY <1>6 DEF ForgetPool, Goto, Registers, Waiting
<1>7. ASSUME NEW g \in Gets, ReserveFeed(g) PROVE Registers'
  <2>1. tried[g] < Len(FeedOrder) => FeedOrder[tried[g] + 1] \in Feeds
    BY CatchUpAssumption DEF TriedT
  <2>2. ASSUME NEW f \in Feeds, lease' = [lease EXCEPT ![g] = f], Goto(g, "reserve", "register")
        PROVE  Registers'
    BY <2>2, OneMoves DEF OwnT, Registers, Waiting
  <2>3. CASE Ends(g, "reserve")
    BY <2>3, OneEnds DEF Registers, Waiting
  <2> QED
    BY <1>7, <2>1, <2>2, <2>3 DEF ReserveFeed, Registers, Waiting
<1>8. ASSUME NEW g \in Gets, Register(g) PROVE Registers'
  BY <1>8 DEF Register, Goto, Registers, Waiting, SpotT
<1>9. ASSUME NEW g \in Gets, RefundFeed(g) PROVE Registers'
  BY <1>9 DEF RefundFeed, Ends, Goto, Registers, Waiting, SpotT
<1>10. ASSUME NEW g \in Gets, Opened(g) PROVE Registers'
  BY <1>10 DEF Opened, Goto, Registers, Waiting
<1>11. ASSUME NEW g \in Gets, NotOpened(g) PROVE Registers'
  BY <1>11 DEF NotOpened, Goto, Registers, Waiting, SpotT
<1>12. ASSUME NEW g \in Gets, Drop(g) PROVE Registers'
  BY <1>12 DEF Drop, Goto, Registers, Waiting
<1>13. ASSUME NEW g \in Gets, StreamBegins(g) PROVE Registers'
  BY <1>13 DEF StreamBegins, Goto, Registers, Waiting
<1>14. ASSUME NEW g \in Gets, StreamNeverBegins(g) PROVE Registers'
  BY <1>14 DEF StreamNeverBegins, Goto, Registers, Waiting
<1>15. ASSUME NEW g \in Gets, StreamEnds(g) PROVE Registers'
  BY <1>15 DEF StreamEnds, Goto, Ends, Registers, Waiting, SpotT, OwnT
<1>16. ASSUME NEW g \in Gets, Close(g) PROVE Registers'
  BY <1>16 DEF Close, Goto, Registers, Waiting
<1>17. ASSUME NEW g \in Gets, Unseat(g) PROVE Registers'
  BY <1>17 DEF Unseat, Ends, Goto, Registers, Waiting
<1>18. CASE GraceEnds
  BY <1>18 DEF GraceEnds, Registers, Waiting
<1>19. CASE GraceDrops
  BY <1>19 DEF GraceDrops, Registers, Waiting
<1>20. CASE Expire
  BY <1>20 DEF Expire, Registers, Waiting
<1>21. CASE UNCHANGED catchUpVars
  BY <1>21 DEF catchUpVars, Registers, Waiting
<1> QED
  BY <1>1, <1>2, <1>3, <1>4, <1>5, <1>6, <1>7, <1>8, <1>9, <1>10, <1>11, <1>12, <1>13, <1>14,
     <1>15, <1>16, <1>17, <1>18, <1>19, <1>20, <1>21 DEF CatchUpNext, GetTakes, GetOpens,
     GetStreams, Lapse

\* Until a session strays, every step keeps who has the slot, and that the
\* entry says so.
LEMMA StepPlaces ==
  ASSUME PoolT, LeaseT, SpotT, SawT, TriedT, OwnT, PastT,
         Registers, OnlyUsers, OnePart, HeldBusy, LeftBusy, ~strayed',
         [CatchUpNext]_catchUpVars
  PROVE  OnlyUsers' /\ OnePart' /\ HeldBusy' /\ LeftBusy'
<1> USE DEF sharedKeys, ofGets
<1>1. ASSUME NEW g \in Gets, Look(g) PROVE OnlyUsers' /\ OnePart' /\ HeldBusy' /\ LeftBusy'
  <2>1. OnlyUsers'
    BY <1>1 DEF Look, Goto, Ends, OnlyUsers, Using, SpotT, PastT
  <2>2. OnePart'
    BY <1>1 DEF Look, Goto, Ends, OnePart, Holding, Left, SpotT
  <2>3. HeldBusy'
    BY <1>1 DEF Look, Goto, Ends, HeldBusy, Holding, SpotT, OwnT
  <2>4. LeftBusy'
    BY <1>1 DEF Look, Goto, Ends, LeftBusy, Left, SpotT
  <2> QED
    BY <2>1, <2>2, <2>3, <2>4
<1>2. ASSUME NEW g \in Gets, Acquire(g) PROVE OnlyUsers' /\ OnePart' /\ HeldBusy' /\ LeftBusy'
  <2>1. OnlyUsers'
    BY <1>2 DEF Acquire, Goto, OnlyUsers, Using, SpotT, PastT
  <2>2. OnePart'
    BY <1>2 DEF Acquire, Acquirable, Seat, Goto, OnePart, Holding, Left, HeldBusy, LeftBusy, SpotT
  <2>3. HeldBusy'
    <3>1. CASE Acquirable /\ Lease(pooled.on) /\ Seat(pooled.on, TRUE) /\ Goto(g, "acquire", "open")
               /\ lease' = [lease EXCEPT ![g] = pooled.on]
      <4>1. pooled.on \in Feeds /\ \A h \in Gets : ~Holding(h)
        BY <3>1, EntryFields, IdleIsFree DEF Acquirable, PoolT
      <4>2. Busy(pooled') /\ pooled'.on = pooled.on /\ lease'[g] = pooled.on
        BY <3>1, <4>1, EntryFields DEF Seat, OwnT
      <4>3. \A h \in Gets \ {g} : ~Holding(h)'
        BY <1>2, <3>1, <4>1, OneMoves DEF Acquire, Holding
      <4> QED
        BY <4>2, <4>3 DEF HeldBusy
    <3>2. CASE Goto(g, "acquire", "reserve") /\ UNCHANGED <<pooled, leased, lease>>
      BY <1>2, <3>2 DEF Acquire, HeldBusy, Holding, Goto
    <3> QED
      BY <1>2, <3>1, <3>2 DEF Acquire
  <2>4. LeftBusy'
    BY <1>2 DEF Acquire, Acquirable, Goto, LeftBusy, Left, SpotT
  <2> QED
    BY <2>1, <2>2, <2>3, <2>4
<1>3. ASSUME NEW g \in Gets, Preempt(g) PROVE OnlyUsers' /\ OnePart' /\ HeldBusy' /\ LeftBusy'
  <2>1. OnlyUsers'
    BY <1>3 DEF Preempt, Goto, OnlyUsers, Using
  <2>2. OnePart'
    BY <1>3 DEF Preempt, Goto, OnePart, Holding, Left
  <2>3. HeldBusy'
    BY <1>3 DEF Preempt, Goto, HeldBusy, Holding
  <2>4. LeftBusy'
    BY <1>3 DEF Preempt, Goto, LeftBusy, Left
  <2> QED
    BY <2>1, <2>2, <2>3, <2>4
<1>4. ASSUME NEW g \in Gets, TakeOver(g) PROVE OnlyUsers' /\ OnePart' /\ HeldBusy' /\ LeftBusy'
  <2>1. OnlyUsers'
    BY <1>4 DEF TakeOver, Goto, Ends, Displace, Users, Standing, OnlyUsers, Using, SpotT, PastT
  <2>2. OnePart'
    <3>1. CASE Pooled(pooled) /\ Seat(pooled.on, TRUE) /\ Goto(g, "take", "open") /\ Displace(g)
               /\ Stray(~Busy(pooled) \/ Parting # {}) /\ lease' = [lease EXCEPT ![g] = pooled.on]
      <4>1. pooled.on \in Feeds
        BY <3>1, EntryFields DEF PoolT
      <4>2. Busy(pooled) /\ Parting = {}
        BY <3>1 DEF Stray
      <4>3. Busy(pooled') /\ pooled'.on = pooled.on /\ lease'[g] = pooled.on
        BY <3>1, <4>1, EntryFields DEF Seat, OwnT
      <4>4. ASSUME NEW h \in Gets \ {g} PROVE ~Holding(h)' /\ ~Left(h)'
        <5>1. spot'[h] = spot[h] /\ (Using(h) => h \in displaced')
          BY <3>1, OneMoves DEF Displace, Users, Standing, Using
        <5>2. spot[h] \notin {"unseat", "drop", "forget", "close"}
          BY <4>2 DEF Parting, Leaving, Standing
        <5> QED
          BY <5>1, <5>2 DEF Holding, Left, Using
      <4>5. ~Left(g)'
        BY <3>1, OneMoves DEF Left
      <4> QED
        BY <4>3, <4>4, <4>5 DEF OnePart
    <3>2. CASE Goto(g, "take", "abandon") /\ UNCHANGED <<pooled, ofGets, displaced, strayed>>
      BY <3>2, OneMoves DEF OnePart, Holding, Left
    <3>3. CASE Ends(g, "take") /\ UNCHANGED <<pooled, strayed>>
      BY <3>3, OneEnds DEF OnePart, Holding, Left
    <3> QED
      BY <1>4, <3>1, <3>2, <3>3 DEF TakeOver
  <2>3. HeldBusy'
    <3>1. CASE Pooled(pooled) /\ Seat(pooled.on, TRUE) /\ Goto(g, "take", "open") /\ Displace(g)
               /\ Stray(~Busy(pooled) \/ Parting # {}) /\ lease' = [lease EXCEPT ![g] = pooled.on]
      <4>1. pooled.on \in Feeds
        BY <3>1, EntryFields DEF PoolT
      <4>2. Busy(pooled) /\ Parting = {}
        BY <3>1 DEF Stray
      <4>3. Busy(pooled') /\ pooled'.on = pooled.on /\ lease'[g] = pooled.on
        BY <3>1, <4>1, EntryFields DEF Seat, OwnT
      <4>4. ASSUME NEW h \in Gets \ {g} PROVE ~Holding(h)' /\ ~Left(h)'
        <5>1. spot'[h] = spot[h] /\ (Using(h) => h \in displaced')
          BY <3>1, OneMoves DEF Displace, Users, Standing, Using
        <5>2. spot[h] \notin {"unseat", "drop", "forget", "close"}
          BY <4>2 DEF Parting, Leaving, Standing
        <5> QED
          BY <5>1, <5>2 DEF Holding, Left, Using
      <4>5. ~Left(g)'
        BY <3>1, OneMoves DEF Left
      <4> QED
        BY <4>3, <4>4, <4>5 DEF HeldBusy
    <3>2. CASE Goto(g, "take", "abandon") /\ UNCHANGED <<pooled, ofGets, displaced, strayed>>
      BY <3>2, OneMoves DEF HeldBusy, Holding
    <3>3. CASE Ends(g, "take") /\ UNCHANGED <<pooled, strayed>>
      BY <3>3, OneEnds DEF HeldBusy, Holding
    <3> QED
      BY <1>4, <3>1, <3>2, <3>3 DEF TakeOver
  <2>4. LeftBusy'
    BY <1>4 DEF TakeOver, Goto, Ends, Stray, Parting, Leaving, Standing, LeftBusy, Left, SpotT
  <2> QED
    BY <2>1, <2>2, <2>3, <2>4
<1>5. ASSUME NEW g \in Gets, AbandonPool(g) PROVE OnlyUsers' /\ OnePart' /\ HeldBusy' /\ LeftBusy'
  <2>1. OnlyUsers'
    BY <1>5 DEF AbandonPool, Goto, Displace, Users, Standing, OnlyUsers, Using
  <2>2. OnePart'
    BY <1>5 DEF AbandonPool, Goto, Displace, Stray, Parting, Leaving, Users, Standing, OnePart,
       Holding, Left, SpotT
  <2>3. HeldBusy'
    BY <1>5 DEF AbandonPool, Goto, Displace, HeldBusy, Holding
  <2>4. LeftBusy'
    BY <1>5 DEF AbandonPool, Stray, LeftBusy
  <2> QED
    BY <2>1, <2>2, <2>3, <2>4
<1>6. ASSUME NEW g \in Gets, ForgetPool(g) PROVE OnlyUsers' /\ OnePart' /\ HeldBusy' /\ LeftBusy'
  <2>1. OnlyUsers'
    BY <1>6 DEF ForgetPool, Goto, OnlyUsers, Using
  <2>2. OnePart'
    BY <1>6 DEF ForgetPool, Goto, OnePart, Holding, Left
  <2>3. HeldBusy'
    <3>1. Left(g) /\ \A h \in Gets \ {g} : ~Holding(h)
      BY <1>6 DEF ForgetPool, Goto, Left, OnePart
    <3>2. \A h \in Gets : ~Holding(h)'
      BY <1>6, <3>1, OneMoves DEF ForgetPool, Holding
    <3> QED
      BY <3>2 DEF HeldBusy
  <2>4. LeftBusy'
    BY <1>6 DEF ForgetPool, Goto, LeftBusy, Left, OnePart, SpotT
  <2> QED
    BY <2>1, <2>2, <2>3, <2>4
<1>7. ASSUME NEW g \in Gets, ReserveFeed(g) PROVE OnlyUsers' /\ OnePart' /\ HeldBusy' /\ LeftBusy'
  <2>1. OnlyUsers'
    BY <1>7 DEF ReserveFeed, Goto, Ends, OnlyUsers, Using, SpotT, PastT
  <2>2. OnePart'
    BY <1>7 DEF ReserveFeed, Goto, Ends, OnePart, Holding, Left, SpotT
  <2>3. HeldBusy'
    BY <1>7 DEF ReserveFeed, Goto, Ends, HeldBusy, Holding, SpotT, OwnT
  <2>4. LeftBusy'
    BY <1>7 DEF ReserveFeed, Goto, Ends, LeftBusy, Left, SpotT
  <2> QED
    BY <2>1, <2>2, <2>3, <2>4
<1>8. ASSUME NEW g \in Gets, Register(g) PROVE OnlyUsers' /\ OnePart' /\ HeldBusy' /\ LeftBusy'
  <2>1. OnlyUsers'
    BY <1>8 DEF Register, Goto, OnlyUsers, Using, SpotT, PastT
  <2>2. OnePart'
    BY <1>8 DEF Register, Seat, Goto, OnePart, Holding, Left, HeldBusy, LeftBusy, SpotT, Busy
  <2>3. HeldBusy'
    <3>1. CASE ~Pooled(pooled) /\ Seat(lease[g], TRUE) /\ Goto(g, "register", "open")
      <4>1. lease[g] \in Feeds /\ \A h \in Gets : ~Holding(h)
        BY <3>1, IdleIsFree DEF Busy, Goto, Registers, Waiting
      <4>2. Busy(pooled') /\ pooled'.on = lease[g] /\ lease' = lease
        BY <1>8, <3>1, <4>1, EntryFields DEF Register, Seat
      <4>3. \A h \in Gets \ {g} : ~Holding(h)'
        BY <1>8, <3>1, <4>1, OneMoves DEF Register, Holding
      <4> QED
        BY <4>2, <4>3 DEF HeldBusy
    <3>2. CASE Goto(g, "register", "refund") /\ UNCHANGED pooled
      BY <1>8, <3>2, OneMoves DEF Register, HeldBusy, Holding
    <3> QED
      BY <1>8, <3>1, <3>2 DEF Register
  <2>4. LeftBusy'
    BY <1>8 DEF Register, Goto, LeftBusy, Left, SpotT, Busy
  <2> QED
    BY <2>1, <2>2, <2>3, <2>4
<1>9. ASSUME NEW g \in Gets, RefundFeed(g) PROVE OnlyUsers' /\ OnePart' /\ HeldBusy' /\ LeftBusy'
  <2>1. OnlyUsers'
    BY <1>9 DEF RefundFeed, Ends, Goto, OnlyUsers, Using
  <2>2. OnePart'
    BY <1>9 DEF RefundFeed, Ends, Goto, OnePart, Holding, Left
  <2>3. HeldBusy'
    BY <1>9 DEF RefundFeed, Ends, Goto, HeldBusy, Holding
  <2>4. LeftBusy'
    BY <1>9 DEF RefundFeed, Ends, Goto, LeftBusy, Left
  <2> QED
    BY <2>1, <2>2, <2>3, <2>4
<1>10. ASSUME NEW g \in Gets, Opened(g) PROVE OnlyUsers' /\ OnePart' /\ HeldBusy' /\ LeftBusy'
  <2>1. OnlyUsers'
    BY <1>10 DEF Opened, Goto, OnlyUsers, Using
  <2>2. OnePart'
    BY <1>10 DEF Opened, Goto, OnePart, Holding, Left
  <2>3. HeldBusy'
    BY <1>10 DEF Opened, Goto, HeldBusy, Holding
  <2>4. LeftBusy'
    BY <1>10 DEF Opened, Goto, LeftBusy, Left
  <2> QED
    BY <2>1, <2>2, <2>3, <2>4
<1>11. ASSUME NEW g \in Gets, NotOpened(g) PROVE OnlyUsers' /\ OnePart' /\ HeldBusy' /\ LeftBusy'
  <2>1. OnlyUsers'
    BY <1>11 DEF NotOpened, Goto, Stray, OnlyUsers, Using, SpotT, PastT
  <2>2. OnePart'
    <3>1. Holding(g)
      BY <1>11 DEF NotOpened, Stray, Goto, Holding
    <3>2. \A h \in Gets \ {g} : ~Holding(h) /\ ~Left(h)
      BY <3>1 DEF OnePart
    <3>3. \A h \in Gets \ {g} : ~Holding(h)' /\ ~Left(h)'
      BY <1>11, <3>2, OneMoves DEF NotOpened, Holding, Left
    <3> QED
      BY <3>3 DEF OnePart
  <2>3. HeldBusy'
    BY <1>11 DEF NotOpened, Goto, HeldBusy, Holding, SpotT
  <2>4. LeftBusy'
    BY <1>11 DEF NotOpened, Goto, Stray, LeftBusy, HeldBusy, Holding
  <2> QED
    BY <2>1, <2>2, <2>3, <2>4
<1>12. ASSUME NEW g \in Gets, Drop(g) PROVE OnlyUsers' /\ OnePart' /\ HeldBusy' /\ LeftBusy'
  <2>1. OnlyUsers'
    BY <1>12 DEF Drop, Goto, OnlyUsers, Using
  <2>2. OnePart'
    BY <1>12 DEF Drop, Goto, OnePart, Holding, Left
  <2>3. HeldBusy'
    <3>1. Left(g) /\ \A h \in Gets \ {g} : ~Holding(h)
      BY <1>12 DEF Drop, Goto, Left, OnePart
    <3>2. \A h \in Gets : ~Holding(h)'
      BY <1>12, <3>1, OneMoves DEF Drop, Holding
    <3> QED
      BY <3>2 DEF HeldBusy
  <2>4. LeftBusy'
    BY <1>12 DEF Drop, Goto, LeftBusy, Left, OnePart, SpotT
  <2> QED
    BY <2>1, <2>2, <2>3, <2>4
<1>13. ASSUME NEW g \in Gets, StreamBegins(g) PROVE OnlyUsers' /\ OnePart' /\ HeldBusy' /\ LeftBusy'
  <2>1. OnlyUsers'
    BY <1>13 DEF StreamBegins, Goto, OnlyUsers, Using
  <2>2. OnePart'
    BY <1>13 DEF StreamBegins, Goto, OnePart, Holding, Left
  <2>3. HeldBusy'
    BY <1>13 DEF StreamBegins, Goto, HeldBusy, Holding
  <2>4. LeftBusy'
    BY <1>13 DEF StreamBegins, Goto, LeftBusy, Left
  <2> QED
    BY <2>1, <2>2, <2>3, <2>4
<1>14. ASSUME NEW g \in Gets, StreamNeverBegins(g)
       PROVE  OnlyUsers' /\ OnePart' /\ HeldBusy' /\ LeftBusy'
  <2>1. OnlyUsers'
    BY <1>14 DEF StreamNeverBegins, Goto, Stray, OnlyUsers, Using, SpotT, PastT
  <2>2. OnePart'
    BY <1>14 DEF StreamNeverBegins, Goto, OnePart, Holding, Left
  <2>3. HeldBusy'
    BY <1>14 DEF StreamNeverBegins, Goto, HeldBusy, Holding
  <2>4. LeftBusy'
    BY <1>14 DEF StreamNeverBegins, Goto, LeftBusy, Left
  <2> QED
    BY <2>1, <2>2, <2>3, <2>4
<1>15. ASSUME NEW g \in Gets, StreamEnds(g) PROVE OnlyUsers' /\ OnePart' /\ HeldBusy' /\ LeftBusy'
  <2>1. OnlyUsers'
    <3>1. CASE Ends(g, "body")
      BY <3>1, OneEnds DEF OnlyUsers, Using, PastT
    <3>2. CASE ~Displacing(g) /\ Goto(g, "body", "close") /\ UNCHANGED <<ofGets, displaced>>
      <4>1. g \notin displaced
        BY <1>15, <3>2 DEF StreamEnds, Stray
      <4> QED
        BY <3>2, <4>1, OneMoves DEF OnlyUsers, Using, PastT
    <3> QED
      BY <1>15, <3>1, <3>2 DEF StreamEnds
  <2>2. OnePart'
    BY <1>15 DEF StreamEnds, Goto, Ends, OnePart, Holding, Left, SpotT
  <2>3. HeldBusy'
    BY <1>15 DEF StreamEnds, Goto, Ends, HeldBusy, Holding, SpotT, OwnT
  <2>4. LeftBusy'
    BY <1>15 DEF StreamEnds, Goto, Ends, LeftBusy, Left, SpotT
  <2> QED
    BY <2>1, <2>2, <2>3, <2>4
<1>16. ASSUME NEW g \in Gets, Close(g) PROVE OnlyUsers' /\ OnePart' /\ HeldBusy' /\ LeftBusy'
  <2>1. OnlyUsers'
    BY <1>16 DEF Close, Goto, OnlyUsers, Using
  <2>2. OnePart'
    <3>1. Holding(g)
      BY <1>16 DEF Close, Goto, OnlyUsers, Using, Holding
    <3>2. \A h \in Gets \ {g} : ~Holding(h) /\ ~Left(h)
      BY <3>1 DEF OnePart
    <3>3. \A h \in Gets \ {g} : ~Holding(h)' /\ ~Left(h)'
      BY <1>16, <3>2, OneMoves DEF Close, Holding, Left
    <3> QED
      BY <3>3 DEF OnePart
  <2>3. HeldBusy'
    BY <1>16 DEF Close, Goto, HeldBusy, Holding
  <2>4. LeftBusy'
    <3>1. Holding(g)
      BY <1>16 DEF Close, Goto, OnlyUsers, Using, Holding
    <3> QED
      BY <1>16, <3>1, OneMoves DEF Close, HeldBusy, LeftBusy
  <2> QED
    BY <2>1, <2>2, <2>3, <2>4
<1>17. ASSUME NEW g \in Gets, Unseat(g) PROVE OnlyUsers' /\ OnePart' /\ HeldBusy' /\ LeftBusy'
  <2>1. OnlyUsers'
    BY <1>17 DEF Unseat, Ends, Goto, OnlyUsers, Using
  <2>2. OnePart'
    BY <1>17 DEF Unseat, Ends, Goto, OnePart, Holding, Left
  <2>3. HeldBusy'
    <3>1. Left(g) /\ \A h \in Gets \ {g} : ~Holding(h)
      BY <1>17 DEF Unseat, Ends, Goto, Left, OnePart
    <3>2. \A h \in Gets : ~Holding(h)'
      BY <1>17, <3>1, OneEnds DEF Unseat, Holding
    <3> QED
      BY <3>2 DEF HeldBusy
  <2>4. LeftBusy'
    BY <1>17 DEF Unseat, Ends, Goto, LeftBusy, Left, OnePart, SpotT
  <2> QED
    BY <2>1, <2>2, <2>3, <2>4
<1>18. CASE GraceEnds
  <2>1. OnlyUsers'
    BY <1>18 DEF GraceEnds, OnlyUsers, Using
  <2>2. OnePart'
    BY <1>18 DEF GraceEnds, OnePart, Holding, Left
  <2>3. HeldBusy'
    BY <1>18 DEF GraceEnds, HeldBusy, Holding
  <2>4. LeftBusy'
    BY <1>18 DEF GraceEnds, LeftBusy, Left
  <2> QED
    BY <2>1, <2>2, <2>3, <2>4
<1>19. CASE GraceDrops
  <2>1. OnlyUsers'
    BY <1>19 DEF GraceDrops, OnlyUsers, Using
  <2>2. OnePart'
    BY <1>19 DEF GraceDrops, OnePart, Holding, Left
  <2>3. HeldBusy'
    BY <1>19 DEF GraceDrops, Stray, HeldBusy, Holding
  <2>4. LeftBusy'
    BY <1>19 DEF GraceDrops, Stray, LeftBusy, Left
  <2> QED
    BY <2>1, <2>2, <2>3, <2>4
<1>20. CASE Expire
  <2>1. OnlyUsers'
    BY <1>20 DEF Expire, OnlyUsers, Using
  <2>2. OnePart'
    BY <1>20 DEF Expire, OnePart, Holding, Left
  <2>3. HeldBusy'
    BY <1>20 DEF Expire, HeldBusy, Holding
  <2>4. LeftBusy'
    BY <1>20 DEF Expire, LeftBusy, Left
  <2> QED
    BY <2>1, <2>2, <2>3, <2>4
<1>21. CASE UNCHANGED catchUpVars
  <2>1. OnlyUsers'
    BY <1>21 DEF catchUpVars, OnlyUsers, Using
  <2>2. OnePart'
    BY <1>21 DEF catchUpVars, OnePart, Holding, Left
  <2>3. HeldBusy'
    BY <1>21 DEF catchUpVars, HeldBusy, Holding
  <2>4. LeftBusy'
    BY <1>21 DEF catchUpVars, LeftBusy, Left
  <2> QED
    BY <2>1, <2>2, <2>3, <2>4
<1> QED
  BY <1>1, <1>2, <1>3, <1>4, <1>5, <1>6, <1>7, <1>8, <1>9, <1>10, <1>11, <1>12, <1>13, <1>14,
     <1>15, <1>16, <1>17, <1>18, <1>19, <1>20, <1>21 DEF CatchUpNext, GetTakes, GetOpens,
     GetStreams, Lapse

\* The GETs that have reserved and not registered: how a step changes their
\* number, and that the counters are theirs and the entry's.
LEMMA ReservedFinite ==
  \A f \in Feeds : IsFiniteSet(Reserved(f)) /\ Cardinality(Reserved(f)) \in Nat
<1>1. IsFiniteSet(Gets)
  BY CatchUpAssumption, FS_Interval DEF Gets
<1>2. \A f \in Feeds : Reserved(f) \subseteq Gets
  BY DEF Reserved
<1> QED
  BY <1>1, <1>2, FS_Subset, FS_CardinalityType

\* The reservations and the seat of a profile are numbers.
LEMMA SeatNumbers ==
  \A f \in Feeds : SeatOn(f) \in {0, 1} /\ Sat(f) \in {0, 1}
BY DEF SeatOn, Sat

\* A step that leaves the reservations and the seat leaves their sum.
LEMMA CountsStand ==
  ASSUME Counted, leased' = leased, \A f \in Feeds : Reserved(f)' = Reserved(f) /\ Sat(f)' = Sat(f)
  PROVE  Counted'
BY DEF Counted

\* A seat more or less, and a slot more or less.
LEMMA SeatsMove ==
  ASSUME Counted, NEW e \in Feeds, NEW d \in {-1, 1},
         leased[e] \in Nat, leased'[e] = leased[e] + d, Sat(e)' = Sat(e) + d,
         \A f \in Feeds \ {e} : leased'[f] = leased[f] /\ Sat(f)' = Sat(f),
         \A f \in Feeds : Reserved(f)' = Reserved(f)
  PROVE  Counted'
<1>1. ASSUME NEW f \in Feeds PROVE leased'[f] = Cardinality(Reserved(f)') + Sat(f)'
  <2>1. leased[f] = Cardinality(Reserved(f)) + Sat(f) /\ Cardinality(Reserved(f)) \in Nat
        /\ Reserved(f)' = Reserved(f) /\ Sat(f) \in {0, 1}
    BY ReservedFinite, SeatNumbers DEF Counted
  <2>2. CASE f = e
    BY <2>1, <2>2
  <2>3. CASE f # e
    BY <2>1, <2>3
  <2> QED
    BY <2>2, <2>3
<1> QED
  BY <1>1 DEF Counted

\* One GET more with a reservation.
LEMMA OneMore ==
  ASSUME NEW f \in Feeds, NEW g, g \notin Reserved(f), Reserved(f)' = Reserved(f) \cup {g}
  PROVE  Cardinality(Reserved(f)') = Cardinality(Reserved(f)) + 1
BY ReservedFinite, FS_AddElement

\* One GET less with a reservation.
LEMMA OneLess ==
  ASSUME NEW f \in Feeds, NEW g, g \in Reserved(f), Reserved(f)' = Reserved(f) \ {g}
  PROVE  Cardinality(Reserved(f)') = Cardinality(Reserved(f)) - 1 /\ Cardinality(Reserved(f)) >= 1
<1>1. IsFiniteSet(Reserved(f)) /\ Cardinality(Reserved(f)) \in Nat
  BY ReservedFinite
<1>2. Cardinality(Reserved(f) \ {g}) = Cardinality(Reserved(f)) - 1
  BY <1>1, FS_RemoveElement
<1>3. IsFiniteSet(Reserved(f) \ {g})
  BY <1>1, FS_Difference
<1>4. Cardinality(Reserved(f) \ {g}) \in Nat
  BY <1>3, FS_CardinalityType
<1> QED
  BY <1>1, <1>2, <1>4

\* The GET that has the slot gives it back: the counter and the seat go together.
LEMMA HolderReturns ==
  ASSUME LeaseT, SpotT, PoolT, OnePart, HeldBusy, Counted,
         NEW g \in Gets, Holding(g), Return(lease[g]), pooled' = pooled, lease' = lease,
         ~Waiting(g), Left(g)', \A h \in Gets \ {g} : spot'[h] = spot[h]
  PROVE  Counted'
<1>1. Busy(pooled) /\ lease[g] = pooled.on /\ ~Gone
  BY DEF HeldBusy, OnePart, Holding, Left, Gone
<1>2. lease[g] \in Feeds
  BY <1>1, EntryFields DEF PoolT, Busy
<1>3. Sat(lease[g]) = 1 /\ \A f \in Feeds \ {lease[g]} : Sat(f) = 0
  BY <1>1 DEF Sat, SeatOn
<1>4. \A f \in Feeds : Sat(f)' = 0
  BY DEF Sat, Gone
<1>5. \A f \in Feeds : Reserved(f)' = Reserved(f)
  BY DEF Reserved, Waiting, Left
<1>6. leased[lease[g]] \in Nat /\ leased[lease[g]] > 0
  BY <1>2, <1>3, ReservedFinite DEF Counted, LeaseT
<1>7. leased'[lease[g]] = leased[lease[g]] - 1
        /\ \A f \in Feeds \ {lease[g]} : leased'[f] = leased[f]
  BY <1>2, <1>6, ReturnCounts
<1>8. leased'[lease[g]] = leased[lease[g]] + (-1)
  BY <1>6, <1>7
<1>9. Sat(lease[g])' = Sat(lease[g]) + (-1)
  <2>1. Sat(lease[g])' = 0
    BY <1>2, <1>4
  <2> QED
    BY <1>3, <2>1
<1>10. \A f \in Feeds \ {lease[g]} : leased'[f] = leased[f] /\ Sat(f)' = Sat(f)
  BY <1>3, <1>4, <1>7
<1> QED
  BY <1>2, <1>5, <1>6, <1>8, <1>9, <1>10, SeatsMove

\* ... and the counters: a slot and its seat, or its GET, come and go together.
LEMMA StepCounted ==
  ASSUME PoolT, LeaseT, SpotT, SawT, TriedT, OwnT, PastT,
         Registers, OnlyUsers, OnePart, HeldBusy, LeftBusy, Counted, ~strayed',
         [CatchUpNext]_catchUpVars
  PROVE  Counted'
<1> USE DEF sharedKeys, ofGets
<1>1. ASSUME NEW g \in Gets, Look(g) PROVE Counted'
  <2>1. \A f \in Feeds : Reserved(f)' = Reserved(f)
    BY <1>1, OneMoves DEF Look, Ends, Reserved, Waiting, OwnT
  <2>2. \A f \in Feeds : Sat(f)' = Sat(f)
    BY <1>1, OneMoves DEF Look, Ends, Sat, SeatOn, Gone, Left
  <2>3. leased' = leased
    BY <1>1 DEF Look
  <2> QED
    BY <2>1, <2>2, <2>3, CountsStand
<1>2. ASSUME NEW g \in Gets, Acquire(g) PROVE Counted'
  <2>1. CASE Acquirable /\ Lease(pooled.on) /\ Seat(pooled.on, TRUE) /\ Goto(g, "acquire", "open")
             /\ lease' = [lease EXCEPT ![g] = pooled.on]
    <3>1. PICK e \in Feeds : e = pooled.on
      BY <2>1, EntryFields DEF Acquirable, PoolT
    <3>2. ~Gone /\ ~Gone' /\ ~Busy(pooled)
      BY <2>1, IdleIsFree, OneMoves DEF Acquirable, Gone, Left
    <3>3. Busy(pooled') /\ pooled'.on = e
      BY <2>1, <3>1, EntryFields DEF Seat
    <3>4. \A f \in Feeds : Sat(f) = 0 /\ Sat(f)' = IF f = e THEN 1 ELSE 0
      BY <3>2, <3>3 DEF Sat, SeatOn
    <3>5. \A f \in Feeds : Reserved(f)' = Reserved(f)
      BY <2>1, OneMoves DEF Reserved, Waiting
    <3>6. leased'[e] = leased[e] + 1 /\ \A f \in Feeds \ {e} : leased'[f] = leased[f]
      BY <2>1, <3>1, LeaseCounts
    <3>7. Sat(e)' = Sat(e) + 1 /\ \A f \in Feeds \ {e} : Sat(f)' = Sat(f)
      BY <3>4
    <3>8. leased[e] \in Nat
      BY DEF LeaseT
    <3> QED
      BY <3>5, <3>6, <3>7, <3>8, SeatsMove
  <2>2. CASE Goto(g, "acquire", "reserve") /\ UNCHANGED <<pooled, leased, lease>>
    <3>1. \A f \in Feeds : Reserved(f)' = Reserved(f) /\ Sat(f)' = Sat(f)
      BY <2>2, OneMoves DEF Reserved, Waiting, Sat, SeatOn, Gone, Left
    <3> QED
      BY <2>2, <3>1, CountsStand
  <2> QED
    BY <1>2, <2>1, <2>2 DEF Acquire
<1>3. ASSUME NEW g \in Gets, Preempt(g) PROVE Counted'
  <2>1. \A f \in Feeds : Reserved(f)' = Reserved(f)
    BY <1>3, OneMoves DEF Preempt, Reserved, Waiting
  <2>2. \A f \in Feeds : Sat(f)' = Sat(f)
    BY <1>3, OneMoves DEF Preempt, Sat, SeatOn, Gone, Left
  <2>3. leased' = leased
    BY <1>3 DEF Preempt
  <2> QED
    BY <2>1, <2>2, <2>3, CountsStand
<1>4. ASSUME NEW g \in Gets, TakeOver(g) PROVE Counted'
  <2>1. leased' = leased
    BY <1>4 DEF TakeOver
  <2>2. CASE Pooled(pooled) /\ Seat(pooled.on, TRUE) /\ Goto(g, "take", "open")
             /\ Stray(~Busy(pooled) \/ Parting # {}) /\ lease' = [lease EXCEPT ![g] = pooled.on]
    <3>1. pooled.on \in Feeds /\ Busy(pooled) /\ Parting = {}
      BY <2>2, EntryFields DEF Stray, PoolT
    <3>2. ~Gone /\ ~Gone'
      BY <2>2, <3>1, OneMoves DEF Gone, Left, Parting, Leaving, Standing
    <3>3. Busy(pooled') /\ pooled'.on = pooled.on
      BY <2>2, <3>1, EntryFields DEF Seat
    <3>4. \A f \in Feeds : Sat(f)' = Sat(f)
      BY <3>1, <3>2, <3>3 DEF Sat, SeatOn
    <3>5. \A f \in Feeds : Reserved(f)' = Reserved(f)
      BY <2>2, OneMoves DEF Reserved, Waiting
    <3> QED
      BY <2>1, <3>4, <3>5, CountsStand
  <2>3. CASE Goto(g, "take", "abandon") /\ UNCHANGED <<pooled, ofGets, displaced, strayed>>
    <3>1. \A f \in Feeds : Reserved(f)' = Reserved(f) /\ Sat(f)' = Sat(f)
      BY <2>3, OneMoves DEF Reserved, Waiting, Sat, SeatOn, Gone, Left
    <3> QED
      BY <2>1, <3>1, CountsStand
  <2>4. CASE Ends(g, "take") /\ UNCHANGED <<pooled, strayed>>
    <3>1. \A f \in Feeds : Reserved(f)' = Reserved(f) /\ Sat(f)' = Sat(f)
      BY <2>4, OneEnds DEF Reserved, Waiting, Sat, SeatOn, Gone, Left
    <3> QED
      BY <2>1, <3>1, CountsStand
  <2> QED
    BY <1>4, <2>2, <2>3, <2>4 DEF TakeOver
<1>5. ASSUME NEW g \in Gets, AbandonPool(g) PROVE Counted'
  <2>1. Goto(g, "abandon", "forget") /\ Return(saw[g]) /\ pooled' = pooled /\ lease' = lease
    BY <1>5 DEF AbandonPool
  <2>2. Busy(pooled) /\ pooled.on = saw[g] /\ Parting = {}
    BY <1>5 DEF AbandonPool, Stray
  <2>3. PICK e \in Feeds : e = saw[g]
    BY <2>2, EntryFields DEF PoolT, Busy
  <2>4. ~Gone /\ Gone'
    BY <2>1, <2>2, OneMoves DEF Gone, Left, Parting, Leaving, Standing
  <2>5. \A f \in Feeds : Sat(f)' = 0 /\ Sat(f) = IF f = e THEN 1 ELSE 0
    BY <2>2, <2>3, <2>4 DEF Sat, SeatOn
  <2>6. \A f \in Feeds : Reserved(f)' = Reserved(f)
    BY <2>1, OneMoves DEF Reserved, Waiting
  <2>7. leased[e] \in Nat /\ leased[e] > 0
    BY <2>5, ReservedFinite DEF Counted
  <2>8. leased'[e] = leased[e] - 1 /\ \A f \in Feeds \ {e} : leased'[f] = leased[f]
    BY <2>1, <2>3, <2>7, ReturnCounts
  <2>9. leased'[e] = leased[e] + (-1)
    BY <2>7, <2>8
  <2>10. Sat(e)' = Sat(e) + (-1) /\ \A f \in Feeds \ {e} : Sat(f)' = Sat(f)
    BY <2>5
  <2> QED
    BY <2>6, <2>7, <2>8, <2>9, <2>10, SeatsMove
<1>6. ASSUME NEW g \in Gets, ForgetPool(g) PROVE Counted'
  <2>1. \A f \in Feeds : Reserved(f)' = Reserved(f)
    BY <1>6 DEF ForgetPool, Goto, Reserved, Waiting
  <2>2. Gone /\ ~Busy(pooled')
    BY <1>6, EntryFields DEF ForgetPool, Goto, Gone, Left
  <2>3. \A f \in Feeds : Sat(f)' = Sat(f)
    BY <2>2 DEF Sat, SeatOn
  <2>4. leased' = leased
    BY <1>6 DEF ForgetPool
  <2> QED
    BY <2>1, <2>3, <2>4, CountsStand
<1>7. ASSUME NEW g \in Gets, ReserveFeed(g) PROVE Counted'
  <2>1. tried[g] < Len(FeedOrder) => FeedOrder[tried[g] + 1] \in Feeds
    BY CatchUpAssumption DEF TriedT
  <2>2. pooled' = pooled
    BY <1>7 DEF ReserveFeed
  <2>3. ASSUME NEW e \in Feeds, Lease(e), lease' = [lease EXCEPT ![g] = e],
               Goto(g, "reserve", "register")
        PROVE  Counted'
    <3>1. leased'[e] = leased[e] + 1 /\ \A f \in Feeds \ {e} : leased'[f] = leased[f]
      BY <2>3, LeaseCounts
    <3>2. g \notin Reserved(e) /\ Reserved(e)' = Reserved(e) \cup {g}
      BY <2>3, OneMoves DEF Reserved, Waiting, OwnT
    <3>3. \A f \in Feeds \ {e} : Reserved(f)' = Reserved(f)
      BY <2>3, OneMoves DEF Reserved, Waiting, OwnT
    <3>4. \A f \in Feeds : Sat(f)' = Sat(f)
      BY <2>2, <2>3, OneMoves DEF Sat, SeatOn, Gone, Left
    <3>5. Cardinality(Reserved(e)') = Cardinality(Reserved(e)) + 1
      BY <3>2, OneMore
    <3>6. leased[e] = Cardinality(Reserved(e)) + Sat(e) /\ Cardinality(Reserved(e)) \in Nat
            /\ Sat(e) \in {0, 1}
      BY ReservedFinite, SeatNumbers DEF Counted
    <3>7. leased'[e] = Cardinality(Reserved(e)') + Sat(e)
      BY <3>1, <3>5, <3>6
    <3>8. \A f \in Feeds \ {e} : leased'[f] = Cardinality(Reserved(f)') + Sat(f)
      BY <3>1, <3>3 DEF Counted
    <3> QED
      BY <3>4, <3>7, <3>8 DEF Counted
  <2>4. CASE Ends(g, "reserve") /\ UNCHANGED leased
    <3>1. \A f \in Feeds : Reserved(f)' = Reserved(f) /\ Sat(f)' = Sat(f)
      BY <2>2, <2>4, OneEnds DEF Reserved, Waiting, Sat, SeatOn, Gone, Left
    <3> QED
      BY <2>4, <3>1, CountsStand
  <2>5. CASE UNCHANGED <<leased, spot, saw, lease, turn, displaced>>
    <3>1. \A f \in Feeds : Reserved(f)' = Reserved(f) /\ Sat(f)' = Sat(f)
      BY <2>2, <2>5 DEF Reserved, Waiting, Sat, SeatOn, Gone, Left
    <3> QED
      BY <2>5, <3>1, CountsStand
  <2> QED
    BY <1>7, <2>1, <2>3, <2>4, <2>5 DEF ReserveFeed
<1>8. ASSUME NEW g \in Gets, Register(g) PROVE Counted'
  <2>1. leased' = leased /\ lease' = lease
    BY <1>8 DEF Register
  <2>2. CASE ~Pooled(pooled) /\ Seat(lease[g], TRUE) /\ Goto(g, "register", "open")
    <3>1. PICK e \in Feeds : e = lease[g]
      BY <2>2 DEF Goto, Registers, Waiting
    <3>2. ~Gone /\ ~Gone' /\ ~Busy(pooled)
      BY <2>2, IdleIsFree, OneMoves DEF Busy, Gone, Left
    <3>3. Busy(pooled') /\ pooled'.on = e
      BY <2>2, <3>1, EntryFields DEF Seat
    <3>4. \A f \in Feeds : Sat(f) = 0 /\ Sat(f)' = IF f = e THEN 1 ELSE 0
      BY <3>2, <3>3 DEF Sat, SeatOn
    <3>5. g \in Reserved(e) /\ Reserved(e)' = Reserved(e) \ {g}
      BY <2>1, <2>2, <3>1, OneMoves DEF Reserved, Waiting
    <3>6. \A f \in Feeds \ {e} : Reserved(f)' = Reserved(f)
      BY <2>1, <2>2, <3>1, OneMoves DEF Reserved, Waiting
    <3>7. Cardinality(Reserved(e)') = Cardinality(Reserved(e)) - 1
            /\ Cardinality(Reserved(e)) \in Nat
      BY <3>5, OneLess, ReservedFinite
    <3>8. leased[e] = Cardinality(Reserved(e))
      BY <3>4, ReservedFinite DEF Counted
    <3>9. leased'[e] = Cardinality(Reserved(e)') + 1
      BY <2>1, <3>7, <3>8
    <3>10. \A f \in Feeds \ {e} : leased'[f] = Cardinality(Reserved(f)') + 0
      BY <2>1, <3>4, <3>6 DEF Counted
    <3> QED
      BY <3>4, <3>9, <3>10 DEF Counted
  <2>3. CASE Goto(g, "register", "refund") /\ UNCHANGED pooled
    <3>1. \A f \in Feeds : Reserved(f)' = Reserved(f) /\ Sat(f)' = Sat(f)
      BY <2>1, <2>3, OneMoves DEF Reserved, Waiting, Sat, SeatOn, Gone, Left
    <3> QED
      BY <2>1, <3>1, CountsStand
  <2> QED
    BY <1>8, <2>2, <2>3 DEF Register
<1>9. ASSUME NEW g \in Gets, RefundFeed(g) PROVE Counted'
  <2>1. Ends(g, "refund") /\ Return(lease[g]) /\ pooled' = pooled
    BY <1>9 DEF RefundFeed
  <2>2. PICK e \in Feeds : e = lease[g]
    BY <2>1 DEF Ends, Goto, Registers, Waiting
  <2>3. g \in Reserved(e) /\ Reserved(e)' = Reserved(e) \ {g}
    BY <2>1, <2>2, OneEnds DEF Reserved, Waiting
  <2>4. \A f \in Feeds \ {e} : Reserved(f)' = Reserved(f)
    BY <2>1, <2>2, OneEnds DEF Reserved, Waiting
  <2>5. \A f \in Feeds : Sat(f)' = Sat(f)
    BY <2>1, OneEnds DEF Sat, SeatOn, Gone, Left
  <2>6. Cardinality(Reserved(e)') = Cardinality(Reserved(e)) - 1 /\ Cardinality(Reserved(e)) >= 1
    BY <2>3, OneLess
  <2>7. leased[e] = Cardinality(Reserved(e)) + Sat(e) /\ Cardinality(Reserved(e)) \in Nat
          /\ Sat(e) \in {0, 1}
    BY ReservedFinite, SeatNumbers DEF Counted
  <2>8. leased'[e] = (IF leased[e] > 0 THEN leased[e] - 1 ELSE leased[e])
          /\ \A f \in Feeds \ {e} : leased'[f] = leased[f]
    BY <2>1, <2>2, ReturnCounts
  <2>9. leased'[e] = Cardinality(Reserved(e)') + Sat(e)
    BY <2>6, <2>7, <2>8
  <2>10. \A f \in Feeds \ {e} : leased'[f] = Cardinality(Reserved(f)') + Sat(f)
    BY <2>4, <2>8 DEF Counted
  <2> QED
    BY <2>5, <2>9, <2>10 DEF Counted
<1>10. ASSUME NEW g \in Gets, Opened(g) PROVE Counted'
  <2>1. \A f \in Feeds : Reserved(f)' = Reserved(f)
    BY <1>10, OneMoves DEF Opened, Reserved, Waiting
  <2>2. \A f \in Feeds : Sat(f)' = Sat(f)
    BY <1>10, OneMoves DEF Opened, Sat, SeatOn, Gone, Left
  <2>3. leased' = leased
    BY <1>10 DEF Opened
  <2> QED
    BY <2>1, <2>2, <2>3, CountsStand
<1>11. ASSUME NEW g \in Gets, NotOpened(g) PROVE Counted'
  <2>1. Holding(g) /\ ~Waiting(g) /\ Return(lease[g]) /\ pooled' = pooled /\ lease' = lease
    BY <1>11 DEF NotOpened, Stray, Goto, Holding, Waiting
  <2>2. Left(g)' /\ \A h \in Gets \ {g} : spot'[h] = spot[h]
    BY <1>11, OneMoves DEF NotOpened, Left
  <2> QED
    BY <2>1, <2>2, HolderReturns
<1>12. ASSUME NEW g \in Gets, Drop(g) PROVE Counted'
  <2>1. \A f \in Feeds : Reserved(f)' = Reserved(f)
    BY <1>12 DEF Drop, Goto, Reserved, Waiting
  <2>2. Gone /\ ~Busy(pooled')
    BY <1>12, EntryFields DEF Drop, Goto, Gone, Left
  <2>3. \A f \in Feeds : Sat(f)' = Sat(f)
    BY <2>2 DEF Sat, SeatOn
  <2>4. leased' = leased
    BY <1>12 DEF Drop
  <2> QED
    BY <2>1, <2>3, <2>4, CountsStand
<1>13. ASSUME NEW g \in Gets, StreamBegins(g) PROVE Counted'
  <2>1. \A f \in Feeds : Reserved(f)' = Reserved(f)
    BY <1>13, OneMoves DEF StreamBegins, Reserved, Waiting
  <2>2. \A f \in Feeds : Sat(f)' = Sat(f)
    BY <1>13, OneMoves DEF StreamBegins, Sat, SeatOn, Gone, Left
  <2>3. leased' = leased
    BY <1>13 DEF StreamBegins
  <2> QED
    BY <2>1, <2>2, <2>3, CountsStand
<1>14. ASSUME NEW g \in Gets, StreamNeverBegins(g) PROVE Counted'
  <2>1. \A f \in Feeds : Reserved(f)' = Reserved(f)
    BY <1>14, OneMoves DEF StreamNeverBegins, Reserved, Waiting
  <2>2. \A f \in Feeds : Sat(f)' = Sat(f)
    BY <1>14, OneMoves DEF StreamNeverBegins, Sat, SeatOn, Gone, Left
  <2>3. leased' = leased
    BY <1>14 DEF StreamNeverBegins
  <2> QED
    BY <2>1, <2>2, <2>3, CountsStand
<1>15. ASSUME NEW g \in Gets, StreamEnds(g) PROVE Counted'
  <2>1. \A f \in Feeds : Reserved(f)' = Reserved(f)
    BY <1>15, OneMoves DEF StreamEnds, Ends, Reserved, Waiting, OwnT
  <2>2. \A f \in Feeds : Sat(f)' = Sat(f)
    BY <1>15, OneMoves DEF StreamEnds, Ends, Sat, SeatOn, Gone, Left
  <2>3. leased' = leased
    BY <1>15 DEF StreamEnds
  <2> QED
    BY <2>1, <2>2, <2>3, CountsStand
<1>16. ASSUME NEW g \in Gets, Close(g) PROVE Counted'
  <2>1. Holding(g) /\ ~Waiting(g) /\ Return(lease[g]) /\ pooled' = pooled /\ lease' = lease
    BY <1>16 DEF Close, Goto, OnlyUsers, Using, Holding, Waiting
  <2>2. Left(g)' /\ \A h \in Gets \ {g} : spot'[h] = spot[h]
    BY <1>16, OneMoves DEF Close, Left
  <2> QED
    BY <2>1, <2>2, HolderReturns
<1>17. ASSUME NEW g \in Gets, Unseat(g) PROVE Counted'
  <2>1. \A f \in Feeds : Reserved(f)' = Reserved(f)
    BY <1>17 DEF Unseat, Ends, Goto, Reserved, Waiting
  <2>2. Gone /\ ~Busy(pooled')
    BY <1>17, EntryFields DEF Unseat, Ends, Goto, Gone, Left, Busy
  <2>3. \A f \in Feeds : Sat(f)' = Sat(f)
    BY <2>2 DEF Sat, SeatOn
  <2>4. leased' = leased
    BY <1>17 DEF Unseat
  <2> QED
    BY <2>1, <2>3, <2>4, CountsStand
<1>18. CASE GraceEnds
  <2>1. leased' = leased /\ pooled' = pooled /\ spot' = spot /\ lease' = lease
    BY <1>18 DEF GraceEnds
  <2>2. \A f \in Feeds : Reserved(f)' = Reserved(f) /\ Sat(f)' = Sat(f)
    BY <2>1 DEF Reserved, Waiting, Sat, SeatOn, Gone, Left
  <2> QED
    BY <2>1, <2>2, CountsStand
<1>19. CASE GraceDrops
  <2>1. leased' = leased /\ spot' = spot /\ lease' = lease
    BY <1>19 DEF GraceDrops
  <2>2. pooled' = pooled \/ (~Busy(pooled) /\ ~Busy(pooled'))
    BY <1>19, EntryFields DEF GraceDrops, Stray
  <2>3. \A f \in Feeds : Reserved(f)' = Reserved(f) /\ Sat(f)' = Sat(f)
    BY <2>1, <2>2 DEF Reserved, Waiting, Sat, SeatOn, Gone, Left
  <2> QED
    BY <2>1, <2>3, CountsStand
<1>20. CASE Expire
  <2>1. leased' = leased /\ spot' = spot /\ lease' = lease
    BY <1>20 DEF Expire
  <2>2. pooled' = pooled \/ (~Busy(pooled) /\ ~Busy(pooled'))
    BY <1>20, EntryFields DEF Expire
  <2>3. \A f \in Feeds : Reserved(f)' = Reserved(f) /\ Sat(f)' = Sat(f)
    BY <2>1, <2>2 DEF Reserved, Waiting, Sat, SeatOn, Gone, Left
  <2> QED
    BY <2>1, <2>3, CountsStand
<1>21. CASE UNCHANGED catchUpVars
  <2>1. leased' = leased /\ pooled' = pooled /\ spot' = spot /\ lease' = lease
    BY <1>21 DEF catchUpVars
  <2>2. \A f \in Feeds : Reserved(f)' = Reserved(f) /\ Sat(f)' = Sat(f)
    BY <2>1 DEF Reserved, Waiting, Sat, SeatOn, Gone, Left
  <2> QED
    BY <2>1, <2>2, CountsStand
<1> QED
  BY <1>1, <1>2, <1>3, <1>4, <1>5, <1>6, <1>7, <1>8, <1>9, <1>10, <1>11, <1>12, <1>13, <1>14,
     <1>15, <1>16, <1>17, <1>18, <1>19, <1>20, <1>21 DEF CatchUpNext, GetTakes, GetOpens,
     GetStreams, Lapse

\* A session that has strayed stays so.
LEMMA StrayStays ==
  ASSUME [CatchUpNext]_catchUpVars, strayed
  PROVE  strayed'
BY DEF CatchUpNext, GetTakes, GetOpens, GetStreams, Lapse, Look, Acquire, Preempt, TakeOver,
   AbandonPool,
       ForgetPool, ReserveFeed, Register, RefundFeed, Opened, NotOpened, Drop, StreamBegins,
       StreamNeverBegins,
       StreamEnds, Close, Unseat, GraceEnds, GraceDrops, Expire, Stray, Ends, catchUpVars,
       sharedKeys, ofGets

SlotTypes == PoolT /\ LeaseT /\ SpotT /\ SawT /\ TriedT /\ OwnT /\ PastT
SlotInv   == /\ SlotTypes /\ Registers
             /\ ~strayed => OnlyUsers /\ OnePart /\ HeldBusy /\ LeftBusy /\ Counted

\* The inductive invariant: it holds at the start, every step keeps it, and it
\* makes the counter and the entry agree.
LEMMA SlotsInit == CatchUpInit => SlotInv
<1> SUFFICES ASSUME CatchUpInit PROVE SlotInv
  OBVIOUS
<1>1. SlotTypes
  <2>1. PoolT /\ LeaseT /\ SpotT /\ SawT /\ OwnT /\ PastT
    BY DEF CatchUpInit, PoolT, LeaseT, SpotT, SawT, OwnT, PastT, Entries, Spots
  <2>2. 0 \in 0..Len(FeedOrder)
    BY CatchUpAssumption
  <2>3. TriedT
    BY <2>2 DEF CatchUpInit, TriedT
  <2> QED
    BY <2>1, <2>3 DEF SlotTypes
<1>2. Registers /\ OnlyUsers /\ OnePart /\ HeldBusy /\ LeftBusy /\ ~Gone
  BY DEF CatchUpInit, Registers, Waiting, OnlyUsers, OnePart, HeldBusy, LeftBusy, Gone, Holding,
     Left
<1>3. \A f \in Feeds : Reserved(f) = {} /\ Sat(f) = 0 /\ leased[f] = 0
  BY <1>2, EntryFields DEF CatchUpInit, Reserved, Waiting, Sat, SeatOn
<1>4. Counted
  BY <1>3, FS_EmptySet DEF Counted
<1> QED
  BY <1>1, <1>2, <1>4 DEF SlotInv

\* The invariant is inductive.
LEMMA SlotsStep == SlotInv /\ [CatchUpNext]_catchUpVars => SlotInv'
<1> SUFFICES ASSUME SlotInv, [CatchUpNext]_catchUpVars PROVE SlotInv'
  OBVIOUS
<1>1. SlotTypes'
  BY StepTypes DEF SlotInv, SlotTypes
<1>2. strayed => strayed'
  BY StrayStays
<1>3. Registers'
  BY StepRegisters DEF SlotInv, SlotTypes
<1>4. ~strayed' => OnlyUsers' /\ OnePart' /\ HeldBusy' /\ LeftBusy'
  BY <1>2, StepPlaces DEF SlotInv, SlotTypes
<1>5. ~strayed' => Counted'
  BY <1>2, StepCounted DEF SlotInv, SlotTypes
<1> QED
  BY <1>1, <1>3, <1>4, <1>5 DEF SlotInv

\* What the invariant says of the counter and of the entry.
LEMMA SlotsFollow == SlotInv => CatchUpSlotsFollowEntry
<1> SUFFICES ASSUME SlotInv, ~strayed, NEW f \in Feeds
             PROVE  leased[f] + Cardinality({g \in Leaving : Busy(pooled) /\ pooled.on = f})
                      = Cardinality({g \in Standing({"register", "refund"}) : lease[g] = f})
                          + (IF Busy(pooled) /\ pooled.on = f THEN 1 ELSE 0)
  BY DEF CatchUpSlotsFollowEntry
<1> DEFINE Gave == {g \in Leaving : Busy(pooled) /\ pooled.on = f}
<1>1. {g \in Standing({"register", "refund"}) : lease[g] = f} = Reserved(f)
  BY DEF Standing, Reserved, Waiting
<1>2. leased[f] = Cardinality(Reserved(f)) + Sat(f) /\ Cardinality(Reserved(f)) \in Nat
  BY ReservedFinite DEF SlotInv, Counted
<1>3. Cardinality(Gave) = IF Gone THEN SeatOn(f) ELSE 0
  <2>1. CASE ~Gone \/ SeatOn(f) = 0
    <3>1. Gave = {}
      BY <2>1 DEF Gone, Left, Leaving, Standing, SeatOn
    <3> QED
      BY <2>1, <3>1, FS_EmptySet
  <2>2. CASE Gone /\ SeatOn(f) # 0
    <3>1. PICK g \in Gets : Left(g)
      BY <2>2 DEF Gone
    <3>2. \A h \in Gets : Left(h) => h = g
      BY <3>1 DEF SlotInv, OnePart
    <3>3. Busy(pooled) /\ pooled.on = f /\ SeatOn(f) = 1
      BY <2>2 DEF SeatOn
    <3>4. Leaving = {h \in Gets : Left(h)}
      BY DEF Leaving, Standing, Left
    <3>5. Gave = {g}
      BY <3>1, <3>2, <3>3, <3>4
    <3> QED
      BY <2>2, <3>3, <3>5, FS_Singleton
  <2> QED
    BY <2>1, <2>2
<1>4. SeatOn(f) = IF Busy(pooled) /\ pooled.on = f THEN 1 ELSE 0
  BY DEF SeatOn
<1>5. SeatOn(f) \in {0, 1} /\ Sat(f) = IF Gone THEN 0 ELSE SeatOn(f)
  BY DEF SeatOn, Sat
<1> HIDE DEF Gave
<1>6. leased[f] + Cardinality(Gave) = Cardinality(Reserved(f)) + SeatOn(f)
  BY <1>2, <1>3, <1>5
<1> QED
  BY <1>1, <1>4, <1>6 DEF Gave

\* views.py, the catch-up pool: until a session strays, the provider's counter
\* and the pool entry tell the same story, however many GETs and feeds.
THEOREM CatchUpSlots == CatchUpSpec => []CatchUpSlotsFollowEntry
<1>1. CatchUpSpec => []SlotInv
  BY SlotsInit, SlotsStep, PTL DEF CatchUpSpec
<1> QED
  BY <1>1, SlotsFollow, PTL

----------------------------------------------------------------------------
(* Films and episodes. *)

VodRecords == [on : VodProfiles, active : Nat]

RecordT  == record \in [Sessions -> {Missing} \cup VodRecords]
UsedT    == used \in [VodProfiles -> Nat]
WhereT   == where \in [Requests -> Steps]
SessionT == session \in [Requests -> Sessions]
ProfileT == profile \in [Requests -> VodProfiles \cup {Missing}]
FlagsT   == /\ creates \in [Requests -> BOOLEAN] /\ reserved \in [Requests -> BOOLEAN]
            /\ counted \in [Requests -> BOOLEAN]
\* A request under way has a profile.
Chosen   == \A r \in Requests : where[r] \notin {"new", "over"} => profile[r] \in VodProfiles

InUse == {"get", "ready", "undo", "refuse"}

\* What a request's flags say of where it is.
FlagsTell == \A r \in Requests :
  /\ counted[r] <=> where[r] \in {"retake", "stream"} \/ (where[r] \in InUse /\ ~creates[r])
  /\ where[r] # "again"
  /\ creates[r] /\ where[r] \in InUse \cup {"create"} => reserved[r]
  /\ where[r] \in {"reserve", "create"} => creates[r]
  /\ where[r] \in {"new", "match", "adopt", "look", "join", "retake"} => ~creates[r] /\ ~reserved[r]

\* A request that has made the record and not begun its body: the record is
\* there, no other opens or hands the session back, and who counts on it meets
\* one that is about to take its slot.
Opens(r)    == creates[r] /\ where[r] \in {"get", "ready", "refuse"}
RetakesOn(s) == \E h \in Requests : session[h] = s /\ where[h] = "retake"
OpenRecord  == \A r \in Requests : Opens(r) => Exists(session[r])
  /\ record[session[r]].on = profile[r]
OpensAlone  == \A r, q \in Requests : Opens(r) /\ session[q] = session[r] =>
  where[q] # "hand" /\ (Opens(q) => q = r) /\ (counted[q] => RetakesOn(session[r]))
HandRecord  == \A r \in Requests : where[r] = "hand" => Exists(session[r])
OneRetakes  == \A r, q \in Requests :
  where[r] = "retake" /\ where[q] = "retake" /\ session[r] = session[q] => q = r
OnProfile   == \A r \in Requests :
  counted[r] /\ ~creates[r] /\ reserved[r] => Exists(session[r])
    /\ record[session[r]].on = profile[r]

CountedOn(s) == {r \in Requests : counted[r] /\ session[r] = s}
CountsTell   == \A s \in Sessions : Active(s) = Cardinality(CountedOn(s))
SlotsTell    == \A p \in VodProfiles : used[p] = Cardinality(Streaming(p)) + Cardinality(Between(p))

\* A session with a stream none of whose requests is about to take the slot;
\* a request that holds one for a session, and the profile it holds it of.
Streams(s) == Active(s) > 0 /\ ~RetakesOn(s)
Holds(r)   == \/ where[r] = "hand"
              \/ reserved[r] /\ \/ where[r] \in {"refund", "return"}
                                \/ creates[r] /\ where[r] \in InUse \cup {"create"}
HeldOn(r)  == IF where[r] = "hand" THEN record[session[r]].on ELSE profile[r]

VodPlaces == FlagsTell /\ OpenRecord /\ OpensAlone /\ HandRecord /\ OneRetakes /\ OnProfile
VodTypes  == RecordT /\ UsedT /\ WhereT /\ SessionT /\ ProfileT /\ FlagsT /\ Chosen

\* What the three scripts make of a session's record.
LEMMA IncrRecords ==
  ASSUME RecordT, NEW s \in Sessions, IncrActive(s)
  PROVE  /\ RecordT'
         /\ \A t \in Sessions : (Exists(t)' <=> Exists(t))
                                  /\ (Exists(t) => record'[t].on = record[t].on)
         /\ \A t \in Sessions : Active(t)' = IF t = s /\ Exists(s) THEN Active(t) + 1 ELSE Active(t)
<1>1. CASE ~Exists(s)
  BY <1>1 DEF IncrActive, Exists, Active, RecordT
<1>2. CASE Exists(s)
  <2>1. record[s] \in VodRecords
    BY <1>2 DEF RecordT, Exists
  <2>2. record' = [record EXCEPT ![s] = [record[s] EXCEPT !.active = record[s].active + 1]]
    BY <1>2 DEF IncrActive, RecordT
  <2>3. PICK e \in VodRecords : e.on = record[s].on /\ e.active = record[s].active + 1
          /\ record' = [record EXCEPT ![s] = e]
    <3> DEFINE e == [record[s] EXCEPT !.active = record[s].active + 1]
    <3>1. record[s].active \in Nat /\ record[s].active + 1 \in Nat
      BY <2>1 DEF VodRecords
    <3>2. e \in VodRecords /\ e.on = record[s].on /\ e.active = record[s].active + 1
      BY <2>1, <3>1 DEF VodRecords
    <3>3. record' = [record EXCEPT ![s] = e]
      BY <2>2
    <3> HIDE DEF e
    <3> QED
      BY <3>2, <3>3
  <2>4. e # Missing
    BY VodAssumption DEF VodRecords
  <2>5. RecordT'
    BY <2>3 DEF RecordT
  <2>6. \A t \in Sessions : record'[t] = IF t = s THEN e ELSE record[t]
    BY <2>3 DEF RecordT
  <2> QED
    BY <1>2, <2>3, <2>4, <2>5, <2>6 DEF Exists, Active
<1> QED
  BY <1>1, <1>2

\* A request less on a session's record.
LEMMA DecrRecords ==
  ASSUME RecordT, NEW s \in Sessions, DecrActive(s)
  PROVE  /\ RecordT'
         /\ \A t \in Sessions : (Exists(t)' <=> Exists(t))
                                  /\ (Exists(t) => record'[t].on = record[t].on)
         /\ \A t \in Sessions : Active(t)' = IF t = s
                                  /\ Active(s) > 0 THEN Active(t) - 1 ELSE Active(t)
<1>1. CASE ~(Active(s) > 0)
  BY <1>1 DEF DecrActive, Exists, Active, RecordT
<1>2. CASE Active(s) > 0
  <2>1. record[s] \in VodRecords /\ record[s].active > 0
    BY <1>2 DEF RecordT, Exists, Active
  <2>2. record' = [record EXCEPT ![s] = [record[s] EXCEPT !.active = record[s].active - 1]]
    BY <1>2 DEF DecrActive, RecordT
  <2>3. PICK e \in VodRecords : e.on = record[s].on /\ e.active = record[s].active - 1
          /\ record' = [record EXCEPT ![s] = e]
    <3> DEFINE e == [record[s] EXCEPT !.active = record[s].active - 1]
    <3>1. record[s].active \in Nat /\ record[s].active - 1 \in Nat
      BY <2>1 DEF VodRecords
    <3>2. e \in VodRecords /\ e.on = record[s].on /\ e.active = record[s].active - 1
      BY <2>1, <3>1 DEF VodRecords
    <3>3. record' = [record EXCEPT ![s] = e]
      BY <2>2
    <3> HIDE DEF e
    <3> QED
      BY <3>2, <3>3
  <2>4. e # Missing /\ record[s] # Missing
    BY <2>1, VodAssumption DEF VodRecords
  <2>5. RecordT'
    BY <2>3 DEF RecordT
  <2>6. \A t \in Sessions : record'[t] = IF t = s THEN e ELSE record[t]
    BY <2>3 DEF RecordT
  <2> QED
    BY <1>2, <2>3, <2>4, <2>5, <2>6 DEF Exists, Active
<1> QED
  BY <1>1, <1>2

\* A session's record removed when no request counts on it.
LEMMA DropRecords ==
  ASSUME RecordT, NEW s \in Sessions, DropIfIdle(s)
  PROVE  /\ RecordT'
         /\ \A t \in Sessions : Exists(t)' <=> (Exists(t) /\ ~(t = s /\ Active(s) = 0))
         /\ \A t \in Sessions : Exists(t)' => record'[t].on = record[t].on
         /\ \A t \in Sessions : Active(t)' = Active(t)
<1>1. CASE IdleRecord(s)
  <2>1. \A t \in Sessions : record'[t] = IF t = s THEN Missing ELSE record[t]
    BY <1>1 DEF DropIfIdle, RecordT
  <2>2. RecordT'
    BY <1>1 DEF DropIfIdle, RecordT
  <2> QED
    BY <1>1, <2>1, <2>2 DEF IdleRecord, Exists, Active
<1>2. CASE ~IdleRecord(s)
  BY <1>2 DEF DropIfIdle, IdleRecord, Exists, Active, RecordT
<1> QED
  BY <1>1, <1>2

\* A session's count is a number.
LEMMA ActiveNat == RecordT => \A s \in Sessions : Active(s) \in Nat /\ (Active(s) > 0 => Exists(s))
  BY DEF RecordT, Active, Exists, VodRecords

\* A record there is names a profile and a count.
LEMMA RecordFields ==
  RecordT => \A s \in Sessions : Exists(s) => record[s] \in VodRecords
    /\ record[s].on \in VodProfiles
  BY DEF RecordT, Exists, VodRecords

\* A slot given back comes off its profile's counter, and no other's.
LEMMA FreeUsed ==
  ASSUME UsedT, NEW p, FreeSlot(p)
  PROVE  /\ UsedT'
         /\ p \in VodProfiles => used'[p] = IF used[p] > 0 THEN used[p] - 1 ELSE used[p]
         /\ \A o \in VodProfiles \ {p} : used'[o] = used[o]
<1>1. used \in [VodProfiles -> Nat]
  BY DEF UsedT
<1>2. used' = [used EXCEPT ![p] = IF @ > 0 THEN @ - 1 ELSE @]
  BY DEF FreeSlot
<1>3. \A o \in VodProfiles : used'[o] = IF o = p THEN (IF used[p] > 0 THEN used[p] - 1 ELSE used[p]) ELSE used[o]
  BY <1>1, <1>2
<1>4. \A o \in VodProfiles : used[o] \in Nat
  BY <1>1
<1>5. \A o \in VodProfiles : used'[o] \in Nat
  BY <1>3, <1>4
<1>6. used' = [o \in VodProfiles |-> used'[o]]
  BY <1>1, <1>2
<1>7. UsedT'
  BY <1>5, <1>6 DEF UsedT
<1> QED
  BY <1>3, <1>7

\* A slot taken goes on its profile's counter, and no other's.
LEMMA TakeUsed ==
  ASSUME UsedT, NEW p \in VodProfiles, TakeSlot(p)
  PROVE  UsedT' /\ used'[p] = used[p] + 1 /\ \A o \in VodProfiles \ {p} : used'[o] = used[o]
BY DEF UsedT, TakeSlot

\* Every step keeps what the variables range over.
LEMMA VodStepTypes ==
  ASSUME RecordT, UsedT, WhereT, SessionT, ProfileT, FlagsT, Chosen,
         [VodNext]_vodVars
  PROVE  RecordT' /\ UsedT' /\ WhereT' /\ SessionT' /\ ProfileT' /\ FlagsT' /\ Chosen'
<1> USE DEF perRequest
<1>1. ASSUME NEW r \in Requests, Choose(r)
      PROVE  RecordT' /\ UsedT' /\ WhereT' /\ SessionT' /\ ProfileT' /\ FlagsT' /\ Chosen'
  <2>1. RecordT'
    BY <1>1, IncrRecords, DecrRecords, DropRecords DEF Choose, RecordT
  <2>2. UsedT'
    BY <1>1, FreeUsed, TakeUsed DEF Choose, UsedT
  <2>3. WhereT'
    BY <1>1 DEF Choose, Step, WhereT, Steps
  <2>4. SessionT'
    BY <1>1, VodAssumption DEF Choose, SessionT
  <2>5. ProfileT'
    <3>1. Exists(OwnSession[r]) => record[OwnSession[r]].on \in VodProfiles
      BY VodAssumption, RecordFields
    <3> QED
      BY <1>1, <3>1 DEF Choose, ProfileT
  <2>6. FlagsT'
    BY <1>1 DEF Choose, FlagsT
  <2>7. Chosen'
    <3>1. Exists(OwnSession[r]) => record[OwnSession[r]].on \in VodProfiles
      BY VodAssumption, RecordFields
    <3> QED
      BY <1>1, <3>1 DEF Choose, Step, Chosen, ProfileT, WhereT
  <2> QED
    BY <2>1, <2>2, <2>3, <2>4, <2>5, <2>6, <2>7
<1>2. ASSUME NEW r \in Requests, FindIdle(r)
      PROVE  RecordT' /\ UsedT' /\ WhereT' /\ SessionT' /\ ProfileT' /\ FlagsT' /\ Chosen'
  <2>1. RecordT'
    BY <1>2, IncrRecords, DecrRecords, DropRecords DEF FindIdle, RecordT
  <2>2. UsedT'
    BY <1>2, FreeUsed, TakeUsed DEF FindIdle, UsedT
  <2>3. WhereT'
    BY <1>2 DEF FindIdle, Step, WhereT, Steps
  <2>4. SessionT'
    BY <1>2, VodAssumption DEF FindIdle, SessionT
  <2>5. ProfileT'
    BY <1>2 DEF FindIdle, ProfileT
  <2>6. FlagsT'
    BY <1>2 DEF FindIdle, FlagsT
  <2>7. Chosen'
    BY <1>2 DEF FindIdle, Step, Chosen, WhereT
  <2> QED
    BY <2>1, <2>2, <2>3, <2>4, <2>5, <2>6, <2>7
<1>3. ASSUME NEW r \in Requests, Adopt(r)
      PROVE  RecordT' /\ UsedT' /\ WhereT' /\ SessionT' /\ ProfileT' /\ FlagsT' /\ Chosen'
  <2>1. RecordT'
    BY <1>3, IncrRecords, DecrRecords, DropRecords DEF Adopt, SessionT
  <2>2. UsedT'
    BY <1>3, FreeUsed, TakeUsed DEF Adopt, UsedT
  <2>3. WhereT'
    BY <1>3 DEF Adopt, Step, WhereT, Steps
  <2>4. SessionT'
    BY <1>3, VodAssumption DEF Adopt, SessionT
  <2>5. ProfileT'
    BY <1>3 DEF Adopt, ProfileT
  <2>6. FlagsT'
    <3>1. Exists(session[r]) \in BOOLEAN
      BY DEF Exists
    <3> QED
      BY <1>3, <3>1 DEF Adopt, FlagsT
  <2>7. Chosen'
    BY <1>3 DEF Adopt, Step, Chosen, WhereT
  <2> QED
    BY <2>1, <2>2, <2>3, <2>4, <2>5, <2>6, <2>7
<1>4. ASSUME NEW r \in Requests, LookUp(r)
      PROVE  RecordT' /\ UsedT' /\ WhereT' /\ SessionT' /\ ProfileT' /\ FlagsT' /\ Chosen'
  <2>1. RecordT'
    BY <1>4, IncrRecords, DecrRecords, DropRecords DEF LookUp, RecordT
  <2>2. UsedT'
    BY <1>4, FreeUsed, TakeUsed DEF LookUp, UsedT
  <2>3. WhereT'
    BY <1>4 DEF LookUp, Step, WhereT, Steps
  <2>4. SessionT'
    BY <1>4, VodAssumption DEF LookUp, SessionT
  <2>5. ProfileT'
    BY <1>4 DEF LookUp, ProfileT
  <2>6. FlagsT'
    BY <1>4 DEF LookUp, FlagsT
  <2>7. Chosen'
    BY <1>4 DEF LookUp, Step, Chosen
  <2> QED
    BY <2>1, <2>2, <2>3, <2>4, <2>5, <2>6, <2>7
<1>5. ASSUME NEW r \in Requests, ReserveForNew(r)
      PROVE  RecordT' /\ UsedT' /\ WhereT' /\ SessionT' /\ ProfileT' /\ FlagsT' /\ Chosen'
  <2>1. RecordT'
    BY <1>5, IncrRecords, DecrRecords, DropRecords DEF ReserveForNew, RecordT
  <2>2. UsedT'
    BY <1>5, FreeUsed, TakeUsed DEF ReserveForNew, TakeSlot, UsedT
  <2>3. WhereT'
    BY <1>5 DEF ReserveForNew, Step, WhereT, Steps
  <2>4. SessionT'
    BY <1>5, VodAssumption DEF ReserveForNew, SessionT
  <2>5. ProfileT'
    BY <1>5 DEF ReserveForNew, ProfileT
  <2>6. FlagsT'
    BY <1>5 DEF ReserveForNew, FlagsT
  <2>7. Chosen'
    BY <1>5 DEF ReserveForNew, Step, Chosen, WhereT
  <2> QED
    BY <2>1, <2>2, <2>3, <2>4, <2>5, <2>6, <2>7
<1>6. ASSUME NEW r \in Requests, CreateRecord(r)
      PROVE  RecordT' /\ UsedT' /\ WhereT' /\ SessionT' /\ ProfileT' /\ FlagsT' /\ Chosen'
  <2>1. RecordT'
    <3>1. profile[r] \in VodProfiles
      BY <1>6 DEF CreateRecord, Step, Chosen
    <3>2. [on |-> profile[r], active |-> 0] \in VodRecords
      BY <3>1 DEF VodRecords
    <3> QED
      BY <1>6, <3>2 DEF CreateRecord, RecordT
  <2>2. UsedT'
    BY <1>6, FreeUsed, TakeUsed DEF CreateRecord, UsedT
  <2>3. WhereT'
    BY <1>6 DEF CreateRecord, Step, WhereT, Steps
  <2>4. SessionT'
    BY <1>6, VodAssumption DEF CreateRecord, SessionT
  <2>5. ProfileT'
    BY <1>6 DEF CreateRecord, ProfileT
  <2>6. FlagsT'
    BY <1>6 DEF CreateRecord, FlagsT
  <2>7. Chosen'
    BY <1>6 DEF CreateRecord, Step, Chosen
  <2> QED
    BY <2>1, <2>2, <2>3, <2>4, <2>5, <2>6, <2>7
<1>7. ASSUME NEW r \in Requests, CreateFails(r)
      PROVE  RecordT' /\ UsedT' /\ WhereT' /\ SessionT' /\ ProfileT' /\ FlagsT' /\ Chosen'
  <2>1. RecordT'
    BY <1>7, IncrRecords, DecrRecords, DropRecords DEF CreateFails, RecordT
  <2>2. UsedT'
    BY <1>7, FreeUsed, TakeUsed DEF CreateFails
  <2>3. WhereT'
    BY <1>7 DEF CreateFails, Step, WhereT, Steps
  <2>4. SessionT'
    BY <1>7, VodAssumption DEF CreateFails, SessionT
  <2>5. ProfileT'
    BY <1>7 DEF CreateFails, ProfileT
  <2>6. FlagsT'
    BY <1>7 DEF CreateFails, FlagsT
  <2>7. Chosen'
    BY <1>7 DEF CreateFails, Step, Chosen
  <2> QED
    BY <2>1, <2>2, <2>3, <2>4, <2>5, <2>6, <2>7
<1>8. ASSUME NEW r \in Requests, Join(r)
      PROVE  RecordT' /\ UsedT' /\ WhereT' /\ SessionT' /\ ProfileT' /\ FlagsT' /\ Chosen'
  <2>1. RecordT'
    BY <1>8, IncrRecords, DecrRecords, DropRecords DEF Join, SessionT
  <2>2. UsedT'
    BY <1>8, FreeUsed, TakeUsed DEF Join, UsedT
  <2>3. WhereT'
    BY <1>8 DEF Join, Step, WhereT, Steps
  <2>4. SessionT'
    BY <1>8, VodAssumption DEF Join, SessionT
  <2>5. ProfileT'
    BY <1>8 DEF Join, ProfileT
  <2>6. FlagsT'
    <3>1. Exists(session[r]) \in BOOLEAN
      BY DEF Exists
    <3> QED
      BY <1>8, <3>1 DEF Join, FlagsT
  <2>7. Chosen'
    BY <1>8 DEF Join, Step, Chosen
  <2> QED
    BY <2>1, <2>2, <2>3, <2>4, <2>5, <2>6, <2>7
<1>9. ASSUME NEW r \in Requests, RetakeSlot(r)
      PROVE  RecordT' /\ UsedT' /\ WhereT' /\ SessionT' /\ ProfileT' /\ FlagsT' /\ Chosen'
  <2>1. RecordT'
    BY <1>9, IncrRecords, DecrRecords, DropRecords DEF RetakeSlot, SessionT, RecordT
  <2>2. UsedT'
    BY <1>9, FreeUsed, TakeUsed DEF RetakeSlot, TakeSlot, UsedT
  <2>3. WhereT'
    BY <1>9 DEF RetakeSlot, Step, WhereT, Steps
  <2>4. SessionT'
    BY <1>9, VodAssumption DEF RetakeSlot, SessionT
  <2>5. ProfileT'
    BY <1>9 DEF RetakeSlot, ProfileT
  <2>6. FlagsT'
    BY <1>9 DEF RetakeSlot, FlagsT
  <2>7. Chosen'
    BY <1>9 DEF RetakeSlot, Step, Chosen, WhereT
  <2> QED
    BY <2>1, <2>2, <2>3, <2>4, <2>5, <2>6, <2>7
<1>10. ASSUME NEW r \in Requests, GetStream(r)
       PROVE  RecordT' /\ UsedT' /\ WhereT' /\ SessionT' /\ ProfileT' /\ FlagsT' /\ Chosen'
  <2>1. RecordT'
    BY <1>10, IncrRecords, DecrRecords, DropRecords DEF GetStream, SessionT, RecordT
  <2>2. UsedT'
    BY <1>10, FreeUsed, TakeUsed DEF GetStream, UsedT
  <2>3. WhereT'
    BY <1>10 DEF GetStream, Step, WhereT, Steps
  <2>4. SessionT'
    BY <1>10, VodAssumption DEF GetStream, SessionT
  <2>5. ProfileT'
    BY <1>10 DEF GetStream, ProfileT
  <2>6. FlagsT'
    BY <1>10 DEF GetStream, FlagsT
  <2>7. Chosen'
    BY <1>10 DEF GetStream, Step, Chosen, WhereT
  <2> QED
    BY <2>1, <2>2, <2>3, <2>4, <2>5, <2>6, <2>7
<1>11. ASSUME NEW r \in Requests, Undo(r)
       PROVE  RecordT' /\ UsedT' /\ WhereT' /\ SessionT' /\ ProfileT' /\ FlagsT' /\ Chosen'
  <2>1. RecordT'
    BY <1>11, IncrRecords, DecrRecords, DropRecords DEF Undo, SessionT, RecordT
  <2>2. UsedT'
    BY <1>11, FreeUsed, TakeUsed DEF Undo, UsedT
  <2>3. WhereT'
    BY <1>11 DEF Undo, Step, WhereT, Steps
  <2>4. SessionT'
    BY <1>11, VodAssumption DEF Undo, SessionT
  <2>5. ProfileT'
    BY <1>11 DEF Undo, ProfileT
  <2>6. FlagsT'
    BY <1>11 DEF Undo, FlagsT
  <2>7. Chosen'
    BY <1>11 DEF Undo, Step, Chosen, WhereT
  <2> QED
    BY <2>1, <2>2, <2>3, <2>4, <2>5, <2>6, <2>7
<1>12. ASSUME NEW r \in Requests, Refund(r)
       PROVE  RecordT' /\ UsedT' /\ WhereT' /\ SessionT' /\ ProfileT' /\ FlagsT' /\ Chosen'
  <2>1. RecordT'
    BY <1>12, IncrRecords, DecrRecords, DropRecords DEF Refund, RecordT
  <2>2. UsedT'
    BY <1>12, FreeUsed, TakeUsed DEF Refund, UsedT
  <2>3. WhereT'
    BY <1>12 DEF Refund, Step, WhereT, Steps
  <2>4. SessionT'
    BY <1>12, VodAssumption DEF Refund, SessionT
  <2>5. ProfileT'
    BY <1>12 DEF Refund, ProfileT
  <2>6. FlagsT'
    BY <1>12 DEF Refund, FlagsT
  <2>7. Chosen'
    BY <1>12 DEF Refund, Step, Chosen, WhereT
  <2> QED
    BY <2>1, <2>2, <2>3, <2>4, <2>5, <2>6, <2>7
<1>13. ASSUME NEW r \in Requests, BeginBody(r)
       PROVE  RecordT' /\ UsedT' /\ WhereT' /\ SessionT' /\ ProfileT' /\ FlagsT' /\ Chosen'
  <2>1. RecordT'
    BY <1>13, IncrRecords, DecrRecords, DropRecords DEF BeginBody, SessionT, RecordT
  <2>2. UsedT'
    BY <1>13, FreeUsed, TakeUsed DEF BeginBody, UsedT
  <2>3. WhereT'
    BY <1>13 DEF BeginBody, Step, WhereT, Steps
  <2>4. SessionT'
    BY <1>13, VodAssumption DEF BeginBody, SessionT
  <2>5. ProfileT'
    BY <1>13 DEF BeginBody, ProfileT
  <2>6. FlagsT'
    <3>1. Exists(session[r]) \in BOOLEAN
      BY DEF Exists
    <3> QED
      BY <1>13, <3>1 DEF BeginBody, FlagsT
  <2>7. Chosen'
    BY <1>13 DEF BeginBody, Step, Chosen
  <2> QED
    BY <2>1, <2>2, <2>3, <2>4, <2>5, <2>6, <2>7
<1>14. ASSUME NEW r \in Requests, NeverBegins(r)
       PROVE  RecordT' /\ UsedT' /\ WhereT' /\ SessionT' /\ ProfileT' /\ FlagsT' /\ Chosen'
  <2>1. RecordT'
    BY <1>14, IncrRecords, DecrRecords, DropRecords DEF NeverBegins, RecordT
  <2>2. UsedT'
    BY <1>14, FreeUsed, TakeUsed DEF NeverBegins, UsedT
  <2>3. WhereT'
    BY <1>14 DEF NeverBegins, Step, WhereT, Steps
  <2>4. SessionT'
    BY <1>14, VodAssumption DEF NeverBegins, SessionT
  <2>5. ProfileT'
    BY <1>14 DEF NeverBegins, ProfileT
  <2>6. FlagsT'
    BY <1>14 DEF NeverBegins, FlagsT
  <2>7. Chosen'
    BY <1>14 DEF NeverBegins, Step, Chosen
  <2> QED
    BY <2>1, <2>2, <2>3, <2>4, <2>5, <2>6, <2>7
<1>15. ASSUME NEW r \in Requests, EndBody(r)
       PROVE  RecordT' /\ UsedT' /\ WhereT' /\ SessionT' /\ ProfileT' /\ FlagsT' /\ Chosen'
  <2>1. RecordT'
    BY <1>15, IncrRecords, DecrRecords, DropRecords DEF EndBody, SessionT
  <2>2. UsedT'
    BY <1>15, FreeUsed, TakeUsed DEF EndBody, UsedT
  <2>3. WhereT'
    BY <1>15 DEF EndBody, Step, WhereT, Steps
  <2>4. SessionT'
    BY <1>15, VodAssumption DEF EndBody, SessionT
  <2>5. ProfileT'
    BY <1>15 DEF EndBody, ProfileT
  <2>6. FlagsT'
    BY <1>15 DEF EndBody, FlagsT
  <2>7. Chosen'
    BY <1>15 DEF EndBody, Step, Chosen, WhereT
  <2> QED
    BY <2>1, <2>2, <2>3, <2>4, <2>5, <2>6, <2>7
<1>16. ASSUME NEW r \in Requests, HandBack(r)
       PROVE  RecordT' /\ UsedT' /\ WhereT' /\ SessionT' /\ ProfileT' /\ FlagsT' /\ Chosen'
  <2>1. RecordT'
    BY <1>16, IncrRecords, DecrRecords, DropRecords DEF HandBack, RecordT
  <2>2. UsedT'
    BY <1>16, FreeUsed, TakeUsed DEF HandBack
  <2>3. WhereT'
    BY <1>16 DEF HandBack, Step, WhereT, Steps
  <2>4. SessionT'
    BY <1>16, VodAssumption DEF HandBack, SessionT
  <2>5. ProfileT'
    BY <1>16 DEF HandBack, ProfileT
  <2>6. FlagsT'
    BY <1>16 DEF HandBack, FlagsT
  <2>7. Chosen'
    BY <1>16 DEF HandBack, Step, Chosen
  <2> QED
    BY <2>1, <2>2, <2>3, <2>4, <2>5, <2>6, <2>7
<1>17. ASSUME NEW r \in Requests, CleanUp(r)
       PROVE  RecordT' /\ UsedT' /\ WhereT' /\ SessionT' /\ ProfileT' /\ FlagsT' /\ Chosen'
  <2>1. RecordT'
    BY <1>17, IncrRecords, DecrRecords, DropRecords DEF CleanUp, SessionT
  <2>2. UsedT'
    BY <1>17, FreeUsed, TakeUsed DEF CleanUp, UsedT
  <2>3. WhereT'
    BY <1>17 DEF CleanUp, Step, WhereT, Steps
  <2>4. SessionT'
    BY <1>17, VodAssumption DEF CleanUp, SessionT
  <2>5. ProfileT'
    BY <1>17 DEF CleanUp, ProfileT
  <2>6. FlagsT'
    BY <1>17 DEF CleanUp, FlagsT
  <2>7. Chosen'
    BY <1>17 DEF CleanUp, Step, Chosen, WhereT
  <2> QED
    BY <2>1, <2>2, <2>3, <2>4, <2>5, <2>6, <2>7
<1>18. CASE UNCHANGED vodVars
  <2>1. RecordT'
    BY <1>18, IncrRecords, DecrRecords, DropRecords DEF vodVars, RecordT
  <2>2. UsedT'
    BY <1>18, FreeUsed, TakeUsed DEF vodVars, UsedT
  <2>3. WhereT'
    BY <1>18 DEF vodVars, WhereT
  <2>4. SessionT'
    BY <1>18, VodAssumption DEF vodVars, SessionT
  <2>5. ProfileT'
    BY <1>18 DEF vodVars, ProfileT
  <2>6. FlagsT'
    BY <1>18 DEF vodVars, FlagsT
  <2>7. Chosen'
    BY <1>18 DEF vodVars, Chosen
  <2> QED
    BY <2>1, <2>2, <2>3, <2>4, <2>5, <2>6, <2>7
<1> QED
  BY <1>1, <1>2, <1>3, <1>4, <1>5, <1>6, <1>7, <1>8, <1>9, <1>10, <1>11, <1>12, <1>13, <1>14,
     <1>15, <1>16, <1>17, <1>18 DEF VodNext, RequestEnters, RequestTakes, RequestFails,
     RequestStreams

\* The count of a session and the requests counted on it.
LEMMA CountedFinite ==
  \A s \in Sessions : IsFiniteSet(CountedOn(s)) /\ Cardinality(CountedOn(s)) \in Nat
<1>1. \A s \in Sessions : CountedOn(s) \subseteq Requests
  BY DEF CountedOn
<1> QED
  BY <1>1, VodAssumption, FS_Subset, FS_CardinalityType

\* A request that counts on a session finds it in use.
LEMMA CountedActive ==
  ASSUME RecordT, SessionT, CountsTell
  PROVE  /\ \A r \in Requests : counted[r] => Exists(session[r]) /\ Active(session[r]) > 0
         /\ \A r, q \in Requests :
              counted[r] /\ counted[q] /\ session[r] = session[q] /\ r # q => Active(session[r]) > 1
         /\ \A s \in Sessions : Active(s) > 0 => \E r \in Requests : counted[r] /\ session[r] = s
<1>1. ASSUME NEW r \in Requests, counted[r]
      PROVE  Active(session[r]) \in Nat /\ Active(session[r]) > 0
  <2>1. session[r] \in Sessions /\ r \in CountedOn(session[r])
    BY <1>1 DEF SessionT, CountedOn
  <2>2. Cardinality(CountedOn(session[r])) # 0
    BY <2>1, CountedFinite, FS_EmptySet
  <2> QED
    BY <2>1, <2>2, CountedFinite DEF CountsTell
<1>2. ASSUME NEW r \in Requests, NEW q \in Requests, counted[r], counted[q],
             session[r] = session[q], r # q
      PROVE  Active(session[r]) > 1
  <2>1. session[r] \in Sessions /\ {r, q} \subseteq CountedOn(session[r])
    BY <1>2 DEF SessionT, CountedOn
  <2>2. Cardinality({r, q}) = 2
    <3>1. IsFiniteSet({r}) /\ Cardinality({r}) = 1
      BY FS_Singleton
    <3>2. Cardinality({r} \cup {q}) = 2
      BY <3>1, <1>2, FS_AddElement
    <3>3. {r} \cup {q} = {r, q}
      OBVIOUS
    <3> QED
      BY <3>2, <3>3
  <2>3. Cardinality({r, q}) <= Cardinality(CountedOn(session[r]))
    BY <2>1, CountedFinite, FS_Subset
  <2> QED
    BY <2>1, <2>2, <2>3, CountedFinite DEF CountsTell
<1>3. \A r \in Requests : session[r] \in Sessions
  BY DEF SessionT
<1>4. ASSUME NEW s \in Sessions, Active(s) > 0
      PROVE  \E r \in Requests : counted[r] /\ session[r] = s
  <2>1. CountedOn(s) # {}
    BY <1>4, FS_EmptySet DEF CountsTell
  <2> QED
    BY <2>1 DEF CountedOn
<1> QED
  BY <1>1, <1>2, <1>3, <1>4, ActiveNat

\* A record that is dropped is one no request opens, hands back or counts on.
LEMMA RecordsSpared ==
  ASSUME OpenRecord, HandRecord, OnProfile, session' = session, profile' = profile,
         \A q \in Requests : (Opens(q)' => Opens(q)) /\ (where'[q] = "hand" => where[q] = "hand"),
         \A q \in Requests : counted'[q] => counted[q] /\ creates'[q] = creates[q]
                               /\ reserved'[q] = reserved[q],
         \A q \in Requests : Exists(session[q]) /\ (Opens(q)' \/ where'[q] = "hand" \/ counted'[q])
           => record'[session[q]] # Missing /\ record'[session[q]].on = record[session[q]].on
  PROVE  OpenRecord' /\ HandRecord' /\ OnProfile'
<1>1. OpenRecord'
  BY DEF OpenRecord, Exists
<1>2. HandRecord'
  BY DEF HandRecord, Exists
<1>3. OnProfile'
  BY DEF OnProfile, Exists
<1> QED
  BY <1>1, <1>2, <1>3

\* Until a session is muddled, every step keeps what the flags tell, and who
\* opens a session.
LEMMA VodStepPlaces ==
  ASSUME RecordT, UsedT, WhereT, SessionT, ProfileT, FlagsT, Chosen,
         FlagsTell, OpenRecord, OpensAlone, HandRecord, OneRetakes, OnProfile, CountsTell, ~muddled',
         [VodNext]_vodVars
  PROVE  FlagsTell' /\ OpenRecord' /\ OpensAlone' /\ HandRecord' /\ OneRetakes' /\ OnProfile'
<1> USE DEF perRequest
<1>1. ASSUME NEW r \in Requests, Choose(r)
      PROVE  FlagsTell' /\ OpenRecord' /\ OpensAlone' /\ HandRecord' /\ OneRetakes' /\ OnProfile'
  <2>1. FlagsTell'
    BY <1>1, CountedActive DEF Choose, Step, FlagsTell, InUse, WhereT
  <2>2. OpenRecord'
    BY <1>1 DEF Choose, Step, OpenRecord, Opens, OpensAlone, FlagsTell, Opening, Exists,
       ProfileT, WhereT
  <2>3. OpensAlone'
    BY <1>1 DEF Choose, Step, OpensAlone, OpenRecord, HandRecord, RetakesOn, Opens, WhereT
  <2>4. HandRecord'
    BY <1>1 DEF Choose, Step, HandRecord, OpensAlone, Opens, FlagsTell, Exists, WhereT
  <2>5. OneRetakes'
    BY <1>1 DEF Choose, Step, OneRetakes, WhereT
  <2>6. OnProfile'
    BY <1>1 DEF Choose, Step, OnProfile, FlagsTell, Exists, ProfileT
  <2> QED
    BY <2>1, <2>2, <2>3, <2>4, <2>5, <2>6
<1>2. ASSUME NEW r \in Requests, FindIdle(r)
      PROVE  FlagsTell' /\ OpenRecord' /\ OpensAlone' /\ HandRecord' /\ OneRetakes' /\ OnProfile'
  <2>1. FlagsTell'
    BY <1>2, CountedActive DEF FindIdle, Step, FlagsTell, InUse, WhereT
  <2>2. OpenRecord'
    BY <1>2 DEF FindIdle, Step, OpenRecord, Opens, OpensAlone, FlagsTell, Opening, Exists,
       WhereT, SessionT
  <2>3. OpensAlone'
    BY <1>2 DEF FindIdle, Step, OpensAlone, OpenRecord, HandRecord, RetakesOn, Opens, FlagsTell,
       InUse, WhereT, SessionT
  <2>4. HandRecord'
    BY <1>2 DEF FindIdle, Step, HandRecord, OpensAlone, Opens, FlagsTell, Exists, WhereT, SessionT
  <2>5. OneRetakes'
    BY <1>2 DEF FindIdle, Step, OneRetakes, WhereT, SessionT
  <2>6. OnProfile'
    BY <1>2 DEF FindIdle, Step, OnProfile, FlagsTell, Exists, SessionT
  <2> QED
    BY <2>1, <2>2, <2>3, <2>4, <2>5, <2>6
<1>3. ASSUME NEW r \in Requests, Adopt(r)
      PROVE  FlagsTell' /\ OpenRecord' /\ OpensAlone' /\ HandRecord' /\ OneRetakes' /\ OnProfile'
  <2>1. FlagsTell'
    <3>1. where[r] = "adopt" /\ ~creates[r] /\ ~reserved[r] /\ UNCHANGED <<creates, reserved>>
      BY <1>3 DEF Adopt, FlagsTell
    <3>2. CASE Exists(session[r])
      <4>1. counted' = [counted EXCEPT ![r] = TRUE] /\ Step(r, "adopt", "retake")
        BY <1>3, <3>2 DEF Adopt
      <4> QED
        BY <3>1, <4>1 DEF Step, FlagsTell, WhereT, FlagsT
    <3>3. CASE ~Exists(session[r])
      <4>1. counted' = [counted EXCEPT ![r] = FALSE] /\ Step(r, "adopt", "look")
        BY <1>3, <3>3 DEF Adopt, Exists
      <4> QED
        BY <3>1, <4>1 DEF Step, FlagsTell, InUse
    <3> QED
      BY <3>2, <3>3
  <2>2. OpenRecord'
    BY <1>3, CountedActive, IncrRecords DEF Adopt, Step, Muddle, OpenRecord, Opens, OpensAlone,
       FlagsTell, Opening, WhereT, SessionT
  <2>3. OpensAlone'
    BY <1>3, CountedActive, IncrRecords DEF Adopt, Step, Muddle, OpensAlone, OpenRecord,
       HandRecord, RetakesOn, Opens, WhereT, SessionT, FlagsT
  <2>4. HandRecord'
    BY <1>3, CountedActive, IncrRecords DEF Adopt, Step, Muddle, HandRecord, OpensAlone, Opens,
       FlagsTell, WhereT, SessionT
  <2>5. OneRetakes'
    BY <1>3, CountedActive, IncrRecords DEF Adopt, Step, Muddle, OneRetakes, FlagsTell, WhereT,
       SessionT, FlagsT
  <2>6. OnProfile'
    BY <1>3, CountedActive, IncrRecords DEF Adopt, Step, Muddle, OnProfile, FlagsTell, SessionT
  <2> QED
    BY <2>1, <2>2, <2>3, <2>4, <2>5, <2>6
<1>4. ASSUME NEW r \in Requests, LookUp(r)
      PROVE  FlagsTell' /\ OpenRecord' /\ OpensAlone' /\ HandRecord' /\ OneRetakes' /\ OnProfile'
  <2>1. FlagsTell'
    BY <1>4, CountedActive DEF LookUp, Step, FlagsTell, InUse, WhereT, FlagsT
  <2>2. OpenRecord'
    BY <1>4 DEF LookUp, Step, OpenRecord, Opens, OpensAlone, FlagsTell, Opening, Exists
  <2>3. OpensAlone'
    BY <1>4 DEF LookUp, Step, OpensAlone, OpenRecord, HandRecord, RetakesOn, Opens
  <2>4. HandRecord'
    BY <1>4 DEF LookUp, Step, HandRecord, OpensAlone, Opens, FlagsTell, Exists
  <2>5. OneRetakes'
    BY <1>4 DEF LookUp, Step, OneRetakes
  <2>6. OnProfile'
    BY <1>4 DEF LookUp, Step, OnProfile, FlagsTell, Exists
  <2> QED
    BY <2>1, <2>2, <2>3, <2>4, <2>5, <2>6
<1>5. ASSUME NEW r \in Requests, ReserveForNew(r)
      PROVE  FlagsTell' /\ OpenRecord' /\ OpensAlone' /\ HandRecord' /\ OneRetakes' /\ OnProfile'
  <2>1. FlagsTell'
    BY <1>5, CountedActive DEF ReserveForNew, Step, TakeSlot, FlagsTell, InUse, WhereT, FlagsT
  <2>2. OpenRecord'
    BY <1>5 DEF ReserveForNew, Step, TakeSlot, OpenRecord, Opens, OpensAlone, FlagsTell, Opening,
       Exists, WhereT
  <2>3. OpensAlone'
    BY <1>5 DEF ReserveForNew, Step, TakeSlot, OpensAlone, OpenRecord, HandRecord, RetakesOn,
       Opens, WhereT
  <2>4. HandRecord'
    BY <1>5 DEF ReserveForNew, Step, TakeSlot, HandRecord, OpensAlone, Opens, FlagsTell, Exists,
       WhereT
  <2>5. OneRetakes'
    BY <1>5 DEF ReserveForNew, Step, OneRetakes, WhereT
  <2>6. OnProfile'
    BY <1>5 DEF ReserveForNew, Step, TakeSlot, OnProfile, FlagsTell, Exists, FlagsT
  <2> QED
    BY <2>1, <2>2, <2>3, <2>4, <2>5, <2>6
<1>6. ASSUME NEW r \in Requests, CreateRecord(r)
      PROVE  FlagsTell' /\ OpenRecord' /\ OpensAlone' /\ HandRecord' /\ OneRetakes' /\ OnProfile'
  <2>1. FlagsTell'
    BY <1>6, CountedActive DEF CreateRecord, Step, Muddle, FlagsTell
  <2>2. OpenRecord'
    <3>1. PICK s \in Sessions : s = session[r]
      BY DEF SessionT
    <3>2. ~Exists(s) /\ record' = [record EXCEPT ![s] = [on |-> profile[r], active |-> 0]]
      BY <1>6, <3>1 DEF CreateRecord, Muddle
    <3>3. profile[r] \in VodProfiles
      BY <1>6 DEF CreateRecord, Step, Chosen
    <3>4. [on |-> profile[r], active |-> 0] # Missing
      BY <3>3, VodAssumption
    <3>5. record'[s] # Missing /\ record'[s].on = profile[r]
            /\ \A t \in Sessions \ {s} : record'[t] = record[t]
      BY <3>2, <3>4 DEF RecordT
    <3>6. \A q \in Requests : session[q] = s => ~Opens(q) /\ where[q] # "hand" /\ ~counted[q]
      BY <3>2, CountedActive DEF OpenRecord, HandRecord
    <3>7. session' = session /\ profile' = profile /\ creates' = creates /\ counted' = counted
      BY <1>6 DEF CreateRecord
    <3>8. where'[r] = "get" /\ \A q \in Requests \ {r} : where'[q] = where[q]
      BY <1>6 DEF CreateRecord, Step, WhereT
    <3>9. \A q \in Requests \ {r} : Opens(q)' <=> Opens(q)
      BY <3>7, <3>8 DEF Opens
    <3> QED
      BY <3>1, <3>5, <3>6, <3>7, <3>9 DEF OpenRecord, Exists, SessionT
  <2>3. OpensAlone'
    <3>1. PICK s \in Sessions : s = session[r]
      BY DEF SessionT
    <3>2. ~Exists(s) /\ record' = [record EXCEPT ![s] = [on |-> profile[r], active |-> 0]]
      BY <1>6, <3>1 DEF CreateRecord, Muddle
    <3>3. profile[r] \in VodProfiles
      BY <1>6 DEF CreateRecord, Step, Chosen
    <3>4. [on |-> profile[r], active |-> 0] # Missing
      BY <3>3, VodAssumption
    <3>5. record'[s] # Missing /\ record'[s].on = profile[r]
            /\ \A t \in Sessions \ {s} : record'[t] = record[t]
      BY <3>2, <3>4 DEF RecordT
    <3>6. \A q \in Requests : session[q] = s => ~Opens(q) /\ where[q] # "hand" /\ ~counted[q]
      BY <3>2, CountedActive DEF OpenRecord, HandRecord
    <3>7. session' = session /\ profile' = profile /\ creates' = creates /\ counted' = counted
      BY <1>6 DEF CreateRecord
    <3>8. where'[r] = "get" /\ \A q \in Requests \ {r} : where'[q] = where[q]
      BY <1>6 DEF CreateRecord, Step, WhereT
    <3>9. \A q \in Requests \ {r} : Opens(q)' <=> Opens(q)
      BY <3>7, <3>8 DEF Opens
    <3> QED
      <4>1. ASSUME NEW o \in Requests, NEW q \in Requests, Opens(o)', session[q] = session[o]
            PROVE  where'[q] # "hand" /\ (Opens(q)' => q = o)
                     /\ (counted'[q] => RetakesOn(session[o])')
        <5>1. CASE session[o] = s
          BY <3>1, <3>6, <3>7, <3>8, <3>9, <4>1, <5>1
        <5>2. CASE session[o] # s
          <6>1. o # r /\ q # r /\ Opens(o)
            BY <3>1, <3>9, <4>1, <5>2
          <6>2. RetakesOn(session[o]) => RetakesOn(session[o])'
            BY <3>1, <3>7, <3>8, <5>2 DEF RetakesOn
          <6> QED
            BY <3>7, <3>8, <3>9, <4>1, <6>1, <6>2 DEF OpensAlone
        <5> QED
          BY <5>1, <5>2
      <4> QED
        BY <3>7, <4>1 DEF OpensAlone
  <2>4. HandRecord'
    BY <1>6 DEF CreateRecord, Step, Muddle, HandRecord, OpensAlone, Opens, FlagsTell, Exists
  <2>5. OneRetakes'
    BY <1>6 DEF CreateRecord, Step, OneRetakes
  <2>6. OnProfile'
    BY <1>6 DEF CreateRecord, Step, Muddle, OnProfile, Exists
  <2> QED
    BY <2>1, <2>2, <2>3, <2>4, <2>5, <2>6
<1>7. ASSUME NEW r \in Requests, CreateFails(r)
      PROVE  FlagsTell' /\ OpenRecord' /\ OpensAlone' /\ HandRecord' /\ OneRetakes' /\ OnProfile'
  <2>1. FlagsTell'
    BY <1>7, CountedActive DEF CreateFails, Step, FreeSlot, FlagsTell, InUse, WhereT
  <2>2. OpenRecord'
    BY <1>7 DEF CreateFails, Step, FreeSlot, OpenRecord, Opens, OpensAlone, FlagsTell, Opening,
       Exists
  <2>3. OpensAlone'
    BY <1>7 DEF CreateFails, Step, FreeSlot, OpensAlone, OpenRecord, HandRecord, RetakesOn, Opens
  <2>4. HandRecord'
    BY <1>7 DEF CreateFails, Step, FreeSlot, HandRecord, OpensAlone, Opens, FlagsTell, Exists
  <2>5. OneRetakes'
    BY <1>7 DEF CreateFails, Step, OneRetakes
  <2>6. OnProfile'
    BY <1>7 DEF CreateFails, Step, FreeSlot, OnProfile, Exists
  <2> QED
    BY <2>1, <2>2, <2>3, <2>4, <2>5, <2>6
<1>8. ASSUME NEW r \in Requests, Join(r)
      PROVE  FlagsTell' /\ OpenRecord' /\ OpensAlone' /\ HandRecord' /\ OneRetakes' /\ OnProfile'
  <2>1. FlagsTell'
    BY <1>8, CountedActive DEF Join, Step, FlagsTell, InUse, WhereT, FlagsT
  <2>2. OpenRecord'
    BY <1>8, CountedActive, IncrRecords DEF Join, Step, OpenRecord, Opens, OpensAlone, FlagsTell,
       Opening, SessionT
  <2>3. OpensAlone'
    <3>1. PICK s \in Sessions : s = session[r]
      BY DEF SessionT
    <3>2. session' = session /\ creates' = creates
            /\ (\A q \in Requests \ {r} : where'[q] = where[q] /\ counted'[q] = counted[q])
      BY <1>8 DEF Join, Step
    <3>3. ~Opens(r)' /\ where'[r] # "hand" /\ (\A q \in Requests \ {r} : Opens(q)' <=> Opens(q))
      BY <1>8, <3>2 DEF Join, Step, FlagsTell, Opens
    <3>4. \A t \in Sessions : RetakesOn(t) => RetakesOn(t)'
      BY <1>8, <3>2 DEF Join, Step, RetakesOn
    <3>5. counted'[r] => RetakesOn(s)' \/ \E q \in Requests \ {r} : counted[q] /\ session[q] = s
      <4>1. CASE Active(s) = 0
        BY <1>8, <3>1, <3>2, <4>1 DEF Join, Step, RetakesOn, WhereT, FlagsT
      <4>2. CASE Active(s) # 0
        BY <1>8, <3>1, <4>2, CountedActive, ActiveNat DEF Join, Step, FlagsTell, InUse
      <4> QED
        BY <4>1, <4>2
    <3>6. ASSUME NEW o \in Requests, NEW q \in Requests, Opens(o)', session[q] = session[o]
          PROVE  where'[q] # "hand" /\ (Opens(q)' => q = o)
                   /\ (counted'[q] => RetakesOn(session[o])')
      <4>1. o # r /\ Opens(o) /\ session[o] \in Sessions
        BY <3>3, <3>6 DEF SessionT
      <4>2. q # r => (where'[q] # "hand" /\ (Opens(q)' => q = o) /\ (counted'[q] => RetakesOn(session[o])'))
        BY <3>2, <3>3, <3>4, <3>6, <4>1 DEF OpensAlone
      <4>3. q = r => (counted'[q] => RetakesOn(session[o])')
        <5>1. session[o] = s \/ q # r
          BY <3>1, <3>6
        <5>2. (\E h \in Requests \ {r} : counted[h] /\ session[h] = s) /\ session[o] = s
                => RetakesOn(s)
          BY <4>1 DEF OpensAlone
        <5> QED
          BY <3>1, <3>2, <3>4, <3>5, <5>1, <5>2
      <4> QED
        BY <3>3, <4>2, <4>3
    <3> QED
      BY <3>2, <3>6 DEF OpensAlone
  <2>4. HandRecord'
    BY <1>8, CountedActive, IncrRecords DEF Join, Step, HandRecord, OpensAlone, Opens, FlagsTell,
       SessionT
  <2>5. OneRetakes'
    BY <1>8, CountedActive, IncrRecords DEF Join, Step, OneRetakes, FlagsTell
  <2>6. OnProfile'
    BY <1>8, CountedActive, IncrRecords DEF Join, Step, OnProfile, FlagsTell, SessionT
  <2> QED
    BY <2>1, <2>2, <2>3, <2>4, <2>5, <2>6
<1>9. ASSUME NEW r \in Requests, RetakeSlot(r)
      PROVE  FlagsTell' /\ OpenRecord' /\ OpensAlone' /\ HandRecord' /\ OneRetakes' /\ OnProfile'
  <2>1. FlagsTell'
    BY <1>9, CountedActive DEF RetakeSlot, Step, TakeSlot, Muddle, FlagsTell, InUse, WhereT, FlagsT
  <2>2. OpenRecord'
    BY <1>9, CountedActive, DecrRecords DEF RetakeSlot, Step, TakeSlot, Muddle, OpenRecord,
       Opens, OpensAlone, FlagsTell, Opening, Exists, WhereT, SessionT
  <2>3. OpensAlone'
    <3>1. PICK s \in Sessions : s = session[r]
      BY DEF SessionT
    <3>2. session' = session /\ creates' = creates
            /\ (\A q \in Requests \ {r} : where'[q] = where[q] /\ counted'[q] = counted[q])
      BY <1>9 DEF RetakeSlot, Step, WhereT, FlagsT
    <3>3. ~Opens(r)' /\ where'[r] # "hand" /\ (\A q \in Requests \ {r} : Opens(q)' <=> Opens(q))
      BY <1>9, <3>2 DEF RetakeSlot, Step, WhereT, FlagsTell, Opens
    <3>4. \A t \in Sessions \ {s} : RetakesOn(t) => RetakesOn(t)'
      BY <3>1, <3>2 DEF RetakesOn
    <3>5. (\A q \in Requests : session[q] = s => ~Opens(q))
            \/ \A q \in Requests : session[q] = s => ~counted'[q]
      BY <1>9, <3>1, <3>2 DEF RetakeSlot, Muddle, Opening, Opens, OthersOn, FlagsT
    <3>6. ASSUME NEW o \in Requests, NEW q \in Requests, Opens(o)', session[q] = session[o]
          PROVE  where'[q] # "hand" /\ (Opens(q)' => q = o)
                   /\ (counted'[q] => RetakesOn(session[o])')
      <4>1. o # r /\ Opens(o) /\ session[o] \in Sessions
        BY <3>3, <3>6 DEF SessionT
      <4>2. q # r => where'[q] # "hand" /\ (Opens(q)' => q = o)
        BY <3>2, <3>3, <3>6, <4>1 DEF OpensAlone
      <4>3. session[o] = s => ~counted'[q]
        BY <3>5, <3>6, <4>1
      <4>4. session[o] # s /\ counted'[q] => RetakesOn(session[o])'
        BY <3>1, <3>2, <3>4, <3>6, <4>1 DEF OpensAlone
      <4> QED
        BY <3>3, <4>2, <4>3, <4>4
    <3> QED
      BY <3>2, <3>6 DEF OpensAlone
  <2>4. HandRecord'
    BY <1>9, CountedActive, DecrRecords DEF RetakeSlot, Step, TakeSlot, Muddle, HandRecord,
       OpensAlone, Opens, FlagsTell, Exists, WhereT, SessionT
  <2>5. OneRetakes'
    BY <1>9, CountedActive, DecrRecords DEF RetakeSlot, Step, TakeSlot, OneRetakes, WhereT
  <2>6. OnProfile'
    BY <1>9, CountedActive, DecrRecords DEF RetakeSlot, Step, TakeSlot, Muddle, OnProfile,
       Exists, SessionT, FlagsT
  <2> QED
    BY <2>1, <2>2, <2>3, <2>4, <2>5, <2>6
<1>10. ASSUME NEW r \in Requests, GetStream(r)
       PROVE  FlagsTell' /\ OpenRecord' /\ OpensAlone' /\ HandRecord' /\ OneRetakes' /\ OnProfile'
  <2>1. FlagsTell'
    BY <1>10, CountedActive DEF GetStream, Step, Muddle, FlagsTell, InUse, WhereT
  <2>2. OpenRecord' /\ HandRecord' /\ OnProfile'
    <3>1. PICK s \in Sessions : s = session[r]
      BY DEF SessionT
    <3>2. /\ session' = session /\ profile' = profile /\ creates' = creates /\ reserved' = reserved
          /\ \A q \in Requests : counted'[q] => counted[q]
      BY <1>10 DEF GetStream
    <3>3. \A q \in Requests : (Opens(q)' => Opens(q)) /\ (where'[q] = "hand" => where[q] = "hand")
      BY <1>10, <3>2 DEF GetStream, Step, Opens, WhereT
    <3>4. IdleRecord(s) /\ record' # record => \A q \in Requests : session[q] = s => ~Opens(q)'
            /\ where'[q] # "hand" /\ ~counted[q]
      <4>1. IdleRecord(s) => \A q \in Requests : session[q] = s => ~counted[q]
        BY CountedActive DEF IdleRecord
      <4>2. IdleRecord(s) /\ record' # record => Opens(r) /\ ~Opens(r)' /\ ~Handing(s)
        BY <1>10, <3>1, <3>2 DEF GetStream, Step, Muddle, Opens, WhereT
      <4> QED
        BY <3>1, <3>3, <4>1, <4>2 DEF OpensAlone
    <3>5. record' = record \/ DropIfIdle(s)
      BY <1>10, <3>1 DEF GetStream
    <3>6. ASSUME NEW q \in Requests, Exists(session[q]),
                 Opens(q)' \/ where'[q] = "hand" \/ counted'[q]
          PROVE  record'[session[q]] # Missing /\ record'[session[q]].on = record[session[q]].on
      <4>1. session[q] \in Sessions
        BY DEF SessionT
      <4>2. CASE record' = record
        BY <3>6, <4>2 DEF Exists
      <4>3. CASE record' # record /\ DropIfIdle(s)
        <5>1. ~(session[q] = s /\ Active(s) = 0)
          BY <3>2, <3>4, <3>6, <4>3 DEF IdleRecord
        <5>2. \A t \in Sessions :
                (Exists(t)' <=> (Exists(t) /\ ~(t = s /\ Active(s) = 0)))
                  /\ (Exists(t)' => record'[t].on = record[t].on)
          BY <3>1, <4>3, DropRecords
        <5>3. PICK t \in Sessions : t = session[q]
          BY <4>1
        <5>4. Exists(t) /\ ~(t = s /\ Active(s) = 0)
          BY <3>6, <5>1, <5>3
        <5>5. Exists(t)' /\ record'[t].on = record[t].on
          BY <5>2, <5>3, <5>4
        <5> QED
          BY <5>3, <5>5 DEF Exists
      <4> QED
        BY <3>5, <4>2, <4>3
    <3> QED
      BY <3>2, <3>3, <3>6, RecordsSpared
  <2>3. OpensAlone'
    BY <1>10, CountedActive, DropRecords DEF GetStream, Step, Muddle, OpensAlone, OpenRecord,
       HandRecord, RetakesOn, Opens, WhereT
  <2>5. OneRetakes'
    BY <1>10, CountedActive, DropRecords DEF GetStream, Step, OneRetakes, WhereT
  <2> QED
    BY <2>1, <2>2, <2>3, <2>5
<1>11. ASSUME NEW r \in Requests, Undo(r)
       PROVE  FlagsTell' /\ OpenRecord' /\ OpensAlone' /\ HandRecord' /\ OneRetakes' /\ OnProfile'
  <2>1. FlagsTell'
    BY <1>11, CountedActive DEF Undo, Step, Muddle, FlagsTell, InUse, WhereT, FlagsT
  <2>2. OpenRecord' /\ HandRecord' /\ OnProfile'
    <3>1. PICK s \in Sessions : s = session[r]
      BY DEF SessionT
    <3>2. /\ session' = session /\ profile' = profile /\ creates' = creates /\ reserved' = reserved
          /\ \A q \in Requests : counted'[q] => counted[q]
      BY <1>11 DEF Undo, FlagsT
    <3>3. \A q \in Requests : (Opens(q)' => Opens(q)) /\ (where'[q] = "hand" => where[q] = "hand")
      BY <1>11, <3>2 DEF Undo, Step, Opens, WhereT
    <3>4. IdleRecord(s) /\ DropIfIdle(s) /\ creates[r] /\ where[r] = "refuse"
            => \A q \in Requests : session[q] = s => ~Opens(q)' /\ where'[q] # "hand" /\ ~counted[q]
      <4>1. IdleRecord(s) => \A q \in Requests : session[q] = s => ~counted[q]
        BY CountedActive DEF IdleRecord
      <4>2. creates[r] /\ where[r] = "refuse" => Opens(r) /\ ~Opens(r)'
        BY <1>11, <3>2 DEF Undo, Step, Opens, WhereT
      <4> QED
        BY <3>1, <3>3, <4>1, <4>2 DEF OpensAlone
    <3>5. record' = record \/ DecrActive(s) \/ (DropIfIdle(s) /\ creates[r] /\ where[r] = "refuse")
      BY <1>11, <3>1 DEF Undo
    <3>6. ASSUME NEW q \in Requests, Exists(session[q]),
                 Opens(q)' \/ where'[q] = "hand" \/ counted'[q]
          PROVE  record'[session[q]] # Missing /\ record'[session[q]].on = record[session[q]].on
      <4>1. session[q] \in Sessions
        BY DEF SessionT
      <4>2. CASE record' = record
        BY <3>6, <4>2 DEF Exists
      <4>3. CASE record' # record /\ DropIfIdle(s) /\ creates[r] /\ where[r] = "refuse"
        <5>1. ~(session[q] = s /\ Active(s) = 0)
          BY <3>2, <3>4, <3>6, <4>3 DEF IdleRecord
        <5>2. \A t \in Sessions :
                (Exists(t)' <=> (Exists(t) /\ ~(t = s /\ Active(s) = 0)))
                  /\ (Exists(t)' => record'[t].on = record[t].on)
          BY <3>1, <4>3, DropRecords
        <5>3. PICK t \in Sessions : t = session[q]
          BY <4>1
        <5>4. Exists(t) /\ ~(t = s /\ Active(s) = 0)
          BY <3>6, <5>1, <5>3
        <5>5. Exists(t)' /\ record'[t].on = record[t].on
          BY <5>2, <5>3, <5>4
        <5> QED
          BY <5>3, <5>5 DEF Exists
      <4>4. CASE DecrActive(s)
        <5>1. \A t \in Sessions : t = session[q] => Exists(t)' /\ record'[t].on = record[t].on
          BY <3>1, <3>6, <4>4, DecrRecords
        <5> QED
          BY <4>1, <5>1 DEF Exists
      <4> QED
        BY <3>5, <4>2, <4>3, <4>4
    <3> QED
      BY <3>2, <3>3, <3>6, RecordsSpared
  <2>3. OpensAlone'
    BY <1>11, CountedActive, DecrRecords, DropRecords DEF Undo, Step, Muddle, OpensAlone,
       OpenRecord, HandRecord, RetakesOn, Opens, WhereT, FlagsT
  <2>5. OneRetakes'
    BY <1>11, CountedActive, DecrRecords, DropRecords DEF Undo, Step, OneRetakes, WhereT
  <2> QED
    BY <2>1, <2>2, <2>3, <2>5
<1>12. ASSUME NEW r \in Requests, Refund(r)
       PROVE  FlagsTell' /\ OpenRecord' /\ OpensAlone' /\ HandRecord' /\ OneRetakes' /\ OnProfile'
  <2>1. FlagsTell'
    BY <1>12, CountedActive DEF Refund, Step, FreeSlot, FlagsTell, InUse, WhereT
  <2>2. OpenRecord'
    BY <1>12 DEF Refund, Step, FreeSlot, OpenRecord, Opens, OpensAlone, FlagsTell, Opening,
       Exists, WhereT
  <2>3. OpensAlone'
    BY <1>12 DEF Refund, Step, FreeSlot, OpensAlone, OpenRecord, HandRecord, RetakesOn, Opens,
       WhereT
  <2>4. HandRecord'
    BY <1>12 DEF Refund, Step, FreeSlot, HandRecord, OpensAlone, Opens, FlagsTell, Exists, WhereT
  <2>5. OneRetakes'
    BY <1>12 DEF Refund, Step, OneRetakes, WhereT
  <2>6. OnProfile'
    BY <1>12 DEF Refund, Step, FreeSlot, OnProfile, Exists
  <2> QED
    BY <2>1, <2>2, <2>3, <2>4, <2>5, <2>6
<1>13. ASSUME NEW r \in Requests, BeginBody(r)
       PROVE  FlagsTell' /\ OpenRecord' /\ OpensAlone' /\ HandRecord' /\ OneRetakes' /\ OnProfile'
  <2>1. FlagsTell'
    BY <1>13, CountedActive DEF BeginBody, Step, Muddle, FlagsTell, InUse, Opens, OpenRecord,
       WhereT, FlagsT
  <2>2. OpenRecord'
    BY <1>13, CountedActive, IncrRecords DEF BeginBody, Step, Muddle, OpenRecord, Opens,
       OpensAlone, FlagsTell, Opening, Exists, SessionT
  <2>3. OpensAlone'
    BY <1>13, CountedActive, IncrRecords DEF BeginBody, Step, Muddle, OpensAlone, OpenRecord,
       HandRecord, RetakesOn, Opens, WhereT, FlagsT
  <2>4. HandRecord'
    BY <1>13, CountedActive, IncrRecords DEF BeginBody, Step, Muddle, HandRecord, OpensAlone,
       Opens, FlagsTell, Exists, SessionT
  <2>5. OneRetakes'
    BY <1>13, CountedActive, IncrRecords DEF BeginBody, Step, OneRetakes
  <2>6. OnProfile'
    BY <1>13, CountedActive, IncrRecords DEF BeginBody, Step, Muddle, OnProfile, Exists,
       SessionT, FlagsT
  <2> QED
    BY <2>1, <2>2, <2>3, <2>4, <2>5, <2>6
<1>14. ASSUME NEW r \in Requests, NeverBegins(r)
       PROVE  FlagsTell' /\ OpenRecord' /\ OpensAlone' /\ HandRecord' /\ OneRetakes' /\ OnProfile'
  <2>1. FlagsTell'
    BY <1>14, CountedActive DEF NeverBegins, Step, Muddle
  <2>2. OpenRecord'
    BY <1>14 DEF NeverBegins, Step, Muddle, OpenRecord, Opens, OpensAlone, FlagsTell, Opening
  <2>3. OpensAlone'
    BY <1>14 DEF NeverBegins, Step, Muddle, OpensAlone, OpenRecord, HandRecord, RetakesOn
  <2>4. HandRecord'
    BY <1>14 DEF NeverBegins, Step, Muddle, HandRecord, OpensAlone, Opens, FlagsTell
  <2>5. OneRetakes'
    BY <1>14 DEF NeverBegins, Step, Muddle
  <2>6. OnProfile'
    BY <1>14 DEF NeverBegins, Step, Muddle, OnProfile
  <2> QED
    BY <2>1, <2>2, <2>3, <2>4, <2>5, <2>6
<1>15. ASSUME NEW r \in Requests, EndBody(r)
       PROVE  FlagsTell' /\ OpenRecord' /\ OpensAlone' /\ HandRecord' /\ OneRetakes' /\ OnProfile'
  <2>1. FlagsTell'
    BY <1>15, CountedActive DEF EndBody, Step, FlagsTell, InUse, WhereT, FlagsT
  <2>2. OpenRecord'
    BY <1>15, CountedActive, DecrRecords DEF EndBody, Step, OpenRecord, Opens, OpensAlone,
       FlagsTell, Opening, WhereT, SessionT
  <2>3. OpensAlone'
    BY <1>15, CountedActive, DecrRecords DEF EndBody, Step, OpensAlone, OpenRecord, HandRecord,
       RetakesOn, Opens, FlagsTell, WhereT
  <2>4. HandRecord'
    BY <1>15, CountedActive, DecrRecords DEF EndBody, Step, HandRecord, OpensAlone, Opens,
       FlagsTell, WhereT, SessionT
  <2>5. OneRetakes'
    BY <1>15, CountedActive, DecrRecords DEF EndBody, Step, OneRetakes, WhereT
  <2>6. OnProfile'
    BY <1>15, CountedActive, DecrRecords DEF EndBody, Step, OnProfile, SessionT
  <2> QED
    BY <2>1, <2>2, <2>3, <2>4, <2>5, <2>6
<1>16. ASSUME NEW r \in Requests, HandBack(r)
       PROVE  FlagsTell' /\ OpenRecord' /\ OpensAlone' /\ HandRecord' /\ OneRetakes' /\ OnProfile'
  <2>1. FlagsTell'
    BY <1>16, CountedActive DEF HandBack, Step, FreeSlot, FlagsTell, InUse
  <2>2. OpenRecord'
    BY <1>16 DEF HandBack, Step, FreeSlot, OpenRecord, Opens, OpensAlone, FlagsTell, Opening, Exists
  <2>3. OpensAlone'
    BY <1>16 DEF HandBack, Step, FreeSlot, OpensAlone, OpenRecord, HandRecord, RetakesOn, Opens
  <2>4. HandRecord'
    BY <1>16 DEF HandBack, Step, FreeSlot, HandRecord, OpensAlone, Opens, FlagsTell, Exists
  <2>5. OneRetakes'
    BY <1>16 DEF HandBack, Step, OneRetakes
  <2>6. OnProfile'
    BY <1>16 DEF HandBack, Step, FreeSlot, OnProfile, Exists
  <2> QED
    BY <2>1, <2>2, <2>3, <2>4, <2>5, <2>6
<1>17. ASSUME NEW r \in Requests, CleanUp(r)
       PROVE  FlagsTell' /\ OpenRecord' /\ OpensAlone' /\ HandRecord' /\ OneRetakes' /\ OnProfile'
  <2>1. FlagsTell'
    BY <1>17, CountedActive DEF CleanUp, Step, Muddle, FlagsTell, InUse, WhereT
  <2>2. OpenRecord' /\ HandRecord' /\ OnProfile'
    <3>1. PICK s \in Sessions : s = session[r]
      BY DEF SessionT
    <3>2. /\ session' = session /\ profile' = profile /\ creates' = creates /\ reserved' = reserved
          /\ \A q \in Requests : counted'[q] => counted[q]
      BY <1>17 DEF CleanUp
    <3>3. \A q \in Requests : (Opens(q)' => Opens(q)) /\ (where'[q] = "hand" => where[q] = "hand")
      BY <1>17, <3>2 DEF CleanUp, Step, Opens, WhereT
    <3>4. IdleRecord(s) /\ record' # record => \A q \in Requests : session[q] = s => ~Opens(q)'
            /\ where'[q] # "hand" /\ ~counted[q]
      <4>1. IdleRecord(s) => \A q \in Requests : session[q] = s => ~counted[q]
        BY CountedActive DEF IdleRecord
      <4>2. IdleRecord(s) => \A q \in Requests : session[q] = s => ~Opens(q) /\ where[q] # "hand"
        BY <1>17, <3>1 DEF CleanUp, Muddle, Opening, Handing, Opens
      <4> QED
        BY <3>3, <4>1, <4>2
    <3>5. record' = record \/ DropIfIdle(s)
      BY <1>17, <3>1 DEF CleanUp
    <3>6. ASSUME NEW q \in Requests, Exists(session[q]),
                 Opens(q)' \/ where'[q] = "hand" \/ counted'[q]
          PROVE  record'[session[q]] # Missing /\ record'[session[q]].on = record[session[q]].on
      <4>1. session[q] \in Sessions
        BY DEF SessionT
      <4>2. CASE record' = record
        BY <3>6, <4>2 DEF Exists
      <4>3. CASE record' # record /\ DropIfIdle(s)
        <5>1. ~(session[q] = s /\ Active(s) = 0)
          BY <3>2, <3>4, <3>6, <4>3 DEF IdleRecord
        <5>2. \A t \in Sessions :
                (Exists(t)' <=> (Exists(t) /\ ~(t = s /\ Active(s) = 0)))
                  /\ (Exists(t)' => record'[t].on = record[t].on)
          BY <3>1, <4>3, DropRecords
        <5>3. PICK t \in Sessions : t = session[q]
          BY <4>1
        <5>4. Exists(t) /\ ~(t = s /\ Active(s) = 0)
          BY <3>6, <5>1, <5>3
        <5>5. Exists(t)' /\ record'[t].on = record[t].on
          BY <5>2, <5>3, <5>4
        <5> QED
          BY <5>3, <5>5 DEF Exists
      <4> QED
        BY <3>5, <4>2, <4>3
    <3> QED
      BY <3>2, <3>3, <3>6, RecordsSpared
  <2>3. OpensAlone'
    BY <1>17, CountedActive, DropRecords DEF CleanUp, Step, Muddle, OpensAlone, OpenRecord,
       HandRecord, RetakesOn, Opens, WhereT
  <2>5. OneRetakes'
    BY <1>17, CountedActive, DropRecords DEF CleanUp, Step, OneRetakes, WhereT
  <2> QED
    BY <2>1, <2>2, <2>3, <2>5
<1>18. CASE UNCHANGED vodVars
  <2>1. FlagsTell'
    BY <1>18, CountedActive DEF vodVars, FlagsTell
  <2>2. OpenRecord'
    BY <1>18 DEF vodVars, OpenRecord, Opens, OpensAlone, FlagsTell, Opening, Exists
  <2>3. OpensAlone'
    BY <1>18 DEF vodVars, OpensAlone, OpenRecord, HandRecord, RetakesOn, Opens
  <2>4. HandRecord'
    BY <1>18 DEF vodVars, HandRecord, OpensAlone, Opens, FlagsTell, Exists
  <2>5. OneRetakes'
    BY <1>18 DEF vodVars, OneRetakes
  <2>6. OnProfile'
    BY <1>18 DEF vodVars, OnProfile, Exists
  <2> QED
    BY <2>1, <2>2, <2>3, <2>4, <2>5, <2>6
<1> QED
  BY <1>1, <1>2, <1>3, <1>4, <1>5, <1>6, <1>7, <1>8, <1>9, <1>10, <1>11, <1>12, <1>13, <1>14,
     <1>15, <1>16, <1>17, <1>18 DEF VodNext, RequestEnters, RequestTakes, RequestFails,
     RequestStreams

\* The count of every session follows its record: as it was, one more, one less.
LEMMA CountsStay ==
  ASSUME CountsTell, \A s \in Sessions : Active(s)' = Active(s),
         \A q \in Requests : (counted'[q] <=> counted[q])
                               /\ (counted[q] => session'[q] = session[q])
  PROVE  CountsTell'
<1>1. ASSUME NEW s \in Sessions PROVE Active(s)' = Cardinality(CountedOn(s)')
  <2>1. CountedOn(s)' = CountedOn(s)
    BY DEF CountedOn
  <2> QED
    BY <2>1 DEF CountsTell
<1> QED
  BY <1>1 DEF CountsTell

\* ... one request more on it ...
LEMMA CountsGain ==
  ASSUME CountsTell, RecordT, NEW r \in Requests, NEW s \in Sessions, ~counted[r], counted'[r],
         session'[r] = s,
         \A t \in Sessions : Active(t)' = IF t = s THEN Active(t) + 1 ELSE Active(t),
         \A q \in Requests \ {r} : (counted'[q] <=> counted[q]) /\ session'[q] = session[q]
  PROVE  CountsTell'
<1>1. ASSUME NEW t \in Sessions PROVE Active(t)' = Cardinality(CountedOn(t)')
  <2>1. CASE t = s
    <3>1. CountedOn(t)' = CountedOn(t) \cup {r} /\ r \notin CountedOn(t)
      BY <2>1 DEF CountedOn
    <3>2. Cardinality(CountedOn(t) \cup {r}) = Cardinality(CountedOn(t)) + 1
      BY <3>1, CountedFinite, FS_AddElement
    <3> QED
      BY <2>1, <3>1, <3>2 DEF CountsTell
  <2>2. CASE t # s
    <3>1. CountedOn(t)' = CountedOn(t)
      BY <2>2 DEF CountedOn
    <3> QED
      BY <2>2, <3>1 DEF CountsTell
  <2> QED
    BY <2>1, <2>2
<1> QED
  BY <1>1 DEF CountsTell

\* ... or one less.
LEMMA CountsLose ==
  ASSUME CountsTell, RecordT, NEW r \in Requests, NEW s \in Sessions, counted[r], ~counted'[r],
         session[r] = s,
         \A t \in Sessions : Active(t)' = IF t = s THEN Active(t) - 1 ELSE Active(t),
         \A q \in Requests \ {r} : (counted'[q] <=> counted[q]) /\ session'[q] = session[q]
  PROVE  CountsTell'
<1>1. ASSUME NEW t \in Sessions PROVE Active(t)' = Cardinality(CountedOn(t)')
  <2>1. CASE t = s
    <3>1. CountedOn(t)' = CountedOn(t) \ {r} /\ r \in CountedOn(t)
      BY <2>1 DEF CountedOn
    <3>2. Cardinality(CountedOn(t) \ {r}) = Cardinality(CountedOn(t)) - 1
      BY <3>1, CountedFinite, FS_RemoveElement
    <3> QED
      BY <2>1, <3>1, <3>2 DEF CountsTell
  <2>2. CASE t # s
    <3>1. CountedOn(t)' = CountedOn(t)
      BY <2>2 DEF CountedOn
    <3> QED
      BY <2>2, <3>1 DEF CountsTell
  <2> QED
    BY <2>1, <2>2
<1> QED
  BY <1>1 DEF CountsTell

\* Until a session is muddled, a record counts the requests counted on it.
LEMMA VodStepCounts ==
  ASSUME RecordT, UsedT, WhereT, SessionT, ProfileT, FlagsT, Chosen,
         FlagsTell, OpenRecord, CountsTell, ~muddled',
         [VodNext]_vodVars
  PROVE  CountsTell'
<1> USE DEF perRequest
<1>1. ASSUME NEW r \in Requests, Choose(r) PROVE CountsTell'
  <2>1. \A s \in Sessions : Active(s)' = Active(s)
    BY <1>1 DEF Choose, Exists, Active
  <2>2. \A q \in Requests : (counted'[q] <=> counted[q]) /\ (counted[q] => session'[q] = session[q])
    BY <1>1 DEF Choose
  <2> QED
    BY <2>1, <2>2, CountsStay
<1>2. ASSUME NEW r \in Requests, FindIdle(r) PROVE CountsTell'
  <2>1. \A s \in Sessions : Active(s)' = Active(s)
    BY <1>2 DEF FindIdle, Exists, Active
  <2>2. \A q \in Requests : (counted'[q] <=> counted[q]) /\ (counted[q] => session'[q] = session[q])
    BY <1>2 DEF FindIdle, Step, FlagsTell, InUse, SessionT
  <2> QED
    BY <2>1, <2>2, CountsStay
<1>3. ASSUME NEW r \in Requests, Adopt(r) PROVE CountsTell'
  <2>0. PICK s \in Sessions : s = session[r]
    BY DEF SessionT
  <2>1. ~counted[r]
    BY <1>3 DEF Adopt, FlagsTell, InUse
  <2>2. CASE Exists(s)
    <3>1. counted'[r] /\ session' = session /\ \A q \in Requests \ {r} : counted'[q] = counted[q]
      BY <1>3, <2>0, <2>2 DEF Adopt, FlagsT
    <3>2. \A t \in Sessions : Active(t)' = IF t = s THEN Active(t) + 1 ELSE Active(t)
      BY <1>3, <2>0, <2>2, IncrRecords DEF Adopt
    <3> QED
      BY <2>0, <2>1, <3>1, <3>2, CountsGain
  <2>3. CASE ~Exists(s)
    <3>1. \A q \in Requests : (counted'[q] <=> counted[q])
                                /\ (counted[q] => session'[q] = session[q])
      BY <1>3, <2>0, <2>1, <2>3 DEF Adopt, SessionT
    <3>2. \A t \in Sessions : Active(t)' = Active(t)
      BY <1>3, <2>0, <2>3, IncrRecords DEF Adopt
    <3> QED
      BY <3>1, <3>2, CountsStay
  <2> QED
    BY <2>2, <2>3
<1>4. ASSUME NEW r \in Requests, LookUp(r) PROVE CountsTell'
  <2>1. \A s \in Sessions : Active(s)' = Active(s)
    BY <1>4 DEF LookUp, Exists, Active
  <2>2. \A q \in Requests : (counted'[q] <=> counted[q]) /\ (counted[q] => session'[q] = session[q])
    BY <1>4 DEF LookUp
  <2> QED
    BY <2>1, <2>2, CountsStay
<1>5. ASSUME NEW r \in Requests, ReserveForNew(r) PROVE CountsTell'
  <2>1. \A s \in Sessions : Active(s)' = Active(s)
    BY <1>5 DEF ReserveForNew, Exists, Active
  <2>2. \A q \in Requests : (counted'[q] <=> counted[q]) /\ (counted[q] => session'[q] = session[q])
    BY <1>5 DEF ReserveForNew
  <2> QED
    BY <2>1, <2>2, CountsStay
<1>6. ASSUME NEW r \in Requests, CreateRecord(r) PROVE CountsTell'
  <2>0. PICK s \in Sessions : s = session[r]
    BY DEF SessionT
  <2>1. [on |-> profile[r], active |-> 0] # Missing
    <3>1. profile[r] \in VodProfiles
      BY <1>6 DEF CreateRecord, Step, Chosen
    <3> QED
      BY <3>1, VodAssumption
  <2>2. \A t \in Sessions : Active(t)' = Active(t)
    BY <1>6, <2>0, <2>1 DEF CreateRecord, Exists, Active
  <2>3. \A q \in Requests : (counted'[q] <=> counted[q]) /\ (counted[q] => session'[q] = session[q])
    BY <1>6 DEF CreateRecord
  <2> QED
    BY <2>2, <2>3, CountsStay
<1>7. ASSUME NEW r \in Requests, CreateFails(r) PROVE CountsTell'
  <2>1. \A s \in Sessions : Active(s)' = Active(s)
    BY <1>7 DEF CreateFails, Exists, Active
  <2>2. \A q \in Requests : (counted'[q] <=> counted[q]) /\ (counted[q] => session'[q] = session[q])
    BY <1>7 DEF CreateFails
  <2> QED
    BY <2>1, <2>2, CountsStay
<1>8. ASSUME NEW r \in Requests, Join(r) PROVE CountsTell'
  <2>0. PICK s \in Sessions : s = session[r]
    BY DEF SessionT
  <2>1. ~counted[r]
    BY <1>8 DEF Join, Step, FlagsTell, InUse
  <2>2. CASE Exists(s)
    <3>1. counted'[r] /\ session' = session /\ \A q \in Requests \ {r} : counted'[q] = counted[q]
      BY <1>8, <2>0, <2>2 DEF Join, FlagsT
    <3>2. \A t \in Sessions : Active(t)' = IF t = s THEN Active(t) + 1 ELSE Active(t)
      BY <1>8, <2>0, <2>2, IncrRecords DEF Join
    <3> QED
      BY <2>0, <2>1, <3>1, <3>2, CountsGain
  <2>3. CASE ~Exists(s)
    <3>1. \A q \in Requests : (counted'[q] <=> counted[q])
                                /\ (counted[q] => session'[q] = session[q])
      BY <1>8, <2>0, <2>1, <2>3 DEF Join
    <3>2. \A t \in Sessions : Active(t)' = Active(t)
      BY <1>8, <2>0, <2>3, IncrRecords DEF Join
    <3> QED
      BY <3>1, <3>2, CountsStay
  <2> QED
    BY <2>2, <2>3
<1>9. ASSUME NEW r \in Requests, RetakeSlot(r) PROVE CountsTell'
  <2>0. PICK s \in Sessions : s = session[r]
    BY DEF SessionT
  <2>1. CASE HasRoom(profile[r])
    <3>1. UNCHANGED <<record, counted, session>>
      BY <1>9, <2>1 DEF RetakeSlot
    <3> QED
      BY <3>1, CountsStay DEF Active, Exists
  <2>2. CASE ~HasRoom(profile[r])
    <3>1. counted[r] /\ ~counted'[r] /\ session' = session
            /\ \A q \in Requests \ {r} : counted'[q] = counted[q]
      BY <1>9, <2>2 DEF RetakeSlot, FlagsTell, FlagsT
    <3>2. DecrActive(s) /\ Active(s) > 0
      BY <1>9, <2>0, <2>2, <3>1, CountedActive DEF RetakeSlot
    <3>3. \A t \in Sessions : Active(t)' = IF t = s THEN Active(t) - 1 ELSE Active(t)
      BY <3>2, DecrRecords
    <3> QED
      BY <2>0, <3>1, <3>3, CountsLose
  <2> QED
    BY <2>1, <2>2
<1>10. ASSUME NEW r \in Requests, GetStream(r) PROVE CountsTell'
  <2>0. PICK s \in Sessions : s = session[r]
    BY DEF SessionT
  <2> QED
    <3>1. \A t \in Sessions : Active(t)' = Active(t)
      BY <1>10, <2>0, DropRecords DEF GetStream, Active, Exists
    <3>2. \A q \in Requests : (counted'[q] <=> counted[q])
                                /\ (counted[q] => session'[q] = session[q])
      BY <1>10 DEF GetStream
    <3> QED
      BY <3>1, <3>2, CountsStay
<1>11. ASSUME NEW r \in Requests, Undo(r) PROVE CountsTell'
  <2>0. PICK s \in Sessions : s = session[r]
    BY DEF SessionT
  <2>1. CASE creates[r]
    <3>1. \A t \in Sessions : Active(t)' = Active(t)
      BY <1>11, <2>0, DropRecords, <2>1 DEF Undo, Active, Exists
    <3>2. \A q \in Requests : (counted'[q] <=> counted[q])
                                /\ (counted[q] => session'[q] = session[q])
      BY <1>11, <2>1 DEF Undo
    <3> QED
      BY <3>1, <3>2, CountsStay
  <2>2. CASE ~creates[r]
    <3>1. counted[r] /\ ~counted'[r] /\ session' = session
            /\ \A q \in Requests \ {r} : counted'[q] = counted[q]
      BY <1>11, <2>2 DEF Undo, Step, FlagsTell, InUse, FlagsT
    <3>2. DecrActive(s) /\ Active(s) > 0
      BY <1>11, <2>0, <2>2, <3>1, CountedActive DEF Undo
    <3>3. \A t \in Sessions : Active(t)' = IF t = s THEN Active(t) - 1 ELSE Active(t)
      BY <3>2, DecrRecords
    <3> QED
      BY <2>0, <3>1, <3>3, CountsLose
  <2> QED
    BY <2>1, <2>2
<1>12. ASSUME NEW r \in Requests, Refund(r) PROVE CountsTell'
  <2>1. \A s \in Sessions : Active(s)' = Active(s)
    BY <1>12 DEF Refund, Exists, Active
  <2>2. \A q \in Requests : (counted'[q] <=> counted[q]) /\ (counted[q] => session'[q] = session[q])
    BY <1>12 DEF Refund
  <2> QED
    BY <2>1, <2>2, CountsStay
<1>13. ASSUME NEW r \in Requests, BeginBody(r) PROVE CountsTell'
  <2>0. PICK s \in Sessions : s = session[r]
    BY DEF SessionT
  <2>1. CASE creates[r]
    <3>1. Exists(s)
      BY <1>13, <2>0, <2>1 DEF BeginBody, Step, OpenRecord, Opens
    <3>2. ~counted[r]
      BY <1>13, <2>1 DEF BeginBody, Step, FlagsTell
    <3>3. counted'[r] /\ session' = session /\ \A q \in Requests \ {r} : counted'[q] = counted[q]
      BY <1>13, <2>0, <2>1, <3>1 DEF BeginBody, FlagsT
    <3>4. \A t \in Sessions : Active(t)' = IF t = s THEN Active(t) + 1 ELSE Active(t)
      BY <1>13, <2>0, <2>1, <3>1, IncrRecords DEF BeginBody
    <3> QED
      BY <2>0, <3>2, <3>3, <3>4, CountsGain
  <2>2. CASE ~creates[r]
    <3>1. UNCHANGED <<record, counted, session>>
      BY <1>13, <2>2 DEF BeginBody
    <3> QED
      BY <3>1, CountsStay DEF Active, Exists
  <2> QED
    BY <2>1, <2>2
<1>14. ASSUME NEW r \in Requests, NeverBegins(r) PROVE CountsTell'
  BY <1>14 DEF NeverBegins, Muddle
<1>15. ASSUME NEW r \in Requests, EndBody(r) PROVE CountsTell'
  <2>0. PICK s \in Sessions : s = session[r]
    BY DEF SessionT
  <2>1. CASE TRUE
    <3>1. counted[r] /\ ~counted'[r] /\ session' = session
            /\ \A q \in Requests \ {r} : counted'[q] = counted[q]
      BY <1>15, <2>1 DEF EndBody, Step, FlagsTell, FlagsT
    <3>2. DecrActive(s) /\ Active(s) > 0
      BY <1>15, <2>0, <2>1, <3>1, CountedActive DEF EndBody
    <3>3. \A t \in Sessions : Active(t)' = IF t = s THEN Active(t) - 1 ELSE Active(t)
      BY <3>2, DecrRecords
    <3> QED
      BY <2>0, <3>1, <3>3, CountsLose
  <2> QED
    BY <2>1
<1>16. ASSUME NEW r \in Requests, HandBack(r) PROVE CountsTell'
  <2>1. \A s \in Sessions : Active(s)' = Active(s)
    BY <1>16 DEF HandBack, Exists, Active
  <2>2. \A q \in Requests : (counted'[q] <=> counted[q]) /\ (counted[q] => session'[q] = session[q])
    BY <1>16 DEF HandBack
  <2> QED
    BY <2>1, <2>2, CountsStay
<1>17. ASSUME NEW r \in Requests, CleanUp(r) PROVE CountsTell'
  <2>0. PICK s \in Sessions : s = session[r]
    BY DEF SessionT
  <2> QED
    <3>1. \A t \in Sessions : Active(t)' = Active(t)
      BY <1>17, <2>0, DropRecords DEF CleanUp
    <3>2. \A q \in Requests : (counted'[q] <=> counted[q])
                                /\ (counted[q] => session'[q] = session[q])
      BY <1>17 DEF CleanUp
    <3> QED
      BY <3>1, <3>2, CountsStay
<1>18. CASE UNCHANGED vodVars
  <2>1. \A s \in Sessions : Active(s)' = Active(s)
    BY <1>18 DEF vodVars, Exists, Active
  <2>2. \A q \in Requests : (counted'[q] <=> counted[q]) /\ (counted[q] => session'[q] = session[q])
    BY <1>18 DEF vodVars
  <2> QED
    BY <2>1, <2>2, CountsStay
<1> QED
  BY <1>1, <1>2, <1>3, <1>4, <1>5, <1>6, <1>7, <1>8, <1>9, <1>10, <1>11, <1>12, <1>13, <1>14,
     <1>15, <1>16, <1>17, <1>18 DEF VodNext, RequestEnters, RequestTakes, RequestFails,
     RequestStreams

\* Only finitely many sessions stream: each has a request that counts on it.
LEMMA StreamingFinite ==
  ASSUME RecordT, SessionT, CountsTell
  PROVE  \A p \in VodProfiles : IsFiniteSet(Streaming(p)) /\ Cardinality(Streaming(p)) \in Nat
<1> DEFINE U == {session[q] : q \in Requests}
<1>1. session \in Surjection(Requests, U)
  BY DEF SessionT, Surjection
<1>2. IsFiniteSet(U)
  BY <1>1, VodAssumption, FS_Surjection
<1>3. \A p \in VodProfiles : Streaming(p) \subseteq U
  BY CountedActive DEF Streaming
<1> QED
  BY <1>2, <1>3, FS_Subset, FS_CardinalityType

\* Only finitely many requests open a session or hand it back.
LEMMA BetweenFinite == \A p \in VodProfiles : IsFiniteSet(Between(p))
  /\ Cardinality(Between(p)) \in Nat
<1>1. \A p \in VodProfiles : Between(p) \subseteq Requests
  BY DEF Between
<1> QED
  BY <1>1, VodAssumption, FS_Subset, FS_CardinalityType

\* Which sessions stream on a profile.
LEMMA StreamingIs == \A p \in VodProfiles, t \in Sessions : t \in Streaming(p) <=> (Streams(t) /\ record[t].on = p)
  BY DEF Streaming, Streams, RetakesOn

\* Which requests hold a slot of a profile for a session.
LEMMA BetweenIs ==
  HandRecord => \A p \in VodProfiles, q \in Requests : q \in Between(p) <=> (Holds(q) /\ HeldOn(q) = p)
  BY DEF HandRecord, Between, Holds, HeldOn, Handed, InUse, Exists

\* What moves a session in or out of those that stream.
LEMMA StreamsStay ==
  ASSUME RecordT, RecordT',
         \A t \in Sessions : Exists(t) /\ Exists(t)' => record'[t].on = record[t].on,
         \A t \in Sessions : Streams(t)' <=> Streams(t)
  PROVE  \A p \in VodProfiles : Streaming(p)' = Streaming(p)
<1>1. \A t \in Sessions : (Streams(t) => Exists(t)) /\ (Streams(t)' => Exists(t)')
  BY DEF Streams, Active
<1>2. ASSUME NEW p \in VodProfiles, NEW t \in Sessions
      PROVE  (t \in Streaming(p)') <=> (t \in Streaming(p))
  <2>1. (t \in Streaming(p)') <=> (Streams(t)' /\ record'[t].on = p)
    BY DEF Streaming, Streams, RetakesOn
  <2> QED
    BY <1>1, <2>1, StreamingIs
<1>3. \A p \in VodProfiles : Streaming(p) \subseteq Sessions /\ Streaming(p)' \subseteq Sessions
  BY DEF Streaming
<1> QED
  BY <1>2, <1>3

\* A session starts to stream ...
LEMMA StreamsStart ==
  ASSUME RecordT, RecordT', SessionT, CountsTell, NEW s \in Sessions, ~Streams(s), Streams(s)',
         \A t \in Sessions : Exists(t) /\ Exists(t)' => record'[t].on = record[t].on,
         \A t \in Sessions : t # s => (Streams(t)' <=> Streams(t))
  PROVE  \A p \in VodProfiles :
           Cardinality(Streaming(p)') = Cardinality(Streaming(p)) + (IF p = record'[s].on THEN 1 ELSE 0)
<1>1. \A t \in Sessions : (Streams(t) => Exists(t)) /\ (Streams(t)' => Exists(t)')
  BY DEF Streams, Active
<1>2. ASSUME NEW p \in VodProfiles
      PROVE  Cardinality(Streaming(p)') = Cardinality(Streaming(p)) + (IF p = record'[s].on THEN 1 ELSE 0)
  <2>1. \A t \in Sessions : (t \in Streaming(p)') <=> (Streams(t)' /\ record'[t].on = p)
    BY DEF Streaming, Streams, RetakesOn
  <2>2. Streaming(p) \subseteq Sessions /\ Streaming(p)' \subseteq Sessions /\ s \notin Streaming(p)
    BY DEF Streaming, Streams, RetakesOn
  <2>3. \A t \in Sessions : t # s => ((t \in Streaming(p)') <=> (t \in Streaming(p)))
    BY <1>1, <2>1, StreamingIs
  <2>4. CASE p = record'[s].on
    <3>1. Streaming(p)' = Streaming(p) \cup {s}
      BY <2>1, <2>2, <2>3, <2>4
    <3> QED
      BY <2>2, <2>4, <3>1, StreamingFinite, FS_AddElement
  <2>5. CASE p # record'[s].on
    <3>1. Streaming(p)' = Streaming(p)
      BY <2>1, <2>2, <2>3, <2>5
    <3> QED
      BY <2>5, <3>1, StreamingFinite
  <2> QED
    BY <2>4, <2>5
<1> QED
  BY <1>2

\* ... or stops.
LEMMA StreamsStop ==
  ASSUME RecordT, RecordT', SessionT, CountsTell, NEW s \in Sessions, Streams(s), ~Streams(s)',
         \A t \in Sessions : Exists(t) /\ Exists(t)' => record'[t].on = record[t].on,
         \A t \in Sessions : t # s => (Streams(t)' <=> Streams(t))
  PROVE  \A p \in VodProfiles :
           Cardinality(Streaming(p)') = Cardinality(Streaming(p)) - (IF p = record[s].on THEN 1 ELSE 0)
<1>1. \A t \in Sessions : (Streams(t) => Exists(t)) /\ (Streams(t)' => Exists(t)')
  BY DEF Streams, Active
<1>2. ASSUME NEW p \in VodProfiles
      PROVE  Cardinality(Streaming(p)') = Cardinality(Streaming(p)) - (IF p = record[s].on THEN 1 ELSE 0)
  <2>1. \A t \in Sessions : (t \in Streaming(p)') <=> (Streams(t)' /\ record'[t].on = p)
    BY DEF Streaming, Streams, RetakesOn
  <2>2. Streaming(p) \subseteq Sessions /\ Streaming(p)' \subseteq Sessions
          /\ s \notin Streaming(p)'
    BY <2>1 DEF Streaming
  <2>3. \A t \in Sessions : t # s => ((t \in Streaming(p)') <=> (t \in Streaming(p)))
    BY <1>1, <2>1, StreamingIs
  <2>4. CASE p = record[s].on
    <3>1. Streaming(p)' = Streaming(p) \ {s} /\ s \in Streaming(p)
      BY <2>2, <2>3, <2>4, StreamingIs
    <3> QED
      BY <2>4, <3>1, StreamingFinite, FS_RemoveElement
  <2>5. CASE p # record[s].on
    <3>1. Streaming(p)' = Streaming(p)
      BY <2>2, <2>3, <2>5, StreamingIs
    <3> QED
      BY <2>5, <3>1, StreamingFinite
  <2> QED
    BY <2>4, <2>5
<1> QED
  BY <1>2

\* A request whose own state a step leaves alone holds what it held.
LEMMA HoldsStay ==
  ASSUME HandRecord, HandRecord', SessionT,
         \A t \in Sessions : Exists(t) /\ Exists(t)' => record'[t].on = record[t].on,
         NEW q \in Requests, where'[q] = where[q], session'[q] = session[q], profile'[q] = profile[q],
         reserved'[q] = reserved[q], creates'[q] = creates[q]
  PROVE  (Holds(q)' <=> Holds(q)) /\ (Holds(q) => HeldOn(q)' = HeldOn(q))
<1>1. PICK s \in Sessions : s = session[q]
  BY DEF SessionT
<1>2. where[q] = "hand" => Exists(s) /\ Exists(s)'
  BY <1>1 DEF HandRecord, Exists
<1>3. where[q] = "hand" => record'[session'[q]].on = record[session[q]].on
  BY <1>1, <1>2
<1> QED
  BY <1>3 DEF Holds, HeldOn

\* The requests between stay as they are ...
LEMMA BetweenStays ==
  ASSUME HandRecord, HandRecord',
         \A q \in Requests : (Holds(q)' <=> Holds(q)) /\ (Holds(q) => HeldOn(q)' = HeldOn(q))
  PROVE  \A p \in VodProfiles : Between(p)' = Between(p)
<1>1. ASSUME NEW p \in VodProfiles, NEW q \in Requests
      PROVE  (q \in Between(p)') <=> (q \in Between(p))
  <2>1. (q \in Between(p)') <=> (Holds(q)' /\ HeldOn(q)' = p)
    BY DEF HandRecord, Between, Holds, HeldOn, Handed, InUse, Exists
  <2> QED
    BY <2>1, BetweenIs
<1>2. \A p \in VodProfiles : Between(p) \subseteq Requests /\ Between(p)' \subseteq Requests
  BY DEF Between
<1> QED
  BY <1>1, <1>2

\* ... or are one more ...
LEMMA BetweenGains ==
  ASSUME HandRecord, HandRecord', NEW r \in Requests, ~Holds(r), Holds(r)',
         \A q \in Requests \ {r} : (Holds(q)' <=> Holds(q)) /\ (Holds(q) => HeldOn(q)' = HeldOn(q))
  PROVE  \A p \in VodProfiles :
           Cardinality(Between(p)') = Cardinality(Between(p)) + (IF p = HeldOn(r)' THEN 1 ELSE 0)
<1>1. ASSUME NEW p \in VodProfiles
      PROVE  Cardinality(Between(p)') = Cardinality(Between(p)) + (IF p = HeldOn(r)' THEN 1 ELSE 0)
  <2>1. \A q \in Requests : (q \in Between(p)') <=> (Holds(q)' /\ HeldOn(q)' = p)
    BY DEF HandRecord, Between, Holds, HeldOn, Handed, InUse, Exists
  <2>2. Between(p) \subseteq Requests /\ Between(p)' \subseteq Requests /\ r \notin Between(p)
    BY BetweenIs DEF Between
  <2>3. \A q \in Requests : q # r => ((q \in Between(p)') <=> (q \in Between(p)))
    BY <2>1, BetweenIs
  <2>4. CASE p = HeldOn(r)'
    <3>1. Between(p)' = Between(p) \cup {r}
      BY <2>1, <2>2, <2>3, <2>4
    <3> QED
      BY <2>2, <2>4, <3>1, BetweenFinite, FS_AddElement
  <2>5. CASE p # HeldOn(r)'
    <3>1. Between(p)' = Between(p)
      BY <2>1, <2>2, <2>3, <2>5
    <3> QED
      BY <2>5, <3>1, BetweenFinite
  <2> QED
    BY <2>4, <2>5
<1> QED
  BY <1>1

\* ... or one less.
LEMMA BetweenLoses ==
  ASSUME HandRecord, HandRecord', NEW r \in Requests, Holds(r), ~Holds(r)',
         \A q \in Requests \ {r} : (Holds(q)' <=> Holds(q)) /\ (Holds(q) => HeldOn(q)' = HeldOn(q))
  PROVE  \A p \in VodProfiles :
           Cardinality(Between(p)') = Cardinality(Between(p)) - (IF p = HeldOn(r) THEN 1 ELSE 0)
<1>1. ASSUME NEW p \in VodProfiles
      PROVE  Cardinality(Between(p)') = Cardinality(Between(p)) - (IF p = HeldOn(r) THEN 1 ELSE 0)
  <2>1. \A q \in Requests : (q \in Between(p)') <=> (Holds(q)' /\ HeldOn(q)' = p)
    BY DEF HandRecord, Between, Holds, HeldOn, Handed, InUse, Exists
  <2>2. Between(p) \subseteq Requests /\ Between(p)' \subseteq Requests /\ r \notin Between(p)'
    BY <2>1 DEF Between
  <2>3. \A q \in Requests : q # r => ((q \in Between(p)') <=> (q \in Between(p)))
    BY <2>1, BetweenIs
  <2>4. CASE p = HeldOn(r)
    <3>1. Between(p)' = Between(p) \ {r} /\ r \in Between(p)
      BY <2>2, <2>3, <2>4, BetweenIs
    <3> QED
      BY <2>4, <3>1, BetweenFinite, FS_RemoveElement
  <2>5. CASE p # HeldOn(r)
    <3>1. Between(p)' = Between(p)
      BY <2>2, <2>3, <2>5, BetweenIs
    <3> QED
      BY <2>5, <3>1, BetweenFinite
  <2> QED
    BY <2>4, <2>5
<1> QED
  BY <1>1

\* Until a session is muddled, the slots taken are those of the sessions that
\* stream and of the requests that open one or hand it back.
LEMMA VodStepSlots ==
  ASSUME RecordT, UsedT, WhereT, SessionT, ProfileT, FlagsT, Chosen,
         RecordT', UsedT', WhereT', SessionT', ProfileT', FlagsT', Chosen',
         FlagsTell, OpenRecord, OpensAlone, HandRecord, OneRetakes, OnProfile,
         FlagsTell', OpenRecord', OpensAlone', HandRecord', OneRetakes', OnProfile',
         CountsTell, CountsTell', SlotsTell, ~muddled', [VodNext]_vodVars
  PROVE  SlotsTell'
<1> USE DEF perRequest
<1>1. ASSUME NEW r \in Requests, Choose(r) PROVE SlotsTell'
  <2>0. PICK s \in Sessions : s = session[r]
    BY DEF SessionT
  <2>1. \A t \in Sessions : Exists(t) /\ Exists(t)' => record'[t].on = record[t].on
    BY <1>1, <2>0 DEF Choose
  <2>2. \A q \in Requests \ {r} : /\ where'[q] = where[q] /\ session'[q] = session[q]
                                    /\ profile'[q] = profile[q]
                               /\ reserved'[q] = reserved[q] /\ creates'[q] = creates[q]
    BY <1>1 DEF Choose, Step, WhereT, ProfileT
  <2>3. \A q \in Requests \ {r} : (Holds(q)' <=> Holds(q)) /\ (Holds(q) => HeldOn(q)' = HeldOn(q))
    BY <2>1, <2>2, HoldsStay
  <2>4. where[r] # "retake" /\ where'[r] # "retake"
    BY <1>1 DEF Choose, Step, WhereT
  <2>5. \A t \in Sessions : RetakesOn(t)' <=> RetakesOn(t)
    BY <2>2, <2>4 DEF RetakesOn
  <2>6. \A t \in Sessions : Streams(t)' <=> Streams(t)
    BY <1>1, <2>0, <2>5 DEF Choose, Streams, Active, Exists
  <2>7. \A p \in VodProfiles : Streaming(p)' = Streaming(p)
    BY <2>1, <2>6, StreamsStay
  <2>8. (Holds(r)' <=> Holds(r)) /\ (Holds(r) => HeldOn(r)' = HeldOn(r))
    BY <1>1 DEF Choose, Step, Holds, InUse, WhereT
  <2>9. \A p \in VodProfiles : Between(p)' = Between(p)
    BY <2>3, <2>8, BetweenStays
  <2> QED
    BY <1>1, <2>7, <2>9 DEF Choose, SlotsTell
<1>2. ASSUME NEW r \in Requests, FindIdle(r) PROVE SlotsTell'
  <2>0. PICK s \in Sessions : s = session[r]
    BY DEF SessionT
  <2>1. \A t \in Sessions : Exists(t) /\ Exists(t)' => record'[t].on = record[t].on
    BY <1>2, <2>0 DEF FindIdle
  <2>2. \A q \in Requests \ {r} : /\ where'[q] = where[q] /\ session'[q] = session[q]
                                    /\ profile'[q] = profile[q]
                               /\ reserved'[q] = reserved[q] /\ creates'[q] = creates[q]
    BY <1>2 DEF FindIdle, Step, WhereT, SessionT
  <2>3. \A q \in Requests \ {r} : (Holds(q)' <=> Holds(q)) /\ (Holds(q) => HeldOn(q)' = HeldOn(q))
    BY <2>1, <2>2, HoldsStay
  <2>4. where[r] # "retake" /\ where'[r] # "retake"
    BY <1>2 DEF FindIdle, Step, WhereT
  <2>5. \A t \in Sessions : RetakesOn(t)' <=> RetakesOn(t)
    BY <2>2, <2>4 DEF RetakesOn
  <2>6. \A t \in Sessions : Streams(t)' <=> Streams(t)
    BY <1>2, <2>0, <2>5 DEF FindIdle, Streams, Active, Exists
  <2>7. \A p \in VodProfiles : Streaming(p)' = Streaming(p)
    BY <2>1, <2>6, StreamsStay
  <2>8. (Holds(r)' <=> Holds(r)) /\ (Holds(r) => HeldOn(r)' = HeldOn(r))
    BY <1>2 DEF FindIdle, Step, Holds, InUse, WhereT
  <2>9. \A p \in VodProfiles : Between(p)' = Between(p)
    BY <2>3, <2>8, BetweenStays
  <2> QED
    BY <1>2, <2>7, <2>9 DEF FindIdle, SlotsTell
<1>3. ASSUME NEW r \in Requests, Adopt(r) PROVE SlotsTell'
  <2>0. PICK s \in Sessions : s = session[r]
    BY DEF SessionT
  <2>1. \A t \in Sessions : Exists(t) /\ Exists(t)' => record'[t].on = record[t].on
    BY <1>3, <2>0, IncrRecords DEF Adopt
  <2>2. \A q \in Requests \ {r} : /\ where'[q] = where[q] /\ session'[q] = session[q]
                                    /\ profile'[q] = profile[q]
                               /\ reserved'[q] = reserved[q] /\ creates'[q] = creates[q]
    BY <1>3 DEF Adopt, Step, WhereT, SessionT
  <2>3. \A q \in Requests \ {r} : (Holds(q)' <=> Holds(q)) /\ (Holds(q) => HeldOn(q)' = HeldOn(q))
    BY <2>1, <2>2, HoldsStay
  <2>4. ~Streams(s) /\ ~Streams(s)' /\ \A t \in Sessions : t # s => (Streams(t)' <=> Streams(t))
    <3>1. where[r] = "adopt" /\ Active(s) \in Nat /\ ~(Active(s) > 0)
      BY <1>3, <2>0, ActiveNat DEF Adopt, Muddle
    <3>2. \A t \in Sessions : t # s => Active(t)' = Active(t)
      BY <1>3, <2>0, IncrRecords DEF Adopt
    <3>3. \A t \in Sessions : t # s => (RetakesOn(t)' <=> RetakesOn(t))
      BY <1>3, <2>0, <2>2, <3>1 DEF Adopt, Step, RetakesOn, WhereT
    <3>4. Exists(s) => RetakesOn(s)'
      BY <1>3, <2>0 DEF Adopt, Step, RetakesOn, WhereT
    <3>5. ~Exists(s) => Active(s)' = Active(s)
      BY <1>3, <2>0, IncrRecords DEF Adopt
    <3> QED
      BY <3>1, <3>2, <3>3, <3>4, <3>5 DEF Streams
  <2>7. \A p \in VodProfiles : Streaming(p)' = Streaming(p)
    BY <2>1, <2>4, StreamsStay
  <2>8. (Holds(r)' <=> Holds(r)) /\ (Holds(r) => HeldOn(r)' = HeldOn(r))
    BY <1>3 DEF Adopt, Step, Holds, InUse, WhereT
  <2>9. \A p \in VodProfiles : Between(p)' = Between(p)
    BY <2>3, <2>8, BetweenStays
  <2> QED
    BY <1>3, <2>7, <2>9 DEF Adopt, SlotsTell
<1>4. ASSUME NEW r \in Requests, LookUp(r) PROVE SlotsTell'
  <2>0. PICK s \in Sessions : s = session[r]
    BY DEF SessionT
  <2>1. \A t \in Sessions : Exists(t) /\ Exists(t)' => record'[t].on = record[t].on
    BY <1>4, <2>0 DEF LookUp
  <2>2. \A q \in Requests \ {r} : /\ where'[q] = where[q] /\ session'[q] = session[q]
                                    /\ profile'[q] = profile[q]
                               /\ reserved'[q] = reserved[q] /\ creates'[q] = creates[q]
    BY <1>4 DEF LookUp, Step
  <2>3. \A q \in Requests \ {r} : (Holds(q)' <=> Holds(q)) /\ (Holds(q) => HeldOn(q)' = HeldOn(q))
    BY <2>1, <2>2, HoldsStay
  <2>4. where[r] # "retake" /\ where'[r] # "retake"
    BY <1>4 DEF LookUp, Step
  <2>5. \A t \in Sessions : RetakesOn(t)' <=> RetakesOn(t)
    BY <2>2, <2>4 DEF RetakesOn
  <2>6. \A t \in Sessions : Streams(t)' <=> Streams(t)
    BY <1>4, <2>0, <2>5 DEF LookUp, Streams, Active, Exists
  <2>7. \A p \in VodProfiles : Streaming(p)' = Streaming(p)
    BY <2>1, <2>6, StreamsStay
  <2>8. (Holds(r)' <=> Holds(r)) /\ (Holds(r) => HeldOn(r)' = HeldOn(r))
    BY <1>4 DEF LookUp, Step, Holds, InUse
  <2>9. \A p \in VodProfiles : Between(p)' = Between(p)
    BY <2>3, <2>8, BetweenStays
  <2> QED
    BY <1>4, <2>7, <2>9 DEF LookUp, SlotsTell
<1>5. ASSUME NEW r \in Requests, ReserveForNew(r) PROVE SlotsTell'
  <2>0. PICK s \in Sessions : s = session[r]
    BY DEF SessionT
  <2>1. \A t \in Sessions : Exists(t) /\ Exists(t)' => record'[t].on = record[t].on
    BY <1>5, <2>0 DEF ReserveForNew
  <2>2. \A q \in Requests \ {r} : /\ where'[q] = where[q] /\ session'[q] = session[q]
                                    /\ profile'[q] = profile[q]
                               /\ reserved'[q] = reserved[q] /\ creates'[q] = creates[q]
    BY <1>5 DEF ReserveForNew, Step, WhereT, FlagsT
  <2>3. \A q \in Requests \ {r} : (Holds(q)' <=> Holds(q)) /\ (Holds(q) => HeldOn(q)' = HeldOn(q))
    BY <2>1, <2>2, HoldsStay
  <2>4. where[r] # "retake" /\ where'[r] # "retake"
    BY <1>5 DEF ReserveForNew, Step, WhereT
  <2>5. \A t \in Sessions : RetakesOn(t)' <=> RetakesOn(t)
    BY <2>2, <2>4 DEF RetakesOn
  <2>6. \A t \in Sessions : Streams(t)' <=> Streams(t)
    BY <1>5, <2>0, <2>5 DEF ReserveForNew, Streams, Active, Exists
  <2>7. \A p \in VodProfiles : Streaming(p)' = Streaming(p)
    BY <2>1, <2>6, StreamsStay
  <2>8. CASE HasRoom(profile[r])
    <3>1. TakeSlot(profile[r]) /\ profile[r] \in VodProfiles
      BY <1>5, <2>8 DEF ReserveForNew, Chosen
    <3>2. ~Holds(r) /\ Holds(r)' /\ HeldOn(r)' = profile[r]
      BY <1>5, <2>8 DEF ReserveForNew, Step, Holds, HeldOn, InUse, FlagsTell, WhereT
    <3>3. \A p \in VodProfiles : Cardinality(Between(p)') = Cardinality(Between(p)) + (IF p = profile[r] THEN 1 ELSE 0)
      BY <2>3, <3>2, BetweenGains
    <3> QED
      BY <2>7, <3>1, <3>3, TakeUsed, StreamingFinite, BetweenFinite DEF SlotsTell
  <2>9. CASE ~HasRoom(profile[r])
    <3>1. ~Holds(r) /\ ~Holds(r)' /\ used' = used
      BY <1>5, <2>9 DEF ReserveForNew, Step, Holds, InUse, WhereT
    <3>2. \A p \in VodProfiles : Between(p)' = Between(p)
      BY <2>3, <3>1, BetweenStays
    <3> QED
      BY <2>7, <3>1, <3>2 DEF SlotsTell
  <2> QED
    BY <2>8, <2>9
<1>6. ASSUME NEW r \in Requests, CreateRecord(r) PROVE SlotsTell'
  <2>0. PICK s \in Sessions : s = session[r]
    BY DEF SessionT
  <2>1. \A t \in Sessions : Exists(t) /\ Exists(t)' => record'[t].on = record[t].on
    BY <1>6, <2>0 DEF CreateRecord
  <2>2. \A q \in Requests \ {r} : /\ where'[q] = where[q] /\ session'[q] = session[q]
                                    /\ profile'[q] = profile[q]
                               /\ reserved'[q] = reserved[q] /\ creates'[q] = creates[q]
    BY <1>6 DEF CreateRecord, Step
  <2>3. \A q \in Requests \ {r} : (Holds(q)' <=> Holds(q)) /\ (Holds(q) => HeldOn(q)' = HeldOn(q))
    BY <2>1, <2>2, HoldsStay
  <2>4. where[r] # "retake" /\ where'[r] # "retake"
    BY <1>6 DEF CreateRecord, Step
  <2>5. \A t \in Sessions : RetakesOn(t)' <=> RetakesOn(t)
    BY <2>2, <2>4 DEF RetakesOn
  <2>6. \A t \in Sessions : Active(t)' = Active(t)
    <3>1. profile[r] \in VodProfiles
      BY <1>6 DEF CreateRecord, Step, Chosen
    <3>2. [on |-> profile[r], active |-> 0] # Missing
      BY <3>1, VodAssumption
    <3> QED
      BY <1>6, <2>0, <3>2 DEF CreateRecord, Exists, Active
  <2>7. \A p \in VodProfiles : Streaming(p)' = Streaming(p)
    BY <2>1, <2>5, <2>6, StreamsStay DEF Streams
  <2>8. (Holds(r)' <=> Holds(r)) /\ (Holds(r) => HeldOn(r)' = HeldOn(r))
    BY <1>6 DEF CreateRecord, Step, Holds, HeldOn, InUse
  <2>9. \A p \in VodProfiles : Between(p)' = Between(p)
    BY <2>3, <2>8, BetweenStays
  <2> QED
    BY <1>6, <2>7, <2>9 DEF CreateRecord, SlotsTell
<1>7. ASSUME NEW r \in Requests, CreateFails(r) PROVE SlotsTell'
  <2>0. PICK s \in Sessions : s = session[r]
    BY DEF SessionT
  <2>1. \A t \in Sessions : Exists(t) /\ Exists(t)' => record'[t].on = record[t].on
    BY <1>7, <2>0 DEF CreateFails
  <2>2. \A q \in Requests \ {r} : /\ where'[q] = where[q] /\ session'[q] = session[q]
                                    /\ profile'[q] = profile[q]
                               /\ reserved'[q] = reserved[q] /\ creates'[q] = creates[q]
    BY <1>7 DEF CreateFails, Step
  <2>3. \A q \in Requests \ {r} : (Holds(q)' <=> Holds(q)) /\ (Holds(q) => HeldOn(q)' = HeldOn(q))
    BY <2>1, <2>2, HoldsStay
  <2>4. where[r] # "retake" /\ where'[r] # "retake"
    BY <1>7 DEF CreateFails, Step
  <2>5. \A t \in Sessions : RetakesOn(t)' <=> RetakesOn(t)
    BY <2>2, <2>4 DEF RetakesOn
  <2>6. \A t \in Sessions : Streams(t)' <=> Streams(t)
    BY <1>7, <2>0, <2>5 DEF CreateFails, Streams, Active, Exists
  <2>7. \A p \in VodProfiles : Streaming(p)' = Streaming(p)
    BY <2>1, <2>6, StreamsStay
  <2> QED
    <3>1. PICK o \in VodProfiles : o = profile[r]
      BY <1>7, RecordFields DEF CreateFails, Step, Chosen
    <3>2. FreeSlot(o) /\ Holds(r) /\ ~Holds(r)' /\ HeldOn(r) = o
      BY <1>7, <3>1 DEF CreateFails, Step, Holds, HeldOn, InUse, FlagsTell, WhereT
    <3>3. \A p \in VodProfiles : Cardinality(Between(p)') = Cardinality(Between(p)) - (IF p = o THEN 1 ELSE 0)
      BY <2>3, <3>2, BetweenLoses
    <3>4. Between(o) # {} /\ Cardinality(Between(o)) > 0
      <4>1. r \in Between(o)
        BY <3>2, BetweenIs
      <4> QED
        BY <4>1, BetweenFinite, FS_EmptySet
    <3> QED
      BY <2>7, <3>2, <3>3, <3>4, FreeUsed, StreamingFinite, BetweenFinite DEF SlotsTell
<1>8. ASSUME NEW r \in Requests, Join(r) PROVE SlotsTell'
  <2>0. PICK s \in Sessions : s = session[r]
    BY DEF SessionT
  <2>1. \A t \in Sessions : Exists(t) /\ Exists(t)' => record'[t].on = record[t].on
    BY <1>8, <2>0, IncrRecords DEF Join
  <2>2. \A q \in Requests \ {r} : /\ where'[q] = where[q] /\ session'[q] = session[q]
                                    /\ profile'[q] = profile[q]
                               /\ reserved'[q] = reserved[q] /\ creates'[q] = creates[q]
    BY <1>8 DEF Join, Step
  <2>3. \A q \in Requests \ {r} : (Holds(q)' <=> Holds(q)) /\ (Holds(q) => HeldOn(q)' = HeldOn(q))
    BY <2>1, <2>2, HoldsStay
  <2>4. \A t \in Sessions : Streams(t)' <=> Streams(t)
    <3>1. where[r] = "join" /\ Active(s) \in Nat
      BY <1>8, ActiveNat DEF Join, Step
    <3>2. \A t \in Sessions : Active(t)' = IF t = s /\ Exists(s) THEN Active(t) + 1 ELSE Active(t)
      BY <1>8, <2>0, IncrRecords DEF Join
    <3>3. \A t \in Sessions : t # s => (RetakesOn(t)' <=> RetakesOn(t))
      BY <1>8, <2>0, <2>2, <3>1 DEF Join, RetakesOn
    <3>4. Exists(s) /\ Active(s) = 0 => RetakesOn(s)'
      BY <1>8, <2>0 DEF Join, Step, RetakesOn, WhereT
    <3>5. ~(Exists(s) /\ Active(s) = 0) => (RetakesOn(s)' <=> RetakesOn(s))
      <4>1. ~(Exists(s) /\ Active(s) = 0) => where'[r] # "retake"
        BY <1>8, <2>0 DEF Join, Step
      <4> QED
        BY <2>2, <3>1, <4>1 DEF RetakesOn
    <3> QED
      BY <3>1, <3>2, <3>3, <3>4, <3>5 DEF Streams
  <2>7. \A p \in VodProfiles : Streaming(p)' = Streaming(p)
    BY <2>1, <2>4, StreamsStay
  <2>8. (Holds(r)' <=> Holds(r)) /\ (Holds(r) => HeldOn(r)' = HeldOn(r))
    BY <1>8 DEF Join, Step, Holds, FlagsTell
  <2>9. \A p \in VodProfiles : Between(p)' = Between(p)
    BY <2>3, <2>8, BetweenStays
  <2> QED
    BY <1>8, <2>7, <2>9 DEF Join, SlotsTell
<1>9. ASSUME NEW r \in Requests, RetakeSlot(r) PROVE SlotsTell'
  <2>0. PICK s \in Sessions : s = session[r]
    BY DEF SessionT
  <2>1. \A t \in Sessions : Exists(t) /\ Exists(t)' => record'[t].on = record[t].on
    BY <1>9, <2>0, DecrRecords DEF RetakeSlot
  <2>2. \A q \in Requests \ {r} : /\ where'[q] = where[q] /\ session'[q] = session[q]
                                    /\ profile'[q] = profile[q]
                               /\ reserved'[q] = reserved[q] /\ creates'[q] = creates[q]
    BY <1>9 DEF RetakeSlot, Step, WhereT, FlagsT
  <2>3. \A q \in Requests \ {r} : (Holds(q)' <=> Holds(q)) /\ (Holds(q) => HeldOn(q)' = HeldOn(q))
    BY <2>1, <2>2, HoldsStay
  <2>4. ~Holds(r) /\ ~Holds(r)'
    BY <1>9 DEF RetakeSlot, Step, Holds, FlagsTell, WhereT
  <2>5. \A p \in VodProfiles : Between(p)' = Between(p)
    BY <2>3, <2>4, BetweenStays
  <2>6. where[r] = "retake" /\ where'[r] # "retake" /\ RetakesOn(s) /\ counted[r]
    BY <1>9, <2>0 DEF RetakeSlot, Step, RetakesOn, FlagsTell, WhereT
  <2>7. \A t \in Sessions : t # s => (RetakesOn(t)' <=> RetakesOn(t))
    BY <2>0, <2>2, <2>6 DEF RetakesOn
  <2>8. CASE HasRoom(profile[r])
    <3>1. TakeSlot(profile[r]) /\ profile[r] \in VodProfiles /\ record' = record
            /\ session' = session
      BY <1>9, <2>8 DEF RetakeSlot, Chosen
    <3>2. record'[s].on = profile[r]
      BY <1>9, <2>0, <2>8, <3>1 DEF RetakeSlot, Muddle
    <3>3. ~RetakesOn(s)'
      BY <2>0, <2>2, <2>6, <3>1 DEF RetakesOn, OneRetakes
    <3>4. Active(s) > 0
      BY <2>0, <2>6, CountedActive
    <3>5. \A t \in Sessions : Active(t)' = Active(t)
      BY <3>1 DEF Active, Exists
    <3>6. ~Streams(s) /\ Streams(s)' /\ \A t \in Sessions : t # s => (Streams(t)' <=> Streams(t))
      BY <2>6, <2>7, <3>3, <3>4, <3>5 DEF Streams
    <3>7. \A p \in VodProfiles : Cardinality(Streaming(p)') = Cardinality(Streaming(p)) + (IF p = profile[r] THEN 1 ELSE 0)
      BY <2>1, <3>2, <3>6, StreamsStart
    <3> QED
      BY <2>5, <3>1, <3>7, TakeUsed, StreamingFinite, BetweenFinite DEF SlotsTell
  <2>9. CASE ~HasRoom(profile[r])
    <3>1. DecrActive(s) /\ used' = used /\ session' = session /\ ~counted'[r] /\ OthersOn(r) = {}
      BY <1>9, <2>0, <2>9 DEF RetakeSlot, Muddle, FlagsT
    <3>2. \A q \in Requests \ {r} : counted'[q] = counted[q]
      BY <1>9, <2>9 DEF RetakeSlot, FlagsT
    <3>3. CountedOn(s)' = {}
      BY <2>0, <3>1, <3>2 DEF CountedOn, OthersOn
    <3>4. Active(s)' = 0
      BY <3>3, FS_EmptySet DEF CountsTell
    <3>5. \A t \in Sessions : t # s => Active(t)' = Active(t)
      BY <3>1, DecrRecords
    <3>6. \A t \in Sessions : Streams(t)' <=> Streams(t)
      BY <2>6, <2>7, <3>4, <3>5 DEF Streams
    <3>7. \A p \in VodProfiles : Streaming(p)' = Streaming(p)
      BY <2>1, <3>6, StreamsStay
    <3> QED
      BY <2>5, <3>1, <3>7 DEF SlotsTell
  <2> QED
    BY <2>8, <2>9
<1>10. ASSUME NEW r \in Requests, GetStream(r) PROVE SlotsTell'
  <2>0. PICK s \in Sessions : s = session[r]
    BY DEF SessionT
  <2>1. \A t \in Sessions : Exists(t) /\ Exists(t)' => record'[t].on = record[t].on
    BY <1>10, <2>0, DropRecords DEF GetStream
  <2>2. \A q \in Requests \ {r} : /\ where'[q] = where[q] /\ session'[q] = session[q]
                                    /\ profile'[q] = profile[q]
                               /\ reserved'[q] = reserved[q] /\ creates'[q] = creates[q]
    BY <1>10 DEF GetStream, Step, WhereT
  <2>3. \A q \in Requests \ {r} : (Holds(q)' <=> Holds(q)) /\ (Holds(q) => HeldOn(q)' = HeldOn(q))
    BY <2>1, <2>2, HoldsStay
  <2>4. where[r] # "retake" /\ where'[r] # "retake"
    BY <1>10 DEF GetStream, Step, WhereT
  <2>5. \A t \in Sessions : RetakesOn(t)' <=> RetakesOn(t)
    BY <2>2, <2>4 DEF RetakesOn
  <2>6. \A t \in Sessions : Streams(t)' <=> Streams(t)
    BY <1>10, <2>0, <2>5, DropRecords DEF GetStream, Streams, Active, Exists
  <2>7. \A p \in VodProfiles : Streaming(p)' = Streaming(p)
    BY <2>1, <2>6, StreamsStay
  <2>8. (Holds(r)' <=> Holds(r)) /\ (Holds(r) => HeldOn(r)' = HeldOn(r))
    BY <1>10 DEF GetStream, Step, Holds, HeldOn, InUse, WhereT
  <2>9. \A p \in VodProfiles : Between(p)' = Between(p)
    BY <2>3, <2>8, BetweenStays
  <2> QED
    BY <1>10, <2>7, <2>9 DEF GetStream, SlotsTell
<1>11. ASSUME NEW r \in Requests, Undo(r) PROVE SlotsTell'
  <2>0. PICK s \in Sessions : s = session[r]
    BY DEF SessionT
  <2>1. \A t \in Sessions : Exists(t) /\ Exists(t)' => record'[t].on = record[t].on
    BY <1>11, <2>0, DecrRecords, DropRecords DEF Undo
  <2>2. \A q \in Requests \ {r} : /\ where'[q] = where[q] /\ session'[q] = session[q]
                                    /\ profile'[q] = profile[q]
                               /\ reserved'[q] = reserved[q] /\ creates'[q] = creates[q]
    BY <1>11 DEF Undo, Step, WhereT
  <2>3. \A q \in Requests \ {r} : (Holds(q)' <=> Holds(q)) /\ (Holds(q) => HeldOn(q)' = HeldOn(q))
    BY <2>1, <2>2, HoldsStay
  <2>4. where[r] # "retake" /\ where'[r] # "retake"
    BY <1>11 DEF Undo, Step, WhereT
  <2>5. \A t \in Sessions : RetakesOn(t)' <=> RetakesOn(t)
    BY <2>2, <2>4 DEF RetakesOn
  <2>6. CASE creates[r]
    <3>1. \A t \in Sessions : Active(t)' = Active(t)
      BY <1>11, <2>0, <2>6, DropRecords DEF Undo, Active, Exists
    <3>2. \A p \in VodProfiles : Streaming(p)' = Streaming(p)
      BY <2>1, <2>5, <3>1, StreamsStay DEF Streams
    <3>3. (Holds(r)' <=> Holds(r)) /\ (Holds(r) => HeldOn(r)' = HeldOn(r))
      BY <1>11, <2>6 DEF Undo, Step, Holds, HeldOn, InUse, WhereT
    <3>4. \A p \in VodProfiles : Between(p)' = Between(p)
      BY <2>3, <3>3, BetweenStays
    <3> QED
      BY <1>11, <3>2, <3>4 DEF Undo, SlotsTell
  <2>7. CASE ~creates[r]
    <3>1. counted[r] /\ DecrActive(s) /\ used' = used /\ session' = session
      BY <1>11, <2>0, <2>7 DEF Undo, Step, FlagsTell, InUse
    <3>2. Active(s) \in Nat /\ Active(s) > 0
            /\ \A t \in Sessions : Active(t)' = IF t = s THEN Active(t) - 1 ELSE Active(t)
      BY <2>0, <3>1, DecrRecords, CountedActive, ActiveNat
    <3>3. reserved[r] <=> (Active(s) = 1)
      BY <1>11, <2>0, <3>1 DEF Undo, Muddle
    <3>4. Active(s) = 1 => Streams(s) /\ ~Streams(s)'
      <4>1. Active(s) = 1 => ~RetakesOn(s)
        BY <2>0, <2>4, <3>1, CountedActive DEF RetakesOn, FlagsTell
      <4> QED
        BY <3>2, <4>1 DEF Streams
    <3>5. Active(s) > 1 => (Streams(s)' <=> Streams(s))
      BY <2>5, <3>2 DEF Streams
    <3>6. \A t \in Sessions : t # s => (Streams(t)' <=> Streams(t))
      BY <2>5, <3>2 DEF Streams
    <3>7. CASE reserved[r]
      <4>1. Exists(s) /\ record[s].on = profile[r]
        BY <2>0, <2>7, <3>1, <3>7 DEF OnProfile
      <4>2. \A p \in VodProfiles : Cardinality(Streaming(p)') = Cardinality(Streaming(p)) - (IF p = profile[r] THEN 1 ELSE 0)
        BY <2>1, <3>3, <3>4, <3>6, <3>7, <4>1, StreamsStop
      <4>3. ~Holds(r) /\ Holds(r)' /\ HeldOn(r)' = profile[r]
        BY <1>11, <2>7, <3>7 DEF Undo, Step, Holds, HeldOn, WhereT
      <4>4. \A p \in VodProfiles : Cardinality(Between(p)') = Cardinality(Between(p)) + (IF p = profile[r] THEN 1 ELSE 0)
        BY <2>3, <4>3, BetweenGains
      <4> QED
        BY <3>1, <4>2, <4>4, StreamingFinite, BetweenFinite DEF SlotsTell
    <3>8. CASE ~reserved[r]
      <4>1. Active(s) > 1
        BY <3>2, <3>3, <3>8
      <4>2. \A t \in Sessions : Streams(t)' <=> Streams(t)
        BY <3>5, <3>6, <4>1
      <4>3. \A p \in VodProfiles : Streaming(p)' = Streaming(p)
        BY <2>1, <4>2, StreamsStay
      <4>4. ~Holds(r) /\ ~Holds(r)'
        BY <1>11, <2>7, <3>8 DEF Undo, Step, Holds, WhereT
      <4>5. \A p \in VodProfiles : Between(p)' = Between(p)
        BY <2>3, <4>4, BetweenStays
      <4> QED
        BY <3>1, <4>3, <4>5 DEF SlotsTell
    <3> QED
      BY <3>7, <3>8
  <2> QED
    BY <2>6, <2>7
<1>12. ASSUME NEW r \in Requests, Refund(r) PROVE SlotsTell'
  <2>0. PICK s \in Sessions : s = session[r]
    BY DEF SessionT
  <2>1. \A t \in Sessions : Exists(t) /\ Exists(t)' => record'[t].on = record[t].on
    BY <1>12, <2>0 DEF Refund
  <2>2. \A q \in Requests \ {r} : /\ where'[q] = where[q] /\ session'[q] = session[q]
                                    /\ profile'[q] = profile[q]
                               /\ reserved'[q] = reserved[q] /\ creates'[q] = creates[q]
    BY <1>12 DEF Refund, Step, WhereT
  <2>3. \A q \in Requests \ {r} : (Holds(q)' <=> Holds(q)) /\ (Holds(q) => HeldOn(q)' = HeldOn(q))
    BY <2>1, <2>2, HoldsStay
  <2>4. where[r] # "retake" /\ where'[r] # "retake"
    BY <1>12 DEF Refund, Step, WhereT
  <2>5. \A t \in Sessions : RetakesOn(t)' <=> RetakesOn(t)
    BY <2>2, <2>4 DEF RetakesOn
  <2>6. \A t \in Sessions : Streams(t)' <=> Streams(t)
    BY <1>12, <2>0, <2>5 DEF Refund, Streams, Active, Exists
  <2>7. \A p \in VodProfiles : Streaming(p)' = Streaming(p)
    BY <2>1, <2>6, StreamsStay
  <2>8. CASE reserved[r]
    <3>1. PICK o \in VodProfiles : o = profile[r]
      BY <1>12, <2>8, RecordFields DEF Refund, Step, Chosen
    <3>2. FreeSlot(o) /\ Holds(r) /\ ~Holds(r)' /\ HeldOn(r) = o
      BY <1>12, <2>8, <3>1 DEF Refund, Step, Holds, HeldOn, InUse, WhereT
    <3>3. \A p \in VodProfiles : Cardinality(Between(p)') = Cardinality(Between(p)) - (IF p = o THEN 1 ELSE 0)
      BY <2>3, <3>2, BetweenLoses
    <3>4. Between(o) # {} /\ Cardinality(Between(o)) > 0
      <4>1. r \in Between(o)
        BY <3>2, BetweenIs
      <4> QED
        BY <4>1, BetweenFinite, FS_EmptySet
    <3> QED
      BY <2>7, <3>2, <3>3, <3>4, FreeUsed, StreamingFinite, BetweenFinite DEF SlotsTell
  <2>9. CASE ~reserved[r]
    <3>1. ~Holds(r) /\ ~Holds(r)' /\ used' = used
      BY <1>12, <2>9 DEF Refund, Step, Holds, WhereT
    <3>2. \A p \in VodProfiles : Between(p)' = Between(p)
      BY <2>3, <3>1, BetweenStays
    <3> QED
      BY <2>7, <3>1, <3>2 DEF SlotsTell
  <2> QED
    BY <2>8, <2>9
<1>13. ASSUME NEW r \in Requests, BeginBody(r) PROVE SlotsTell'
  <2>0. PICK s \in Sessions : s = session[r]
    BY DEF SessionT
  <2>1. \A t \in Sessions : Exists(t) /\ Exists(t)' => record'[t].on = record[t].on
    BY <1>13, <2>0, IncrRecords DEF BeginBody
  <2>2. \A q \in Requests \ {r} : /\ where'[q] = where[q] /\ session'[q] = session[q]
                                    /\ profile'[q] = profile[q]
                               /\ reserved'[q] = reserved[q] /\ creates'[q] = creates[q]
    BY <1>13 DEF BeginBody, Step
  <2>3. \A q \in Requests \ {r} : (Holds(q)' <=> Holds(q)) /\ (Holds(q) => HeldOn(q)' = HeldOn(q))
    BY <2>1, <2>2, HoldsStay
  <2>4. where[r] # "retake" /\ where'[r] # "retake"
    BY <1>13 DEF BeginBody, Step
  <2>5. \A t \in Sessions : RetakesOn(t)' <=> RetakesOn(t)
    BY <2>2, <2>4 DEF RetakesOn
  <2>6. CASE ~creates[r]
    <3>1. \A t \in Sessions : Active(t)' = Active(t)
      BY <1>13, <2>6 DEF BeginBody, Active, Exists
    <3>2. \A p \in VodProfiles : Streaming(p)' = Streaming(p)
      BY <2>1, <2>5, <3>1, StreamsStay DEF Streams
    <3>3. ~Holds(r) /\ ~Holds(r)'
      BY <1>13, <2>6 DEF BeginBody, Step, Holds
    <3>4. \A p \in VodProfiles : Between(p)' = Between(p)
      BY <2>3, <3>3, BetweenStays
    <3> QED
      BY <1>13, <3>2, <3>4 DEF BeginBody, SlotsTell
  <2>7. CASE creates[r]
    <3>1. Exists(s) /\ record[s].on = profile[r] /\ profile[r] \in VodProfiles
      BY <1>13, <2>0, <2>7 DEF BeginBody, Step, OpenRecord, Opens, Chosen
    <3>2. IncrActive(s) /\ used' = used /\ Active(s) = 0
      <4>1. IncrActive(s) /\ used' = used
        BY <1>13, <2>0, <2>7 DEF BeginBody
      <4>2. ~(Active(s) > 0)
        BY <1>13, <2>0, <2>7 DEF BeginBody, Muddle
      <4> QED
        BY <4>1, <4>2, ActiveNat
    <3>3. \A t \in Sessions : Active(t)' = IF t = s THEN Active(t) + 1 ELSE Active(t)
      BY <3>1, <3>2, IncrRecords
    <3>4. ~RetakesOn(s)
      BY <3>2, CountedActive DEF RetakesOn, FlagsTell
    <3>5. ~Streams(s) /\ Streams(s)' /\ \A t \in Sessions : t # s => (Streams(t)' <=> Streams(t))
      BY <2>5, <3>2, <3>3, <3>4 DEF Streams
    <3>6. record'[s].on = profile[r]
      BY <3>1, <3>2, IncrRecords
    <3>7. \A p \in VodProfiles : Cardinality(Streaming(p)') = Cardinality(Streaming(p)) + (IF p = profile[r] THEN 1 ELSE 0)
      BY <2>1, <3>5, <3>6, StreamsStart
    <3>8. Holds(r) /\ ~Holds(r)' /\ HeldOn(r) = profile[r]
      BY <1>13, <2>7 DEF BeginBody, Step, Holds, HeldOn, InUse, FlagsTell, WhereT
    <3>9. \A p \in VodProfiles : Cardinality(Between(p)') = Cardinality(Between(p)) - (IF p = profile[r] THEN 1 ELSE 0)
      BY <2>3, <3>8, BetweenLoses
    <3> QED
      BY <3>2, <3>7, <3>9, StreamingFinite, BetweenFinite DEF SlotsTell
  <2> QED
    BY <2>6, <2>7
<1>14. ASSUME NEW r \in Requests, NeverBegins(r) PROVE SlotsTell'
  BY <1>14 DEF NeverBegins, Muddle
<1>15. ASSUME NEW r \in Requests, EndBody(r) PROVE SlotsTell'
  <2>0. PICK s \in Sessions : s = session[r]
    BY DEF SessionT
  <2>1. \A t \in Sessions : Exists(t) /\ Exists(t)' => record'[t].on = record[t].on
    BY <1>15, <2>0, DecrRecords DEF EndBody
  <2>2. \A q \in Requests \ {r} : /\ where'[q] = where[q] /\ session'[q] = session[q]
                                    /\ profile'[q] = profile[q]
                               /\ reserved'[q] = reserved[q] /\ creates'[q] = creates[q]
    BY <1>15 DEF EndBody, Step, WhereT
  <2>3. \A q \in Requests \ {r} : (Holds(q)' <=> Holds(q)) /\ (Holds(q) => HeldOn(q)' = HeldOn(q))
    BY <2>1, <2>2, HoldsStay
  <2>4. where[r] # "retake" /\ where'[r] # "retake"
    BY <1>15 DEF EndBody, Step, WhereT
  <2>5. \A t \in Sessions : RetakesOn(t)' <=> RetakesOn(t)
    BY <2>2, <2>4 DEF RetakesOn
  <2> QED
    <3>1. counted[r] /\ DecrActive(s) /\ used' = used /\ session' = session
      BY <1>15, <2>0 DEF EndBody, Step, FlagsTell
    <3>2. Active(s) \in Nat /\ Active(s) > 0
            /\ \A t \in Sessions : Active(t)' = IF t = s THEN Active(t) - 1 ELSE Active(t)
      BY <2>0, <3>1, DecrRecords, CountedActive, ActiveNat
    <3>4. Active(s) = 1 => Streams(s) /\ ~Streams(s)'
      <4>1. Active(s) = 1 => ~RetakesOn(s)
        BY <2>0, <2>4, <3>1, CountedActive DEF RetakesOn, FlagsTell
      <4> QED
        BY <3>2, <4>1 DEF Streams
    <3>5. Active(s) > 1 => (Streams(s)' <=> Streams(s))
      BY <2>5, <3>2 DEF Streams
    <3>6. \A t \in Sessions : t # s => (Streams(t)' <=> Streams(t))
      BY <2>5, <3>2 DEF Streams
    <3>7. CASE Active(s) = 1
      <4>1. record[s].on = record'[s].on
        <5>1. where'[r] = "hand"
          BY <1>15, <2>0, <3>7 DEF EndBody, Step, WhereT
        <5>2. Exists(s)'
          BY <2>0, <3>1, <5>1 DEF HandRecord
        <5>3. Exists(s)
          BY <3>2, ActiveNat
        <5> QED
          BY <2>1, <5>2, <5>3
      <4>2. \A p \in VodProfiles : Cardinality(Streaming(p)') = Cardinality(Streaming(p)) - (IF p = record[s].on THEN 1 ELSE 0)
        BY <2>1, <3>4, <3>6, <3>7, StreamsStop
      <4>3. ~Holds(r) /\ Holds(r)' /\ HeldOn(r)' = record[s].on
        BY <1>15, <2>0, <3>1, <3>7, <4>1 DEF EndBody, Step, Holds, HeldOn, InUse, WhereT
      <4>4. \A p \in VodProfiles : Cardinality(Between(p)') = Cardinality(Between(p)) + (IF p = record[s].on THEN 1 ELSE 0)
        BY <2>3, <4>3, BetweenGains
      <4> QED
        BY <3>1, <4>2, <4>4, StreamingFinite, BetweenFinite DEF SlotsTell
    <3>8. CASE Active(s) > 1
      <4>2. \A t \in Sessions : Streams(t)' <=> Streams(t)
        BY <3>5, <3>6, <3>8
      <4>3. \A p \in VodProfiles : Streaming(p)' = Streaming(p)
        BY <2>1, <4>2, StreamsStay
      <4>4. ~Holds(r) /\ ~Holds(r)'
        BY <1>15, <2>0, <3>8 DEF EndBody, Step, Holds, InUse, WhereT
      <4>5. \A p \in VodProfiles : Between(p)' = Between(p)
        BY <2>3, <4>4, BetweenStays
      <4> QED
        BY <3>1, <4>3, <4>5 DEF SlotsTell
    <3> QED
      BY <3>2, <3>7, <3>8
<1>16. ASSUME NEW r \in Requests, HandBack(r) PROVE SlotsTell'
  <2>0. PICK s \in Sessions : s = session[r]
    BY DEF SessionT
  <2>1. \A t \in Sessions : Exists(t) /\ Exists(t)' => record'[t].on = record[t].on
    BY <1>16, <2>0 DEF HandBack
  <2>2. \A q \in Requests \ {r} : /\ where'[q] = where[q] /\ session'[q] = session[q]
                                    /\ profile'[q] = profile[q]
                               /\ reserved'[q] = reserved[q] /\ creates'[q] = creates[q]
    BY <1>16 DEF HandBack, Step
  <2>3. \A q \in Requests \ {r} : (Holds(q)' <=> Holds(q)) /\ (Holds(q) => HeldOn(q)' = HeldOn(q))
    BY <2>1, <2>2, HoldsStay
  <2>4. where[r] # "retake" /\ where'[r] # "retake"
    BY <1>16 DEF HandBack, Step
  <2>5. \A t \in Sessions : RetakesOn(t)' <=> RetakesOn(t)
    BY <2>2, <2>4 DEF RetakesOn
  <2>6. \A t \in Sessions : Streams(t)' <=> Streams(t)
    BY <1>16, <2>0, <2>5 DEF HandBack, Streams, Active, Exists
  <2>7. \A p \in VodProfiles : Streaming(p)' = Streaming(p)
    BY <2>1, <2>6, StreamsStay
  <2> QED
    <3>1. PICK o \in VodProfiles : o = Handed(r)
      BY <1>16, <2>0, RecordFields DEF HandBack, Step, Chosen, Handed
    <3>2. FreeSlot(o) /\ Holds(r) /\ ~Holds(r)' /\ HeldOn(r) = o
      BY <1>16, <2>0, <3>1 DEF HandBack, Step, Holds, HeldOn, InUse, Handed, HandRecord, WhereT
    <3>3. \A p \in VodProfiles : Cardinality(Between(p)') = Cardinality(Between(p)) - (IF p = o THEN 1 ELSE 0)
      BY <2>3, <3>2, BetweenLoses
    <3>4. Between(o) # {} /\ Cardinality(Between(o)) > 0
      <4>1. r \in Between(o)
        BY <3>2, BetweenIs
      <4> QED
        BY <4>1, BetweenFinite, FS_EmptySet
    <3> QED
      BY <2>7, <3>2, <3>3, <3>4, FreeUsed, StreamingFinite, BetweenFinite DEF SlotsTell
<1>17. ASSUME NEW r \in Requests, CleanUp(r) PROVE SlotsTell'
  <2>0. PICK s \in Sessions : s = session[r]
    BY DEF SessionT
  <2>1. \A t \in Sessions : Exists(t) /\ Exists(t)' => record'[t].on = record[t].on
    BY <1>17, <2>0, DropRecords DEF CleanUp
  <2>2. \A q \in Requests \ {r} : /\ where'[q] = where[q] /\ session'[q] = session[q]
                                    /\ profile'[q] = profile[q]
                               /\ reserved'[q] = reserved[q] /\ creates'[q] = creates[q]
    BY <1>17 DEF CleanUp, Step, WhereT
  <2>3. \A q \in Requests \ {r} : (Holds(q)' <=> Holds(q)) /\ (Holds(q) => HeldOn(q)' = HeldOn(q))
    BY <2>1, <2>2, HoldsStay
  <2>4. where[r] # "retake" /\ where'[r] # "retake"
    BY <1>17 DEF CleanUp, Step, WhereT
  <2>5. \A t \in Sessions : RetakesOn(t)' <=> RetakesOn(t)
    BY <2>2, <2>4 DEF RetakesOn
  <2>6. \A t \in Sessions : Streams(t)' <=> Streams(t)
    BY <1>17, <2>0, <2>5, DropRecords DEF CleanUp, Streams
  <2>7. \A p \in VodProfiles : Streaming(p)' = Streaming(p)
    BY <2>1, <2>6, StreamsStay
  <2>8. (Holds(r)' <=> Holds(r)) /\ (Holds(r) => HeldOn(r)' = HeldOn(r))
    BY <1>17 DEF CleanUp, Step, Holds, InUse, WhereT
  <2>9. \A p \in VodProfiles : Between(p)' = Between(p)
    BY <2>3, <2>8, BetweenStays
  <2> QED
    BY <1>17, <2>7, <2>9 DEF CleanUp, SlotsTell
<1>18. CASE UNCHANGED vodVars
  <2>1. \A p \in VodProfiles : Streaming(p)' = Streaming(p) /\ Between(p)' = Between(p)
    BY <1>18 DEF vodVars, Streaming, Between, Handed, Active, Exists
  <2> QED
    BY <1>18, <2>1 DEF vodVars, SlotsTell
<1> QED
  BY <1>1, <1>2, <1>3, <1>4, <1>5, <1>6, <1>7, <1>8, <1>9, <1>10, <1>11, <1>12, <1>13, <1>14,
     <1>15, <1>16, <1>17, <1>18 DEF VodNext, RequestEnters, RequestTakes, RequestFails,
     RequestStreams

\* Once a session is muddled the model says so for good.
LEMMA MuddledStays ==
  ASSUME muddled \in BOOLEAN, [VodNext]_vodVars
  PROVE  muddled' \in BOOLEAN /\ (muddled => muddled')
<1> USE DEF perRequest, Muddle
<1>1. ASSUME NEW r \in Requests, Choose(r) PROVE muddled' \in BOOLEAN /\ (muddled => muddled')
  BY <1>1 DEF Choose
<1>2. ASSUME NEW r \in Requests, FindIdle(r) PROVE muddled' \in BOOLEAN /\ (muddled => muddled')
  BY <1>2 DEF FindIdle
<1>3. ASSUME NEW r \in Requests, Adopt(r) PROVE muddled' \in BOOLEAN /\ (muddled => muddled')
  BY <1>3 DEF Adopt
<1>4. ASSUME NEW r \in Requests, LookUp(r) PROVE muddled' \in BOOLEAN /\ (muddled => muddled')
  BY <1>4 DEF LookUp
<1>5. ASSUME NEW r \in Requests, ReserveForNew(r)
      PROVE  muddled' \in BOOLEAN /\ (muddled => muddled')
  BY <1>5 DEF ReserveForNew
<1>6. ASSUME NEW r \in Requests, CreateRecord(r) PROVE muddled' \in BOOLEAN /\ (muddled => muddled')
  BY <1>6 DEF CreateRecord
<1>7. ASSUME NEW r \in Requests, CreateFails(r) PROVE muddled' \in BOOLEAN /\ (muddled => muddled')
  BY <1>7 DEF CreateFails
<1>8. ASSUME NEW r \in Requests, Join(r) PROVE muddled' \in BOOLEAN /\ (muddled => muddled')
  BY <1>8 DEF Join
<1>9. ASSUME NEW r \in Requests, RetakeSlot(r) PROVE muddled' \in BOOLEAN /\ (muddled => muddled')
  BY <1>9 DEF RetakeSlot
<1>10. ASSUME NEW r \in Requests, GetStream(r) PROVE muddled' \in BOOLEAN /\ (muddled => muddled')
  BY <1>10 DEF GetStream
<1>11. ASSUME NEW r \in Requests, Undo(r) PROVE muddled' \in BOOLEAN /\ (muddled => muddled')
  BY <1>11 DEF Undo
<1>12. ASSUME NEW r \in Requests, Refund(r) PROVE muddled' \in BOOLEAN /\ (muddled => muddled')
  BY <1>12 DEF Refund
<1>13. ASSUME NEW r \in Requests, BeginBody(r) PROVE muddled' \in BOOLEAN /\ (muddled => muddled')
  BY <1>13 DEF BeginBody
<1>14. ASSUME NEW r \in Requests, NeverBegins(r) PROVE muddled' \in BOOLEAN /\ (muddled => muddled')
  BY <1>14 DEF NeverBegins
<1>15. ASSUME NEW r \in Requests, EndBody(r) PROVE muddled' \in BOOLEAN /\ (muddled => muddled')
  BY <1>15 DEF EndBody
<1>16. ASSUME NEW r \in Requests, HandBack(r) PROVE muddled' \in BOOLEAN /\ (muddled => muddled')
  BY <1>16 DEF HandBack
<1>17. ASSUME NEW r \in Requests, CleanUp(r) PROVE muddled' \in BOOLEAN /\ (muddled => muddled')
  BY <1>17 DEF CleanUp
<1>18. CASE UNCHANGED vodVars
  BY <1>18 DEF vodVars
<1> QED
  BY <1>1, <1>2, <1>3, <1>4, <1>5, <1>6, <1>7, <1>8, <1>9, <1>10, <1>11, <1>12, <1>13, <1>14,
     <1>15, <1>16, <1>17, <1>18 DEF VodNext, RequestEnters, RequestTakes, RequestFails,
     RequestStreams

VodInv ==
  /\ VodTypes /\ muddled \in BOOLEAN
  /\ ~muddled => VodPlaces /\ CountsTell /\ SlotsTell

\* A proxy with no session.
LEMMA VodStarts == VodInit => VodInv
<1> SUFFICES ASSUME VodInit PROVE VodInv
  OBVIOUS
<1>1. VodTypes /\ muddled \in BOOLEAN
  BY VodAssumption DEF VodInit, VodTypes, RecordT, UsedT, WhereT, Steps, SessionT, ProfileT,
     FlagsT, Chosen
<1>2. VodPlaces
  BY DEF VodInit, VodPlaces, FlagsTell, OpenRecord, OpensAlone, HandRecord, OneRetakes,
     OnProfile, Opens, InUse
<1>3. CountsTell
  <2>1. \A s \in Sessions : Active(s) = 0 /\ CountedOn(s) = {}
    BY DEF VodInit, Active, Exists, CountedOn
  <2> QED
    BY <2>1, FS_EmptySet DEF CountsTell
<1>4. SlotsTell
  <2>1. \A p \in VodProfiles : Streaming(p) = {} /\ Between(p) = {} /\ used[p] = 0
    BY DEF VodInit, Streaming, Between, Active, Exists
  <2> QED
    BY <2>1, FS_EmptySet DEF SlotsTell
<1> QED
  BY <1>1, <1>2, <1>3, <1>4 DEF VodInv

\* The invariant is inductive.
LEMMA VodSteps == VodInv /\ [VodNext]_vodVars => VodInv'
<1> SUFFICES ASSUME VodInv, [VodNext]_vodVars PROVE VodInv'
  OBVIOUS
<1>1. VodTypes'
  BY VodStepTypes DEF VodInv, VodTypes
<1>2. muddled' \in BOOLEAN /\ (muddled => muddled')
  BY MuddledStays DEF VodInv
<1>3. ASSUME ~muddled' PROVE VodPlaces' /\ CountsTell' /\ SlotsTell'
  <2>1. VodTypes /\ VodPlaces /\ CountsTell /\ SlotsTell
    BY <1>2, <1>3 DEF VodInv
  <2>2. VodPlaces'
    BY <1>3, <2>1, VodStepPlaces DEF VodTypes, VodPlaces
  <2>3. CountsTell'
    BY <1>3, <2>1, VodStepCounts DEF VodTypes, VodPlaces
  <2>4. SlotsTell'
    BY <1>1, <1>3, <2>1, <2>2, <2>3, VodStepSlots DEF VodTypes, VodPlaces
  <2> QED
    BY <2>2, <2>3, <2>4
<1> QED
  BY <1>1, <1>2, <1>3 DEF VodInv

\* In every run: as long as none of the events it names has happened, the
\* record of a session counts exactly the requests that stream from it, and the
\* slots taken of a profile are those of the sessions that stream on it and of
\* the requests that open one or hand it back.
THEOREM VodSlots == VodSpec => []SlotsFollowSessions
<1>1. VodInv => SlotsFollowSessions
  BY DEF VodInv, SlotsFollowSessions, CountsTell, SlotsTell, CountedOn
<1> QED
  BY VodStarts, VodSteps, <1>1, PTL DEF VodSpec
=============================================================================

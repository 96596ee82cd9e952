------------------------------ MODULE CatchUp ------------------------------
(***************************************************************************)
(* A catch-up session and the provider slot it holds                       *)
(* (apps/timeshift/views.py: _serve_catchup and the session pool).  A      *)
(* player opens one programme with several GETs, each on its own worker;   *)
(* a seek or a reopening displaces the stream in flight, asks it to stop    *)
(* and takes its slot over.  The pool entry says who has the slot: busy    *)
(* when a stream is thought to hold it.                                    *)
(*                                                                         *)
(* One action is one Redis command or one section under the session's      *)
(* lock, or the provider's answer.  One session, one programme, and per    *)
(* provider stream one profile and one generation counter.  Left out: the  *)
(* superseded marker (no path reads it to another effect), the stop key's  *)
(* 60 seconds, other sessions' stops, stream limits, byte ranges beyond    *)
(* what they ask of the pool.                                              *)
(***************************************************************************)
EXTENDS Integers, Sequences, FiniteSets

CONSTANTS
  MaxGets,     \* bound: GETs of the session, numbered as they arrive
  Feeds,       \* the channel's catch-up streams, each with its profile
  FeedOrder,   \* the order they are tried in
  FeedRoom,    \* per feed: max_streams of its profile
  NoFeed       \* no entry, no stats client

ASSUME CatchUpAssumption ==
  /\ MaxGets \in Nat /\ NoFeed \notin Feeds \cup [on : Feeds, busy : BOOLEAN]
  /\ FeedOrder \in Seq(Feeds) /\ FeedRoom \in [Feeds -> Nat \ {0}]

Gets == 1..MaxGets

VARIABLES
  pooled,    \* the pool entry: its profile and its busy field
  leased,    \* profile_connections:{profile}
  turns,     \* per feed: the stream generation counter
  halt,      \* per feed: the stop key, the last generation it stops; 0: none
  shown,     \* the session's stats client: the feed it plays
  grace,     \* the stats grace: "none", "armed", "claimed"
  spot,      \* per GET: the next step of _serve_catchup or of the body
  saw,       \* per GET: a seek's: the profile of the entry it is to displace
  tried,     \* per GET: how many of FeedOrder it has tried
  lease,     \* per GET: the feed whose slot its release_cb gives back
  turn,      \* per GET: its stream_generation
  displaced, \* history: the GETs whose slot another has taken over
  strayed    \* history: one of the events CatchUpSlotsFollowEntry names

sharedKeys == <<pooled, leased, turns, halt, shown, grace>>
ofGets     == <<saw, tried, lease, turn>>
catchUpVars == <<sharedKeys, spot, ofGets, displaced, strayed>>

Spots == {"arrive", "acquire", "preempt", "take", "abandon", "forget",
          "reserve", "register", "refund", "open", "ready", "body", "close",
          "unseat", "drop", "done"}

CatchUpTypeOK ==
  /\ pooled \in {NoFeed} \cup [on : Feeds, busy : BOOLEAN]
  /\ saw \in [Gets -> Feeds \cup {NoFeed}]
  /\ leased \in [Feeds -> 0..MaxGets]
  /\ turns \in [Feeds -> 0..MaxGets] /\ halt \in [Feeds -> 0..MaxGets]
  /\ shown \in Feeds \cup {NoFeed} /\ grace \in {"none", "armed", "claimed"}
  /\ spot \in [Gets -> Spots]
  /\ tried \in [Gets -> 0..Len(FeedOrder)]
  /\ lease \in [Gets -> Feeds \cup {NoFeed}] /\ turn \in [Gets -> 0..MaxGets]
  /\ displaced \subseteq Gets /\ strayed \in BOOLEAN

CatchUpInit ==
  /\ pooled = NoFeed /\ leased = [f \in Feeds |-> 0]
  /\ turns = [f \in Feeds |-> 0] /\ halt = [f \in Feeds |-> 0]
  /\ shown = NoFeed /\ grace = "none"
  /\ spot = [g \in Gets |-> "arrive"]
  /\ saw = [g \in Gets |-> NoFeed] /\ tried = [g \in Gets |-> 0]
  /\ lease = [g \in Gets |-> NoFeed] /\ turn = [g \in Gets |-> 0]
  /\ displaced = {} /\ strayed = FALSE

----------------------------------------------------------------------------
(* The entry, the counter, and who is where. *)

Pooled(e) == e # NoFeed
Busy(e)   == Pooled(e) /\ e.busy

RoomOn(f)  == leased[f] < FeedRoom[f]
Lease(f)   == leased' = [leased EXCEPT ![f] = @ + 1]
Return(f)  == leased' = [leased EXCEPT ![f] = IF @ > 0 THEN @ - 1 ELSE @]
Seat(f, b) == pooled' = [on |-> f, busy |-> b]

Goto(g, from, to) == spot[g] = from /\ spot' = [spot EXCEPT ![g] = to]
Standing(places) == {g \in Gets : spot[g] \in places}

\* The GET is over, and what it knew is gone.
Ends(g, from) ==
  /\ Goto(g, from, "done")
  /\ saw' = [saw EXCEPT ![g] = NoFeed] /\ tried' = [tried EXCEPT ![g] = 0]
  /\ lease' = [lease EXCEPT ![g] = NoFeed] /\ turn' = [turn EXCEPT ![g] = 0]
  /\ displaced' = displaced \ {g}

\* They use the session's slot.
Users == Standing({"open", "ready", "body"})
\* The slot is back, the entry does not say so yet.
Leaving == Standing({"unseat", "drop", "forget"})
\* It is, or is about to be.
Parting == Leaving \cup Standing({"close"})

Stray(event) == strayed' = (strayed \/ event)
Displace(g)  == displaced' = displaced \cup (Users \ {g})

----------------------------------------------------------------------------
(* What a GET does with the session's entry. *)

\* A seek takes an idle entry for a busy one while the stats list the session.
SeenBusy(ask) == Busy(pooled) \/ (Pooled(pooled) /\ ask = "seek" /\ shown # NoFeed)

\* The request cancels the grace, and looks at the entry: it opens the feeds in
\* turn, reuses an idle entry, displaces a stream (as a seek or as a plain
\* reopening), or, as a probe of the end, leaves.
Look(g) ==
  /\ \A h \in Gets : spot[h] = "arrive" => g <= h
  /\ grace' = IF shown # NoFeed /\ grace = "armed" THEN "none" ELSE grace
  /\ \/ /\ ~Pooled(pooled) /\ Goto(g, "arrive", "reserve")
        /\ UNCHANGED <<ofGets, displaced>>
     \/ /\ Pooled(pooled) /\ ~Busy(pooled) /\ Goto(g, "arrive", "acquire")
        /\ UNCHANGED <<ofGets, displaced>>
     \/ /\ SeenBusy("seek") /\ Goto(g, "arrive", "preempt")
        /\ saw' = [saw EXCEPT ![g] = pooled.on]
        /\ UNCHANGED <<tried, lease, turn, displaced>>
     \/ /\ SeenBusy("restart") /\ Goto(g, "arrive", "preempt")
        /\ UNCHANGED <<ofGets, displaced>>
     \/ SeenBusy("probe") /\ Ends(g, "arrive")
  /\ UNCHANGED <<pooled, leased, turns, halt, shown, strayed>>

\* _acquire_idle_pool_session: reserve the idle entry's profile, mark it busy.
Acquirable == Pooled(pooled) /\ ~Busy(pooled) /\ RoomOn(pooled.on)
Acquire(g) ==
  /\ spot[g] = "acquire"
  /\ \/ /\ Acquirable
        /\ Lease(pooled.on) /\ Seat(pooled.on, TRUE)
        /\ lease' = [lease EXCEPT ![g] = pooled.on]
        /\ Goto(g, "acquire", "open")
     \/ /\ ~Acquirable
        /\ Goto(g, "acquire", "reserve")
        /\ UNCHANGED <<pooled, leased, lease>>
  /\ UNCHANGED <<turns, halt, shown, grace, saw, tried, turn, displaced, strayed>>

\* _preempt_playback_streams: stop what the stats list, up to the generation
\* counted so far.
Preempt(g) ==
  /\ Goto(g, "preempt", "take")
  /\ halt' = IF shown = NoFeed THEN halt
             ELSE [halt EXCEPT ![shown] = IF turns[shown] = 0 THEN 1 ELSE turns[shown]]
  /\ UNCHANGED <<pooled, leased, turns, shown, grace, ofGets, displaced, strayed>>

\* handoff=True: the displaced stream keeps its reservation for this one.  An
\* entry that is gone, or whose lock is not had, ends the wait: a seek then
\* abandons it, another GET gets a 503.
TakeOver(g) ==
  /\ \/ /\ Pooled(pooled) /\ Seat(pooled.on, TRUE)
        /\ lease' = [lease EXCEPT ![g] = pooled.on]
        /\ Goto(g, "take", "open") /\ Displace(g)
        /\ Stray(~Busy(pooled) \/ Parting # {})
        /\ saw' = [saw EXCEPT ![g] = NoFeed]
        /\ UNCHANGED <<tried, turn>>
     \/ /\ saw[g] # NoFeed /\ Goto(g, "take", "abandon")
        /\ UNCHANGED <<pooled, ofGets, displaced, strayed>>
     \/ /\ saw[g] = NoFeed /\ Ends(g, "take")
        /\ UNCHANGED <<pooled, strayed>>
  /\ UNCHANGED <<leased, turns, halt, shown, grace>>

\* _force_abandon_busy_pool gives the slot back for the displaced stream, ...
AbandonPool(g) ==
  /\ Goto(g, "abandon", "forget")
  /\ Return(saw[g]) /\ saw' = [saw EXCEPT ![g] = NoFeed]
  /\ Displace(g)
  /\ Stray(~Busy(pooled) \/ pooled.on # saw[g] \/ Parting # {})
  /\ UNCHANGED <<pooled, turns, halt, shown, grace, tried, lease, turn>>

\* ... and deletes the entry.
ForgetPool(g) ==
  /\ Goto(g, "forget", "reserve")
  /\ pooled' = NoFeed
  /\ UNCHANGED <<leased, turns, halt, shown, grace, ofGets, displaced, strayed>>

----------------------------------------------------------------------------
(* The catch-up streams, tried in turn, each on a slot reserved first. *)

ReserveFeed(g) ==
  LET f == FeedOrder[tried[g] + 1] IN
  /\ spot[g] = "reserve"
  /\ \/ /\ tried[g] = Len(FeedOrder) /\ Ends(g, "reserve")
        /\ UNCHANGED leased
     \/ /\ tried[g] < Len(FeedOrder) /\ RoomOn(f)
        /\ Lease(f) /\ lease' = [lease EXCEPT ![g] = f]
        /\ tried' = [tried EXCEPT ![g] = @ + 1]
        /\ Goto(g, "reserve", "register")
        /\ UNCHANGED <<saw, turn, displaced>>
     \/ /\ tried[g] < Len(FeedOrder) /\ ~RoomOn(f)
        /\ tried' = [tried EXCEPT ![g] = @ + 1]
        /\ UNCHANGED <<leased, spot, saw, lease, turn, displaced>>
  /\ UNCHANGED <<pooled, turns, halt, shown, grace, strayed>>

\* _create_pool_session: an entry that is there, or a lock not had, ends the GET.
Register(g) ==
  /\ \/ ~Pooled(pooled) /\ Seat(lease[g], TRUE) /\ Goto(g, "register", "open")
     \/ Goto(g, "register", "refund") /\ UNCHANGED pooled
  /\ UNCHANGED <<leased, turns, halt, shown, grace, ofGets, displaced, strayed>>

RefundFeed(g) ==
  /\ Ends(g, "refund") /\ Return(lease[g])
  /\ UNCHANGED <<pooled, turns, halt, shown, grace, strayed>>

----------------------------------------------------------------------------
(* The provider's answer, and the body. *)

\* The stats client is registered for this feed; that of another feed loses
\* its generation counter.
Opened(g) ==
  /\ Goto(g, "open", "ready")
  /\ turns' = IF shown \in Feeds \ {lease[g]} THEN [turns EXCEPT ![shown] = 0] ELSE turns
  /\ shown' = lease[g]
  /\ grace' = IF grace = "armed" THEN "none" ELSE grace
  /\ UNCHANGED <<pooled, leased, halt, ofGets, displaced, strayed>>

\* A failure discards the entry, and the next stream is tried; an answer passed
\* through (416) leaves it idle.
NotOpened(g) ==
  /\ Goto(g, "open", "drop") \/ Goto(g, "open", "unseat")
  /\ Return(lease[g])
  /\ Stray(g \in displaced)
  /\ UNCHANGED <<pooled, turns, halt, shown, grace, ofGets, displaced>>

\* _discard_pool_session's second half.
Drop(g) ==
  /\ Goto(g, "drop", "reserve")
  /\ pooled' = NoFeed
  /\ UNCHANGED <<leased, turns, halt, shown, grace, ofGets, displaced, strayed>>

\* The generator starts: its generation, and no stop key for older ones.
StreamBegins(g) ==
  LET f == lease[g] IN
  /\ Goto(g, "ready", "body")
  /\ turns' = [turns EXCEPT ![f] = @ + 1]
  /\ turn' = [turn EXCEPT ![g] = turns[f] + 1]
  /\ halt' = [halt EXCEPT ![f] = 0]
  /\ UNCHANGED <<pooled, leased, shown, grace, saw, tried, lease, displaced, strayed>>

\* The client is gone before the first chunk: the wrapper's close does it all.
StreamNeverBegins(g) ==
  /\ Goto(g, "ready", "close")
  /\ Stray(g \in displaced)
  /\ UNCHANGED <<sharedKeys, ofGets, displaced>>

\* The stop key covers this generation, or a newer one has begun.
Displacing(g) == turn[g] <= halt[lease[g]] \/ turn[g] < turns[lease[g]]

\* Seeded defect: the stream handed over gives the slot back as well.
StreamEndsAndReturns(g) ==
  /\ Goto(g, "body", "close")
  /\ Stray(g \in displaced /\ ~Displacing(g))
  /\ UNCHANGED <<sharedKeys, ofGets, displaced>>

\* The body is over (sent, failed, stopped, or the client is gone): a stream
\* that sees itself displaced leaves the slot and the entry to the other.
StreamEnds(g) ==
  /\ spot[g] = "body"
  /\ \/ Displacing(g) /\ Ends(g, "body")
     \/ ~Displacing(g) /\ Goto(g, "body", "close") /\ UNCHANGED <<ofGets, displaced>>
  /\ Stray(g \in displaced /\ ~Displacing(g))
  /\ UNCHANGED sharedKeys

\* The slot goes back; a body of some length clears the generation counter and
\* arms the grace.
Close(g) ==
  /\ Goto(g, "close", "unseat")
  /\ Return(lease[g])
  /\ \/ UNCHANGED <<turns, grace>>
     \/ turns' = [turns EXCEPT ![lease[g]] = 0] /\ grace' \in {grace, "armed"}
  /\ UNCHANGED <<pooled, halt, shown, ofGets, displaced, strayed>>

\* The entry, whoever's it is by now, is idle.
Unseat(g) ==
  /\ Ends(g, "unseat")
  /\ pooled' = IF Pooled(pooled) THEN [pooled EXCEPT !.busy = FALSE] ELSE pooled
  /\ UNCHANGED <<leased, turns, halt, shown, grace, strayed>>

----------------------------------------------------------------------------
(* Time. *)

\* _run_stats_disconnect_grace: claimed while the entry is not busy, ...
GraceEnds ==
  /\ grace = "armed" /\ ~Busy(pooled)
  /\ grace' = "claimed"
  /\ UNCHANGED <<pooled, leased, turns, halt, shown, spot, ofGets, displaced, strayed>>

\* ... it drops the stats and the counters, and the entry of a native session.
GraceDrops ==
  /\ grace = "claimed" /\ grace' = "none"
  /\ shown' = NoFeed /\ turns' = [f \in Feeds |-> 0]
  /\ \/ UNCHANGED <<pooled, strayed>>
     \/ pooled' = NoFeed /\ Stray(Busy(pooled))
  /\ UNCHANGED <<leased, halt, spot, ofGets, displaced>>

\* The TTL of an idle entry.
Expire ==
  /\ Pooled(pooled) /\ ~Busy(pooled)
  /\ pooled' = NoFeed
  /\ UNCHANGED <<leased, turns, halt, shown, grace, spot, ofGets, displaced, strayed>>

GetTakes(g)   == Look(g) \/ Acquire(g) \/ Preempt(g) \/ TakeOver(g)
                   \/ AbandonPool(g) \/ ForgetPool(g)
GetOpens(g)   == ReserveFeed(g) \/ Register(g) \/ RefundFeed(g) \/ Opened(g) \/ NotOpened(g) \/ Drop(g)
GetStreams(g) == StreamBegins(g) \/ StreamNeverBegins(g) \/ StreamEnds(g) \/ Close(g) \/ Unseat(g)
Lapse == GraceEnds \/ GraceDrops \/ Expire

CatchUpNext == Lapse \/ \E g \in Gets : GetTakes(g) \/ GetOpens(g) \/ GetStreams(g)

CatchUpSpec == CatchUpInit /\ [][CatchUpNext]_catchUpVars

----------------------------------------------------------------------------
(* Properties. *)

\* The pool entry and the provider's counter tell the same story: a profile's
\* counter is the busy entry on it, plus the GETs that have reserved and not
\* registered, less those that have given the slot back and not said so in the
\* entry.  So it is through seeks that take a slot over, feeds that fail and
\* GETs that race for a new entry, as long as none of this happens: a slot is
\* taken over, or abandoned, when its holder has given it back; a displaced
\* stream ends before its body or unaware of it; the grace deletes a busy entry.
CatchUpSlotsFollowEntry ==
  ~strayed =>
    \A f \in Feeds :
      leased[f] + Cardinality({g \in Leaving : Busy(pooled) /\ pooled.on = f})
        = Cardinality({g \in Standing({"register", "refund"}) : lease[g] = f})
            + (IF Busy(pooled) /\ pooled.on = f THEN 1 ELSE 0)

\* views.py:2160 "When *handoff* is True the displaced stream kept its profile
\* reservation": an entry is taken over only while its profile's counter has it.
\* It is taken without: README, section 4.
HandoffKeepsReservation ==
  [][\A g \in Gets :
       spot[g] = "take" /\ spot'[g] = "open" => leased[pooled.on] > 0]_catchUpVars
=============================================================================

------------------------------ MODULE Numbering ------------------------------
(***************************************************************************)
(* The numbers of the channels one M3U account creates: the sync that      *)
(* renumbers, creates and packs them (apps/m3u/tasks.py), the manual       *)
(* repack (apps/m3u/api_views.py), and the hiding and unhiding of channels *)
(* that releases and assigns numbers (apps/channels/compact_numbering.py,  *)
(* signals.py, api_views.py).  The three share the account's task lock.    *)
(*                                                                         *)
(* A row is the channel of one stream; streams are numbered in the order   *)
(* their group sorts them (channel_sort_order "name").  PostgreSQL reads   *)
(* what is committed: the row an unhide has written is seen by nobody else *)
(* until its transaction commits, and is locked until then.  A request's   *)
(* read of a row and its save are one step.  Left out: channels with       *)
(* several streams or an override of their own (the numbers of overrides   *)
(* and of manual channels are Taken), group overrides, and the removal of  *)
(* stream rows, so that no channel is an orphan.                           *)
(***************************************************************************)
EXTENDS Integers, Sequences, FiniteSets, SequencesExt

CONSTANTS ChannelStreams,  \* the account's streams: numbers, in their sort order
          GroupOrder,      \* the groups that sync, in the order they are visited
          GroupOf,         \* the group of a stream
          Compact,         \* the groups with compact_numbering
          Mode,            \* channel_numbering_mode of a group
          Chno,            \* the provider's number of a stream, or NoNumber
          RangeStart,      \* auto_sync_channel_start of a group
          RangeEnd,        \* auto_sync_channel_end of a group, or NoNumber
          Taken,           \* the numbers of manual channels and of overrides
          Scans,           \* the sets of streams a refresh may find
          NoNumber,
          MaxUnhides       \* bound: unhiding transactions open at once

ASSUME NumberingAssumption ==
  /\ ChannelStreams \subseteq Nat /\ IsFiniteSet(ChannelStreams)
  /\ NoNumber \notin Nat /\ Taken \subseteq Nat /\ MaxUnhides \in Nat
  /\ Scans \subseteq SUBSET ChannelStreams
  /\ Compact \subseteq {GroupOrder[i] : i \in DOMAIN GroupOrder}

VARIABLES
  row,       \* the channel of a stream: is there one, is it hidden, its number
  taskLock,  \* who holds refresh_single_m3u_account: "free", "sync", "repack"
  sync,      \* the sync: its stage, group, used_numbers, and what it has loaded
  pack,      \* the pack in progress: the numbers it will write
  unhides,   \* open transactions: each maps its channels to their new numbers
  loose      \* groups a race or a failed sync has touched since their last pack

numberingVars == <<row, taskLock, sync, pack, unhides, loose>>

Numbers  == Nat \cup {NoNumber}
NoSync   == [at |-> "none", g |-> 0, used |-> {}, live |-> {}, seen |-> <<>>]
NoPack   == [on |-> FALSE, plan |-> <<>>]
NoRow    == [there |-> FALSE, hidden |-> FALSE, number |-> NoNumber]
NewRow(n) == [there |-> TRUE, hidden |-> FALSE, number |-> n]

Group   == GroupOrder[sync.g]
InGroup(g) == {s \in ChannelStreams : GroupOf[s] = g}
Visible(s) == row[s].there /\ ~row[s].hidden
Hidden(s)  == row[s].there /\ row[s].hidden
\* Rows an open transaction has locked.
Locked(s)  == \E t \in unhides : s \in DOMAIN t
NumbersOf(S) == {row[s].number : s \in {r \in S : row[r].there}} \ {NoNumber}

NumberingTypeOK ==
  /\ row \in [ChannelStreams -> [there : BOOLEAN, hidden : BOOLEAN, number : Numbers]]
  /\ taskLock \in {"free", "sync", "repack"}
  /\ sync.at \in {"none", "loading", "creating", "packing"}
  /\ sync.g \in 0..(Len(GroupOrder) + 1) /\ sync.used \subseteq Nat
  /\ sync.live \subseteq ChannelStreams /\ DOMAIN sync.seen \subseteq ChannelStreams
  /\ DOMAIN pack.plan \subseteq ChannelStreams
  /\ \A t \in unhides : DOMAIN t \subseteq {s \in ChannelStreams : Hidden(s)}
  /\ loose \subseteq Compact
  /\ taskLock = "sync" <=> sync.at # "none"

----------------------------------------------------------------------------
\* Picking a number.

\* The smallest number from start that is not used, at most end.
NextAvailable(used, start, end) ==
  LET last == IF end = NoNumber THEN start + Cardinality(used) ELSE end
      free == {n \in start..last : n \notin used}
  IN  IF free = {} THEN NoNumber ELSE CHOOSE n \in free : \A m \in free : n <= m

PickTarget(g, s, used, cursor) ==
  CASE Mode[g] = "provider" /\ Chno[s] # NoNumber /\ Chno[s] \notin used -> Chno[s]
    [] Mode[g] = "provider" /\ ~(Chno[s] # NoNumber /\ Chno[s] \notin used) ->
         NextAvailable(used, RangeStart[g], RangeEnd[g])
    [] Mode[g] = "next_available" -> NextAvailable(used, 1, NoNumber)
    [] Mode[g] = "fixed" -> NextAvailable(used, cursor, RangeEnd[g])

Forward(g, cursor) == IF Mode[g] = "fixed" THEN cursor + 1 ELSE cursor

\* What a pack or an assignment may not give: overrides, and the committed
\* numbers of all channels but those it is about to number.
ReservedBut(except) == Taken \cup NumbersOf(ChannelStreams \ except)

\* A bug to plant: a number that was given is not added to the reserved ones.
NumberedApart(g, S, reserved) ==
  [s \in S |-> NextAvailable(reserved, RangeStart[g], RangeEnd[g])]

\* The channels S of a group, numbered in order from what is not reserved: each
\* is given the lowest number that is neither reserved nor one before it's.
Numbered(g, S, reserved) ==
  LET last   == IF RangeEnd[g] = NoNumber
                THEN RangeStart[g] + Cardinality(reserved) + Cardinality(S) ELSE RangeEnd[g]
      free   == (RangeStart[g]..last) \ reserved
      Due(s) == {n \in free : Cardinality({m \in free : m < n}) = Cardinality({r \in S : r < s})}
  IN  [s \in S |-> IF Due(s) = {} THEN NoNumber ELSE CHOOSE n \in Due(s) : TRUE]
----------------------------------------------------------------------------
NumberingInit ==
  /\ row = [s \in ChannelStreams |-> NoRow]
  /\ taskLock = "free" /\ sync = NoSync /\ pack = NoPack
  /\ unhides = {} /\ loose = {}

\* refresh_single_m3u_account takes the lock; by the time it comes to the
\* sync it has found the streams of this scan.  sync_auto_channels seeds the
\* used numbers with every number but the visible channels' of this account.
SyncStarts(live) ==
  /\ taskLock = "free"
  /\ taskLock' = "sync"
  /\ sync' = [at |-> "loading", g |-> 1, live |-> live, seen |-> <<>>,
              used |-> Taken \cup NumbersOf({s \in ChannelStreams : Hidden(s)})]
  /\ UNCHANGED <<row, pack, unhides, loose>>

NextGroup ==
  [sync EXCEPT !.at = "loading", !.g = @ + 1, !.seen = <<>>]

Existing(g) == {s \in InGroup(g) : row[s].there}
Current(g)  == SetToSortSeq(sync.live \cap InGroup(g), <)

\* A group whose streams are all gone loses its visible channels.
GroupIsEmpty ==
  /\ sync.at = "loading" /\ sync.g <= Len(GroupOrder)
  /\ sync.live \cap InGroup(Group) = {}
  /\ row' = [s \in ChannelStreams |->
               IF s \in InGroup(Group) /\ Visible(s) THEN NoRow ELSE row[s]]
  /\ sync' = NextGroup
  /\ UNCHANGED <<taskLock, pack, unhides, loose>>

\* The renumbering pass over the streams that have a channel, hidden or not;
\* a channel that finds no number keeps its own.
Renumbered(g) ==
  LET Move(acc, s) ==
        LET n == PickTarget(g, s, acc.used, acc.cursor)
        IN  IF s \notin Existing(g) THEN acc
            ELSE IF n = NoNumber
                 THEN [acc EXCEPT !.used = @ \cup ({row[s].number} \ {NoNumber})]
                 ELSE [used |-> acc.used \cup {n}, cursor |-> Forward(g, acc.cursor),
                       number |-> [acc.number EXCEPT ![s] = n]]
      start == [used |-> sync.used, cursor |-> RangeStart[g],
                number |-> [s \in Existing(g) |-> row[s].number]]
  IN  IF g \in Compact THEN start ELSE FoldLeft(Move, start, Current(g))

OutOfRange(g, number) ==
  {s \in Existing(g) :
     /\ RangeEnd[g] # NoNumber /\ Mode[g] = "fixed"
     /\ Visible(s) /\ number[s] # NoNumber
     /\ number[s] \notin RangeStart[g]..RangeEnd[g]}

\* The channels of the group are loaded and renumbered, and those that lie
\* outside the range are deleted and their numbers freed.
GroupRenumbers ==
  /\ sync.at = "loading" /\ sync.g <= Len(GroupOrder)
  /\ sync.live \cap InGroup(Group) # {}
  /\ Group \notin Compact => \A s \in InGroup(Group) : ~Locked(s)
  /\ LET moved == Renumbered(Group)
         gone  == OutOfRange(Group, moved.number)
     IN  /\ row' = [s \in ChannelStreams |->
                      IF s \in gone THEN NoRow
                      ELSE IF s \in Existing(Group)
                           THEN [row[s] EXCEPT !.number = moved.number[s]] ELSE row[s]]
         /\ sync' = [sync EXCEPT !.at = "creating",
                       !.used = moved.used \ {moved.number[s] : s \in gone},
                       !.seen = [s \in Existing(Group) \ gone |-> row[s].hidden]]
  /\ UNCHANGED <<taskLock, pack, unhides, loose>>

\* The numbers of new channels, for the current streams without one.
Created(g) ==
  LET Add(acc, s) ==
        LET n == PickTarget(g, s, acc.used, acc.cursor)
        IN  IF s \in DOMAIN sync.seen
            THEN [acc EXCEPT !.cursor = Forward(g, @)]
            ELSE IF n = NoNumber THEN acc
                 ELSE [used |-> acc.used \cup {n}, cursor |-> Forward(g, acc.cursor),
                       number |-> [acc.number EXCEPT ![s] = n]]
  IN  FoldLeft(Add, [used |-> sync.used, cursor |-> RangeStart[g],
                     number |-> [s \in sync.live \cap InGroup(g) |-> NoNumber]], Current(g))

\* Channels are created, and those whose stream is gone deleted unless they
\* were hidden when the group was loaded.
GroupCreates ==
  /\ sync.at = "creating"
  /\ LET made == Created(Group)
         new  == {s \in sync.live \cap InGroup(Group) :
                   s \notin DOMAIN sync.seen /\ made.number[s] # NoNumber}
         gone == {s \in DOMAIN sync.seen : s \notin sync.live /\ ~sync.seen[s]}
     IN  /\ row' = [s \in ChannelStreams |->
                      IF s \in gone THEN NoRow
                      ELSE IF s \in new THEN NewRow(made.number[s]) ELSE row[s]]
         /\ sync' = IF Group \in Compact
                    THEN [sync EXCEPT !.at = "packing", !.used = made.used]
                    ELSE [NextGroup EXCEPT !.used = made.used]
  /\ UNCHANGED <<taskLock, pack, unhides, loose>>

SyncEnds ==
  /\ sync.at = "loading" /\ sync.g = Len(GroupOrder) + 1
  /\ sync' = NoSync /\ taskLock' = "free"
  /\ UNCHANGED <<row, pack, unhides, loose>>

\* An exception: what is committed stays, a pack is rolled back, and the lock
\* is released.
SyncFails ==
  /\ sync.at # "none"
  /\ sync' = NoSync /\ taskLock' = "free" /\ pack' = NoPack
  /\ loose' = Compact
  /\ UNCHANGED <<row, unhides>>
----------------------------------------------------------------------------
\* repack_group: one transaction that reads the channels of a group and
\* writes the numbers that change.  Hidden channels release theirs.
PackPlan(g) ==
  LET given == Numbered(g, {s \in InGroup(g) : Visible(s)}, ReservedBut(InGroup(g)))
      want  == [s \in Existing(g) |-> IF Visible(s) THEN given[s] ELSE NoNumber]
      moves == {s \in Existing(g) : want[s] # row[s].number}
  IN  [s \in moves |-> want[s]]

PackReads(g) ==
  /\ pack' = [on |-> TRUE, plan |-> PackPlan(g)]
  /\ loose' = IF \E t \in unhides : DOMAIN t \cap InGroup(g) # {}
              THEN loose \cup {g} ELSE loose \ {g}

GroupPackBegins ==
  /\ sync.at = "packing" /\ ~pack.on
  /\ PackReads(Group)
  /\ UNCHANGED <<row, taskLock, sync, unhides>>

\* The manual repack: refused (409) while the lock is taken.
RepackBegins(g) ==
  /\ taskLock = "free"
  /\ taskLock' = "repack"
  /\ PackReads(g)
  /\ UNCHANGED <<row, sync, unhides>>

\* The rows are written, the transaction commits; a repack lets the lock go.
PackWrites ==
  /\ pack.on
  /\ \A s \in DOMAIN pack.plan : ~Locked(s)
  /\ row' = [s \in ChannelStreams |->
               IF s \in DOMAIN pack.plan /\ row[s].there
               THEN [row[s] EXCEPT !.number = pack.plan[s]] ELSE row[s]]
  /\ pack' = NoPack
  /\ IF taskLock = "sync"
     THEN sync' = NextGroup /\ UNCHANGED taskLock
     ELSE taskLock' = "free" /\ UNCHANGED sync
  /\ UNCHANGED <<unhides, loose>>
----------------------------------------------------------------------------
\* Hiding a channel releases its number in a compact group.
HideChannel(s) ==
  /\ Visible(s) /\ ~Locked(s)
  /\ row' = [row EXCEPT ![s].hidden = TRUE,
               ![s].number = IF GroupOf[s] \in Compact THEN NoNumber ELSE @]
  /\ UNCHANGED <<taskLock, sync, pack, unhides, loose>>

\* Those of a request that assign_compact_numbers_for_channels numbers.
Numberless(S) == {s \in S : GroupOf[s] \in Compact /\ row[s].number = NoNumber}

Unhidden(S) ==
  row' = [s \in ChannelStreams |-> IF s \in S THEN [row[s] EXCEPT !.hidden = FALSE] ELSE row[s]]

\* An unhide with nothing to number, or whose account's lock is taken: the
\* channels become visible with the numbers they have.
UnhideDefers(S) ==
  /\ S # {} /\ \A s \in S : Hidden(s) /\ ~Locked(s)
  /\ Numberless(S) = {} \/ taskLock # "free"
  /\ Unhidden(S)
  /\ UNCHANGED <<taskLock, sync, pack, unhides, loose>>

\* An unhide takes the lock, reads what is reserved, writes the numbers and
\* releases the lock, all inside the request's transaction, still open.
UnhideAssigns(S) ==
  /\ S # {} /\ \A s \in S : Hidden(s) /\ ~Locked(s)
  /\ Numberless(S) # {} /\ taskLock = "free"
  /\ Cardinality(unhides) < MaxUnhides
  /\ LET of(g)    == Numberless(S) \cap InGroup(g)
         given(g) == Numbered(g, of(g), ReservedBut(of(g)))
     IN  unhides' = unhides \cup
           {[s \in S |-> IF s \in Numberless(S) THEN given(GroupOf[s])[s]
                         ELSE row[s].number]}
  /\ loose' = loose \cup (IF unhides = {} THEN {} ELSE {GroupOf[s] : s \in Numberless(S)})
  /\ UNCHANGED <<row, taskLock, sync, pack>>

\* The request's transaction commits.
UnhideCommits(t) ==
  /\ t \in unhides
  /\ unhides' = unhides \ {t}
  /\ row' = [s \in ChannelStreams |->
               IF s \in DOMAIN t THEN NewRow(t[s]) ELSE row[s]]
  /\ UNCHANGED <<taskLock, sync, pack, loose>>
----------------------------------------------------------------------------
SyncStep ==
  \/ \E live \in Scans : SyncStarts(live)
  \/ GroupIsEmpty \/ GroupRenumbers \/ GroupCreates
  \/ SyncEnds \/ SyncFails
PackStep == GroupPackBegins \/ PackWrites \/ \E g \in Compact : RepackBegins(g)
EditStep ==
  \/ \E s \in ChannelStreams : HideChannel(s)
  \/ \E S \in SUBSET ChannelStreams :
       Cardinality(S) <= 2 /\ (UnhideDefers(S) \/ UnhideAssigns(S))
  \/ \E t \in unhides : UnhideCommits(t)

NumberingNext == SyncStep \/ PackStep \/ EditStep
NumberingSpec == NumberingInit /\ [][NumberingNext]_numberingVars
----------------------------------------------------------------------------
\* Two visible channels of a compact group never show one number, nor a
\* number outside the group's range or taken by an override or a manual
\* channel, whatever syncs, repacks, hides and unhides have gone before
\* (assign_compact_numbers_for_channels and repack_group).  It is promised
\* while nobody packs, and not of a group an unhide has numbered beside
\* another's uncommitted number, or a sync has failed in, until it is packed.
PackedNumbersAreDistinct ==
  taskLock = "free" =>
    \A g \in Compact \ loose :
      LET shown == {s \in InGroup(g) : Visible(s) /\ row[s].number # NoNumber}
      IN  /\ \A s, r \in shown : row[s].number = row[r].number => s = r
          /\ \A s \in shown :
               /\ row[s].number \notin Taken
               /\ row[s].number >= RangeStart[g]
               /\ RangeEnd[g] # NoNumber => row[s].number <= RangeEnd[g]

\* apps/m3u/tasks.py: "the renumber loop iterates current provider streams
\* (which excludes hidden ones)".  A channel that stays hidden, in a group
\* that is not compact, keeps its number.  It does not: README, section 4.
HiddenKeepTheirNumbers ==
  [][\A s \in ChannelStreams :
       Hidden(s) /\ Hidden(s)' /\ GroupOf[s] \notin Compact =>
         row'[s].number = row[s].number]_numberingVars
=============================================================================

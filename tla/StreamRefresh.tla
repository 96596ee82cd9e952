---------------------------- MODULE StreamRefresh ----------------------------
(***************************************************************************)
(* The catalogue of streams (apps/m3u/tasks.py, core/tasks.py): a refresh  *)
(* of an account fetches its playlist, upserts a row per entry and deletes *)
(* the rows that no refresh has seen for the retention; a rehash gives     *)
(* every row the hash of the saved key setting and merges the rows that    *)
(* share one.  Channels are linked to rows, and a deleted row takes its    *)
(* links with it.                                                          *)
(*                                                                         *)
(* A row is found by its hash alone, which need not name the account.  A   *)
(* batch is one entry, since batches run in parallel; a rehash's batch is  *)
(* one row.  Times are days: a row's is the day it was last seen.          *)
(* Left out: filters, an entry's attributes, a group's settings other than *)
(* enabled, inactive accounts, and the channels that the refresh's sync    *)
(* makes (Numbering).                                                      *)
(***************************************************************************)
EXTENDS Integers, FiniteSets, Sequences

CONSTANTS Accounts, Entries,  \* playlist entries
          AccountOf, GroupTitle, \* of an entry
          Steady,       \* entries their provider always lists
          NameUnder,    \* for each key setting, what it makes of an entry
          FirstKeys,    \* the key setting at first
          Pullers,      \* workers that refresh_single_m3u_account runs on
          Lineup,       \* channels
          FirstWants,   \* the entry whose row a channel has at first, or Nothing
          Retention,    \* stale_stream_days
          AutoEnable,   \* auto_enable_new_groups_live
          MaxStreams, MaxToday,   \* bounds: rows ever created, days
          MaxPulls,     \* bound: refreshes
          MaxRehashes,  \* bound: rehashes asked for, by a save or by themselves
          MaxLineEdits, \* bound: links added, groups switched, groups-only refreshes
          MaxMishaps,   \* bound: failures, deaths, lapses
          Nothing

ASSUME StreamAssumption ==
  /\ AccountOf \in [Entries -> Accounts] /\ DOMAIN GroupTitle = Entries
  /\ Steady \subseteq Entries /\ FirstKeys \in DOMAIN NameUnder
  /\ DOMAIN FirstWants = Lineup /\ AutoEnable \in BOOLEAN
  /\ IsFiniteSet(Entries) /\ Cardinality(Entries) <= MaxStreams
  \* Each entry has a row of its own at first.
  /\ \A d, e \in Entries : NameUnder[FirstKeys][d] = NameUnder[FirstKeys][e] => d = e
  /\ {Retention, MaxStreams, MaxToday, MaxPulls, MaxRehashes, MaxLineEdits, MaxMishaps} \subseteq Nat

VARIABLES
  streams,     \* the rows by id: hash, account, the entry whose content they have, seen
  links,       \* the rows of each channel
  groups,      \* an account's groups: enabled, seen
  listCache,   \* the playlist file of an account: entries, or Nothing
  hashKeys,    \* the saved key setting
  today,
  pull,        \* what each puller is doing
  m3uLock,     \* an account's refresh lock: "free", "pull", "rehash", "dead"
  rehash,      \* the rehash that runs, and queued ones by their key setting
  rehashes,
  outlay,      \* how much of each bound is used
  listedOn     \* the start of the last refresh that wrote the row of a hash

streamDisk == <<streams, links, groups, listCache>>
streamWork == <<pull, m3uLock, rehash, rehashes>>
streamVars == <<streamDisk, hashKeys, today, streamWork, outlay, listedOn>>

Groups    == {<<AccountOf[e], GroupTitle[e]>> : e \in Entries}
Place(e)  == <<AccountOf[e], GroupTitle[e]>>
EntriesOf(a) == {e \in Entries : AccountOf[e] = a}
HashBy(k, e) == <<k, NameUnder[k][e]>>
Hashes    == {HashBy(k, e) : k \in DOMAIN NameUnder, e \in Entries}
RowsBy(h) == {i \in DOMAIN streams : streams[i].hash = h}
IsOn(a, g) == <<a, g>> \in DOMAIN groups /\ groups[<<a, g>>].enabled
LinkedTo(ids) == {c \in Lineup : links[c] \cap ids # {}}
Without(f, ids) == [i \in DOMAIN f \ ids |-> f[i]]
Put(f, i, v) == [j \in DOMAIN f \cup {i} |-> IF j = i THEN v ELSE f[j]]

Idle      == [at |-> "off", account |-> Nothing, start |-> 0, list |-> {}, keys |-> Nothing,
              todo |-> {}, found |-> <<>>, had |-> {}]
NoRehash  == [at |-> "off", keys |-> Nothing, last |-> 0, kept |-> <<>>]

Use(what, n) == outlay[what] < n /\ outlay' = [outlay EXCEPT ![what] = @ + 1]
Mishap == Use("mishaps", MaxMishaps)

StreamTypeOK ==
  /\ DOMAIN streams \subseteq 1..MaxStreams
  /\ \A i, j \in DOMAIN streams : streams[i].hash = streams[j].hash => i = j
  /\ \A c \in Lineup : links[c] \subseteq DOMAIN streams
  /\ DOMAIN groups \subseteq Groups /\ hashKeys \in DOMAIN NameUnder
  /\ m3uLock \in [Accounts -> {"free", "pull", "rehash", "dead"}]
  /\ listedOn \in [Hashes -> 0..MaxToday]

StreamInit ==
  /\ \E number \in [Entries -> 1..Cardinality(Entries)] :
       /\ \A i \in 1..Cardinality(Entries) : \E e \in Entries : number[e] = i
       /\ streams = [i \in 1..Cardinality(Entries) |->
            LET e == CHOOSE e \in Entries : number[e] = i
            IN  [hash |-> HashBy(FirstKeys, e), account |-> AccountOf[e], entry |-> e, seen |-> 0]]
       /\ links = [c \in Lineup |-> {number[e] : e \in {FirstWants[c]} \cap Entries}]
  /\ groups = [g \in Groups |-> [enabled |-> TRUE, seen |-> 0]]
  /\ listCache = [a \in Accounts |-> Nothing]
  /\ hashKeys = FirstKeys /\ today = 0
  /\ pull = [w \in Pullers |-> Idle] /\ m3uLock = [a \in Accounts |-> "free"]
  /\ rehash = NoRehash /\ rehashes = <<>>
  /\ outlay = [what \in {"pulls", "rehashes", "edits", "mishaps", "rows"} |->
                 IF what = "rows" THEN Cardinality(Entries) ELSE 0]
  /\ listedOn = [h \in Hashes |-> 0]
----------------------------------------------------------------------------
\* The refresh of an account.

\* What the provider of a lists.
Playlists(a) == {l \in SUBSET EntriesOf(a) : EntriesOf(a) \cap Steady \subseteq l /\ l # {}}

\* process_groups: a listed group is seen; one that is new starts as the
\* account's setting says.
SeesGroups(a, list, day) ==
  LET found == {<<a, GroupTitle[e]>> : e \in list}
  IN  groups' = [g \in DOMAIN groups \cup found |->
                   IF g \notin found THEN groups[g]
                   ELSE [enabled |-> IF g \in DOMAIN groups THEN groups[g].enabled ELSE AutoEnable,
                         seen    |-> day]]

\* The lock is taken; a playlist file that is there is used without a fetch,
\* and without looking at its groups.
PullBegins(w, a) ==
  /\ pull[w].at = "off" /\ m3uLock[a] = "free" /\ Use("pulls", MaxPulls)
  /\ m3uLock' = [m3uLock EXCEPT ![a] = "pull"]
  /\ pull' = [pull EXCEPT ![w] =
       [Idle EXCEPT !.at = IF listCache[a] = Nothing THEN "begun" ELSE "grouped",
                    !.account = a, !.start = today,
                    !.list = IF listCache[a] = Nothing THEN {} ELSE listCache[a]]]
  /\ UNCHANGED <<streamDisk, hashKeys, today, rehash, rehashes, listedOn>>

\* refresh_m3u_groups writes the playlist file and the groups.
PullFetches(w) ==
  LET p == pull[w]
  IN  /\ p.at = "begun"
      /\ \E l \in Playlists(p.account) :
           /\ SeesGroups(p.account, l, p.start)
           /\ listCache' = [listCache EXCEPT ![p.account] = l]
           /\ pull' = [pull EXCEPT ![w].at = "grouped", ![w].list = l]
      /\ UNCHANGED <<streams, links, hashKeys, today, m3uLock, rehash, rehashes, outlay,
                     listedOn>>

\* The saved keys and the groups that are on are read once.
PullReads(w) ==
  LET p == pull[w]
  IN  /\ p.at = "grouped"
      /\ pull' = [pull EXCEPT ![w].at = "batches", ![w].keys = hashKeys,
                    ![w].todo = {e \in p.list : IsOn(p.account, GroupTitle[e])}]
      /\ UNCHANGED <<streamDisk, hashKeys, today, m3uLock, rehash, rehashes, outlay,
                     listedOn>>

\* process_m3u_batch_direct looks for the hash of its entry.
BatchFinds(w, e) ==
  LET p == pull[w]
  IN  /\ p.at = "batches" /\ e \in p.todo \ DOMAIN p.found
      /\ pull' = [pull EXCEPT ![w].found = Put(p.found, e, RowsBy(HashBy(p.keys, e)))]
      /\ UNCHANGED <<streamDisk, hashKeys, today, m3uLock, rehash, rehashes, outlay,
                     listedOn>>

BatchIsDone(w, e, written) ==
  pull' = [pull EXCEPT ![w].had = @ \cup written,
                       ![w].todo = @ \ {e}, ![w].found = Without(@, {e})]

\* The row it found, whoever's it is, gets the entry's content; one that is
\* gone gets nothing.  With none found a row is created, unless the hash is
\* there by now (ignore_conflicts).
BatchWrites(w, e) ==
  LET p   == pull[w]
      h   == HashBy(p.keys, e)
      new == outlay["rows"] + 1
      hit == p.found[e] \cap DOMAIN streams
  IN  /\ p.at = "batches" /\ e \in p.todo \cap DOMAIN p.found
      /\ IF p.found[e] = {} /\ RowsBy(h) = {}
         THEN /\ Use("rows", MaxStreams) /\ BatchIsDone(w, e, {h})
              /\ streams' = Put(streams, new, [hash |-> h, account |-> p.account, entry |-> e,
                                               seen |-> today])
         ELSE /\ BatchIsDone(w, e, {streams[i].hash : i \in hit}) /\ UNCHANGED outlay
              /\ streams' = [i \in DOMAIN streams |->
                   IF i \in hit THEN [streams[i] EXCEPT !.entry = e, !.seen = today] ELSE streams[i]]
      /\ UNCHANGED <<links, groups, listCache, hashKeys, today, m3uLock, rehash, rehashes,
                     listedOn>>

\* A failed bulk operation is logged, and the refresh goes on.
BatchFails(w, e) ==
  LET p == pull[w]
  IN  /\ p.at = "batches" /\ e \in p.todo \cap DOMAIN p.found /\ Mishap
      /\ BatchIsDone(w, e, {})
      /\ UNCHANGED <<streamDisk, hashKeys, today, m3uLock, rehash, rehashes, listedOn>>

\* A bug to plant: what this refresh has not seen is gone.
CutoffAtStart(start) == start

\* What was seen before this day is gone.
Cutoff(start) == start - Retention

\* cleanup_streams: rows in groups that are not on, and rows unseen for the
\* retention.
PullCleans(w) ==
  LET p    == pull[w]
      mine == {i \in DOMAIN streams : streams[i].account = p.account}
      gone == {i \in mine : \/ ~IsOn(p.account, GroupTitle[streams[i].entry])
                            \/ streams[i].seen < Cutoff(p.start)}
  IN  /\ p.at = "batches" /\ p.todo = {}
      /\ pull' = [pull EXCEPT ![w].at = "cleaned"]
      /\ streams' = Without(streams, gone)
      /\ links' = [c \in Lineup |-> links[c] \ gone]
      /\ listedOn' = [h \in Hashes |-> IF h \in p.had THEN p.start ELSE listedOn[h]]
      /\ UNCHANGED <<groups, listCache, hashKeys, today, m3uLock, rehash, rehashes, outlay>>

\* cleanup_stale_group_relationships; the file is removed, the lock released.
PullEnds(w) ==
  LET p    == pull[w]
      gone == {g \in DOMAIN groups : g[1] = p.account /\ groups[g].seen < Cutoff(p.start)}
  IN  /\ p.at = "cleaned"
      /\ pull' = [pull EXCEPT ![w] = Idle]
      /\ m3uLock' = [m3uLock EXCEPT ![p.account] = "free"]
      /\ listCache' = [listCache EXCEPT ![p.account] = Nothing]
      /\ groups' = Without(groups, gone)
      /\ UNCHANGED <<streams, links, hashKeys, today, rehash, rehashes, outlay, listedOn>>

\* The fetch fails, or XC's second fetch does, after the groups: only then the
\* file is removed.
PullFails(w) ==
  LET p == pull[w]
  IN  /\ p.at \in {"begun", "grouped"} /\ Mishap
      /\ pull' = [pull EXCEPT ![w] = Idle]
      /\ m3uLock' = [m3uLock EXCEPT ![p.account] = "free"]
      /\ listCache' = [listCache EXCEPT ![p.account] = IF p.at = "begun" THEN @ ELSE Nothing]
      /\ UNCHANGED <<streams, links, groups, hashKeys, today, rehash, rehashes, listedOn>>

\* A dead worker leaves the playlist file, and the lock until it lapses.
PullDies(w) ==
  LET p == pull[w]
  IN  /\ p.at # "off" /\ Mishap
      /\ pull' = [pull EXCEPT ![w] = Idle]
      /\ m3uLock' = [m3uLock EXCEPT ![p.account] = IF @ = "pull" THEN "dead" ELSE @]
      /\ UNCHANGED <<streamDisk, hashKeys, today, rehash, rehashes, listedOn>>

\* refresh_m3u_groups by itself, under a lock of its own.
PullsGroups(a) ==
  /\ Use("edits", MaxLineEdits)
  /\ \E l \in Playlists(a) :
       SeesGroups(a, l, today) /\ listCache' = [listCache EXCEPT ![a] = l]
  /\ UNCHANGED <<streams, links, hashKeys, today, streamWork, listedOn>>
----------------------------------------------------------------------------
\* The rehash.

\* A changed key setting is saved, and only then a rehash queued.
SavesKeys(k) ==
  /\ k # hashKeys /\ Use("rehashes", MaxRehashes)
  /\ hashKeys' = k /\ rehashes' = Append(rehashes, k)
  /\ UNCHANGED <<streamDisk, today, pull, m3uLock, rehash, listedOn>>

AsksRehash ==
  /\ Use("rehashes", MaxRehashes) /\ rehashes' = Append(rehashes, hashKeys)
  /\ UNCHANGED <<streamDisk, hashKeys, today, pull, m3uLock, rehash, listedOn>>

\* It takes every account's lock, or gives up.
RehashBegins ==
  /\ rehash.at = "off" /\ rehashes # <<>> /\ rehashes' = Tail(rehashes)
  /\ IF \A a \in Accounts : m3uLock[a] = "free"
     THEN /\ m3uLock' = [a \in Accounts |-> "rehash"]
          /\ rehash' = [NoRehash EXCEPT !.at = "rows", !.keys = Head(rehashes)]
     ELSE UNCHANGED <<m3uLock, rehash>>
  /\ UNCHANGED <<streamDisk, hashKeys, today, pull, outlay, listedOn>>

\* _determine_stream_to_keep: a linked row before one that is not.  Between
\* two of a kind the channels' orders and the rows' dates decide: either.
KeptAndGone(k, g, i, j) == {k, g} = {i, j} /\ (LinkedTo({g}) # {} => LinkedTo({k}) # {})

\* _merge_stream_relationships, and then the row is deleted.  A row that is
\* merged with itself has its links deleted as duplicates.
MovesLinks(k, g) ==
  [c \in Lineup |-> IF g \in links[c] THEN (links[c] \cup {k}) \ {g} ELSE links[c]]

\* A hash was last listed when the row that gets it was.
ListedLike(k, h) ==
  /\ listedOn' = [listedOn EXCEPT ![h] = listedOn[streams[k].hash]]
  /\ pull' = [w \in Pullers |-> [pull[w] EXCEPT !.had = @ \ {h}]]

\* The row that is kept keeps its date, too.  With the hash on a third row by
\* now, it cannot be saved.
Merges(i, j, h) ==
  /\ RowsBy(h) \subseteq {i, j}
  /\ \E k, g \in {i, j} :
       /\ KeptAndGone(k, g, i, j) /\ links' = MovesLinks(k, g)
       /\ streams' = Without([streams EXCEPT ![k].hash = h], {g})
       /\ rehash' = [rehash EXCEPT !.last = j, !.kept = Put(rehash.kept, h, k)]
       /\ ListedLike(k, h)

\* A row without a rival gets the hash.
GetsHash(j, h) ==
  /\ streams' = [streams EXCEPT ![j].hash = h]
  /\ rehash' = [rehash EXCEPT !.last = j, !.kept = Put(rehash.kept, h, j)]
  /\ ListedLike(j, h) /\ UNCHANGED links

Left == {j \in DOMAIN streams : j > rehash.last}

\* skip_locked: a row that a refresh is writing is passed over.
PassesOver(j) ==
  /\ \E w \in Pullers : \E e \in DOMAIN pull[w].found : j \in pull[w].found[e]
  /\ rehash' = [rehash EXCEPT !.last = j]
  /\ UNCHANGED <<streams, links, listedOn, pull>>

\* The next row by id is merged with the row that this rehash gave its hash
\* to, or with any other that has it.
RehashRow ==
  /\ rehash.at = "rows"
  /\ \E j \in Left :
       LET h == HashBy(rehash.keys, streams[j].entry)
           rivals == IF h \in DOMAIN rehash.kept THEN {rehash.kept[h]} \cap DOMAIN streams
                     ELSE RowsBy(h) \ {j}
       IN  /\ \A i \in Left : j <= i
           /\ \/ PassesOver(j)
              \/ \E i \in rivals : Merges(i, j, h)
              \/ rivals = {} /\ RowsBy(h) \subseteq {j} /\ GetsHash(j, h)
  /\ UNCHANGED <<groups, listCache, hashKeys, today, m3uLock, rehashes, outlay>>

\* Done, or a failed batch ends it: the locks are deleted, whoever's they are.
RehashEnds ==
  /\ rehash.at = "rows" /\ (Left = {} \/ Mishap)
  /\ Left = {} => UNCHANGED outlay
  /\ rehash' = NoRehash /\ m3uLock' = [a \in Accounts |-> "free"]
  /\ UNCHANGED <<streamDisk, hashKeys, today, pull, rehashes, listedOn>>

RehashDies ==
  /\ rehash.at = "rows" /\ Mishap
  /\ rehash' = NoRehash
  /\ m3uLock' = [a \in Accounts |-> IF m3uLock[a] = "rehash" THEN "dead" ELSE m3uLock[a]]
  /\ UNCHANGED <<streamDisk, hashKeys, today, pull, rehashes, listedOn>>

\* Nobody renews the rehash's locks, nor a dead worker's.
M3uLockLapses(a) ==
  /\ \/ m3uLock[a] = "dead" /\ UNCHANGED outlay
     \/ m3uLock[a] = "rehash" /\ Mishap
  /\ m3uLock' = [m3uLock EXCEPT ![a] = "free"]
  /\ UNCHANGED <<streamDisk, hashKeys, today, pull, rehash, rehashes, listedOn>>
----------------------------------------------------------------------------
\* The user, or a sync, links a channel to a row; the user switches a group.
LinksRow(c, i) ==
  /\ i \notin links[c] /\ Use("edits", MaxLineEdits)
  /\ links' = [links EXCEPT ![c] = @ \cup {i}]
  /\ UNCHANGED <<streams, groups, listCache, hashKeys, today, streamWork, listedOn>>

SwitchesGroup(g) ==
  /\ Use("edits", MaxLineEdits)
  /\ groups' = [groups EXCEPT ![g].enabled = ~@]
  /\ UNCHANGED <<streams, links, listCache, hashKeys, today, streamWork, listedOn>>

\* A refresh takes less than a day.
DayPasses ==
  /\ today < MaxToday /\ \A w \in Pullers : pull[w].at = "off"
  /\ today' = today + 1
  /\ UNCHANGED <<streamDisk, hashKeys, streamWork, outlay, listedOn>>
----------------------------------------------------------------------------
PullStep ==
  \/ \E w \in Pullers :
       \/ \E a \in Accounts : PullBegins(w, a)
       \/ PullFetches(w) \/ PullReads(w)
       \/ \E e \in pull[w].todo : BatchFinds(w, e) \/ BatchWrites(w, e) \/ BatchFails(w, e)
       \/ PullCleans(w) \/ PullEnds(w) \/ PullFails(w) \/ PullDies(w)
  \/ \E a \in Accounts : PullsGroups(a)
RehashStep ==
  \/ \E k \in DOMAIN NameUnder : SavesKeys(k)
  \/ AsksRehash \/ RehashBegins \/ RehashRow \/ RehashEnds \/ RehashDies
  \/ \E a \in Accounts : M3uLockLapses(a)
LineupStep ==
  \/ \E c \in Lineup, i \in DOMAIN streams : LinksRow(c, i)
  \/ \E g \in DOMAIN groups : SwitchesGroup(g)
  \/ DayPasses

StreamNext == PullStep \/ RehashStep \/ LineupStep
StreamSpec == StreamInit /\ [][StreamNext]_streamVars
----------------------------------------------------------------------------
\* The next row is the one that this rehash has given its hash: it is merged
\* with itself.
MeetsItself ==
  /\ rehash.at = "rows" /\ Left # {}
  /\ \E h \in DOMAIN rehash.kept, j \in Left : rehash.kept[h] = j /\ \A i \in Left : j <= i

\* A channel loses its last row only when no refresh has written a row of that
\* hash for the retention, while the row's group is on: through refreshes that
\* miss the entry, refreshes of two accounts side by side, deaths and stale
\* playlist files, new keys, and merges of rows (cleanup_streams,
\* process_m3u_batch_direct, rehash_streams, _merge_stream_relationships).
\* A row left with old keys is not written any more, and a merge into an older
\* row is as old.  Not promised, README section 4: what meets itself in a
\* rehash, and a group that a stale playlist file forgot.
ChannelsKeepTheirStreams ==
  [][\A c \in Lineup, i \in DOMAIN streams :
       /\ i \in links[c] /\ links'[c] = {} /\ ~MeetsItself
       /\ IsOn(streams[i].account, GroupTitle[streams[i].entry])
       => today - listedOn'[streams[i].hash] > Retention]_streamVars
=============================================================================

------------------------------ MODULE SlotPool ------------------------------
(***************************************************************************)
(* Who counts a provider connection, and who gives it back.  The relay's   *)
(* channels tune, switch and release through calls to Django that it tries *)
(* twice (relay/control/nextsource.go, post); Django's handlers work on    *)
(* Redis one command at a time (apps/channels/models.py,                   *)
(* apps/proxy/next_source.py) and on a counter by one script               *)
(* (apps/m3u/connection_pool.py); the reconciler moves the counters toward *)
(* what the relay lists (apps/proxy/slot_reconciler.py).                   *)
(*                                                                         *)
(* One action is one Redis command or script, or one step of the relay.  A *)
(* handler whose answer nobody waits for any more goes on.                 *)
(***************************************************************************)
EXTENDS Integers, FiniteSets, Sequences

CONSTANTS
  Channels,      \* channel ids
  Streams,       \* streams
  Profiles,      \* M3U account profiles
  None,          \* an absent key, no run, no snapshot
  MaxRuns,       \* bound: channels the relay starts
  Switchers,     \* bound: those of them that switch, each once
  Candidates,    \* per channel: the streams and profiles get_stream tries, in order
  MaxStreams,    \* per profile: max_streams
  Failing,       \* bound: the kinds of calls of which an attempt may fail
  MaxFaults      \* bound: calls of which an attempt fails, and starts that fail

Source == [stream : Streams, profile : Profiles]

ASSUME PoolAssumption ==
  /\ Candidates \in [Channels -> Seq(Source)]
  /\ MaxRuns \in Nat /\ Switchers \subseteq 1..MaxRuns
  /\ MaxStreams \in [Profiles -> Nat \ {0}]
  /\ Failing \subseteq {"tune", "switch", "release"} /\ MaxFaults \in Nat
  /\ None \notin Streams \cup Profiles \cup Channels \cup Nat \cup Source
  /\ None \notin [Profiles -> SUBSET Channels] /\ IsFiniteSet(Channels)

\* A run is a channel the relay has started, known by the order of the starts.
Runs == 1..MaxRuns
Kinds == {"tune", "switch", "release"}
Attempts == 1..2
Handlers == Runs \X Kinds \X Attempts

VARIABLES
  count,          \* profile_connections:{profile}
  channelStream,  \* channel_stream:{channel}
  streamProfile,  \* stream_profile:{stream}
  entry,          \* the relay's listed channel per id
  stage,          \* per run: how far it has come
  of,             \* per run: its channel id
  source,         \* per run: its SourceInfo
  attempt,        \* per run and kind: the attempt under way; 0 none, 3 over
  step,           \* per handler
  loc,            \* per handler: its local variables
  phase,          \* of the reconciler
  seen,           \* the holders in its saved snapshot
  now,            \* the holders this run found
  moved,          \* counters whose slot_version moved since the snapshot's was read
  moving,         \* those whose version moved since this run read it
  open,           \* the windows open at the last listing, until they are looked at
  faults,         \* failures so far
  owns,           \* history, per run: the profile it reserved a slot on
  crossed         \* history: two calls of one channel were under way at once

redis == <<count, moved, moving, channelStream, streamProfile>>
counters == <<count, moved, moving>>
relay == <<entry, stage, of, source, attempt>>
django == <<step, loc>>
reconciler == <<phase, seen, now, open>>
history == <<owns, crossed>>
vars == <<redis, relay, django, reconciler, faults, history>>

NoLocals == [stream |-> None, profile |-> None, old |-> None, key |-> None,
             next |-> 1]

TypeOK ==
  /\ count \in [Profiles -> Nat] /\ moved \subseteq Profiles /\ moving \subseteq Profiles
  /\ channelStream \in [Channels -> Streams \cup {None}]
  /\ streamProfile \in [Streams -> Profiles \cup {None}]
  /\ entry \in [Channels -> Runs \cup {None}]
  /\ stage \in [Runs -> {"none", "tuning", "tuned", "on", "over", "gone"}]
  /\ of \in [Runs -> Channels \cup {None}]
  /\ source \in [Runs -> Source \cup {None}]
  /\ attempt \in [Runs \X Kinds -> 0..3]
  /\ step \in [Handlers -> {"none", "begin", "snapshot", "reuse", "stale", "give", "clear",
                            "walk", "setChannel", "setStream", "commit", "old", "move",
                            "delChannel", "getStream", "delStream", "fallback",
                            "answered", "dead"}]
  /\ loc \in [Handlers -> [stream : Streams \cup {None}, profile : Profiles \cup {None},
                           old : Profiles \cup {None}, key : Streams \cup {None},
                           next : Nat]]
  /\ phase \in {"idle", "list", "write"} 
  /\ seen \in [Profiles -> SUBSET Channels] \cup {None}
  /\ now \in [Profiles -> SUBSET Channels] \cup {None}
  /\ open \subseteq Runs \X Kinds
  /\ faults \in 0..MaxFaults
  /\ owns \in [Runs -> Profiles \cup {None}] /\ crossed \in BOOLEAN

Init ==
  /\ count = [p \in Profiles |-> 0] /\ moved = {} /\ moving = {}
  /\ channelStream = [c \in Channels |-> None] /\ streamProfile = [s \in Streams |-> None]
  /\ entry = [c \in Channels |-> None] /\ stage = [r \in Runs |-> "none"]
  /\ of = [r \in Runs |-> None] /\ source = [r \in Runs |-> None]
  /\ attempt = [c \in Runs \X Kinds |-> 0]
  /\ step = [h \in Handlers |-> "none"] /\ loc = [h \in Handlers |-> NoLocals]
  /\ phase = "idle" /\ seen = None /\ now = None /\ open = {}
  /\ faults = 0 /\ owns = [r \in Runs |-> None] /\ crossed = FALSE

\* The channels a listing shows as holders of profile p's slots.
Holders(p) ==
  {c \in Channels : /\ entry[c] # None /\ stage[entry[c]] = "on"
                    /\ source[entry[c]].profile = p}

----------------------------------------------------------------------------
(* The slot script.                                                        *)

GiveBack(counter, p) == [counter EXCEPT ![p] = IF @ > 0 THEN @ - 1 ELSE @]
Take(counter, p)     == [counter EXCEPT ![p] = @ + 1]
\* Whoever writes a counter moves its version.  A version is only ever compared
\* with an earlier reading of itself.
Write(counter) ==
  LET written == {p \in Profiles : counter[p] # count[p]}
  IN  /\ count' = counter
      /\ moved' = IF seen = None THEN {} ELSE moved \cup written
      /\ moving' = IF phase = "idle" THEN {} ELSE moving \cup written

----------------------------------------------------------------------------
(* The relay.                                                              *)

Unlisted(r) == entry[of[r]] # r
\* A run whose source may still be connected, or whose release has not landed.
Unreleased(r) == stage[r] = "over" \/ (stage[r] = "on" /\ Unlisted(r))

Waiting(r, kind) == attempt[<<r, kind>>] \in Attempts
Handler(r, kind) == <<r, kind, attempt[<<r, kind>>]>>

\* post: the n-th attempt is on its way to a worker.
Try(r, kind, n) ==
  /\ attempt' = [attempt EXCEPT ![<<r, kind>>] = n]
  /\ step' = [step EXCEPT ![<<r, kind, n>>] = "begin"]

\* What a release request carries.
Asks(ids) == [NoLocals EXCEPT !.stream = ids.stream, !.profile = ids.profile]

Done(r, kind) ==
  /\ attempt' = [attempt EXCEPT ![<<r, kind>>] = 3]
  /\ loc' = [loc EXCEPT ![Handler(r, kind)] = NoLocals]

\* Manager.Attach owns the gate of an id without a running channel: a finished
\* one is dropped, one that is still giving its slot back is not waited for.
Start(r, c) ==
  /\ stage[r] = "none" /\ \A q \in 1..(r - 1) : stage[q] # "none"
  /\ entry[c] # None => stage[entry[c]] \in {"over", "gone"}
  /\ \A q \in Runs : of[q] = c => stage[q] \notin {"tuning", "tuned"}
  /\ stage' = [stage EXCEPT ![r] = "tuning"] /\ of' = [of EXCEPT ![r] = c]
  /\ entry' = [entry EXCEPT ![c] = None]
  /\ crossed' = (crossed \/ \E q \in Runs : of[q] = c /\ Unreleased(q))
  /\ Try(r, "tune", 1)
  /\ UNCHANGED <<redis, source, loc, reconciler, faults, owns>>

\* The handler of a failed attempt goes on, or died where it was.
Orphaned(r, kind) ==
  \/ step[Handler(r, kind)] # "answered" /\ UNCHANGED django
  \/ /\ step' = [step EXCEPT ![Handler(r, kind)] = "dead"]
     /\ loc' = [loc EXCEPT ![Handler(r, kind)] = NoLocals]

\* An attempt fails before the request arrived, while a worker handles it or
\* after.  An outage or a 5xx on the first is followed by a second ...
FirstFails(r, kind) ==
  /\ attempt[<<r, kind>>] = 1 /\ kind \in Failing /\ faults < MaxFaults
  /\ faults' = faults + 1
  /\ attempt' = [attempt EXCEPT ![<<r, kind>>] = 2]
  /\ \E last \in {"dead"} \cup ({step[<<r, kind, 1>>]} \ {"answered"}) :
       /\ step' = [step EXCEPT ![<<r, kind, 1>>] = last, ![<<r, kind, 2>>] = "begin"]
       /\ loc' = [loc EXCEPT
            ![<<r, kind, 1>>] = IF last = "dead" THEN NoLocals ELSE @,
            ![<<r, kind, 2>>] = IF kind = "release" THEN Asks(loc[<<r, kind, 1>>]) ELSE @]
  /\ UNCHANGED <<redis, entry, stage, of, source, reconciler, history>>

\* ... and nothing follows that, or an answer of another kind that cannot be
\* used: a tune fails, a release is given up.
GivesUp(r, kind) ==
  /\ \/ attempt[<<r, kind>>] = 2 /\ UNCHANGED faults
     \/ /\ attempt[<<r, kind>>] = 1 /\ kind \in Failing /\ faults < MaxFaults
        /\ faults' = faults + 1
  /\ attempt' = [attempt EXCEPT ![<<r, kind>>] = 3]
  /\ Orphaned(r, kind)
  /\ IF kind = "switch"
     THEN \* the degraded failover: another stream the relay remembers, or none
          /\ \/ UNCHANGED source
             \/ \E i \in DOMAIN Candidates[of[r]] :
                  /\ Candidates[of[r]][i].stream # source[r].stream
                  /\ source' = [source EXCEPT ![r] = Candidates[of[r]][i]]
          /\ UNCHANGED stage
     ELSE stage' = [stage EXCEPT ![r] = "gone"] /\ UNCHANGED source
  /\ UNCHANGED <<redis, entry, of, reconciler, history>>

Answer(r, kind) ==
  LET h == Handler(r, kind)
  IN  [stream |-> loc[h].stream, profile |-> loc[h].profile]

\* startTune has its answer; a refusal ends the start.
Tuned(r) ==
  /\ Waiting(r, "tune") /\ step[Handler(r, "tune")] = "answered"
  /\ IF loc[Handler(r, "tune")].profile = None
     THEN stage' = [stage EXCEPT ![r] = "gone"] /\ UNCHANGED source
     ELSE /\ stage' = [stage EXCEPT ![r] = "tuned"]
          /\ source' = [source EXCEPT ![r] = Answer(r, "tune")]
  /\ Done(r, "tune")
  /\ UNCHANGED <<redis, entry, of, step, reconciler, faults, history>>

\* An answer startTune cannot serve ends the start too, and releases nothing.
StartFails(r) ==
  /\ stage[r] = "tuned" /\ faults < MaxFaults
  /\ faults' = faults + 1
  /\ stage' = [stage EXCEPT ![r] = "gone"]
  /\ UNCHANGED <<redis, entry, of, source, attempt, django, reconciler, history>>

Publish(r) ==
  /\ stage[r] = "tuned"
  /\ stage' = [stage EXCEPT ![r] = "on"] /\ entry' = [entry EXCEPT ![of[r]] = r]
  /\ UNCHANGED <<redis, of, source, attempt, django, reconciler, faults, history>>

\* failover, or an operator's Advance.
Switch(r) ==
  /\ stage[r] = "on" /\ r \in Switchers /\ attempt[<<r, "switch">>] = 0
  /\ Try(r, "switch", 1)
  /\ crossed' = (crossed \/ \E q \in Runs \ {r} : of[q] = of[r] /\ stage[q] = "tuning")
  /\ UNCHANGED <<redis, entry, stage, of, source, loc, reconciler, faults, owns>>

Switched(r) ==
  /\ Waiting(r, "switch") /\ step[Handler(r, "switch")] = "answered"
  /\ source' = IF loc[Handler(r, "switch")].profile = None THEN source
               ELSE [source EXCEPT ![r] = Answer(r, "switch")]
  /\ Done(r, "switch")
  /\ UNCHANGED <<redis, entry, stage, of, step, reconciler, faults, history>>

\* Stop, an idle stop or a reclaim takes the channel out of the map.
Unlist(r) ==
  /\ stage[r] \in {"on", "over", "gone"} /\ of[r] # None /\ ~Unlisted(r)
  /\ entry' = [entry EXCEPT ![of[r]] = None]
  /\ UNCHANGED <<redis, stage, of, source, attempt, django, reconciler, faults, history>>

\* The release POST follows the source's return, with the ids of SourceInfo;
\* an Advance the run does not wait for may still be under way.
RunEnds(r) ==
  /\ stage[r] = "on"
  /\ stage' = [stage EXCEPT ![r] = "over"]
  /\ crossed' = (crossed \/ Waiting(r, "switch"))
  /\ Try(r, "release", 1)
  /\ loc' = [loc EXCEPT ![<<r, "release", 1>>] = Asks(source[r])]
  /\ UNCHANGED <<redis, entry, of, source, reconciler, faults, owns>>

Released(r) ==
  /\ Waiting(r, "release") /\ step[Handler(r, "release")] = "answered"
  /\ stage' = [stage EXCEPT ![r] = "gone"]
  /\ Done(r, "release")
  /\ UNCHANGED <<redis, entry, of, source, step, reconciler, faults, history>>

----------------------------------------------------------------------------
(* Django's handlers.  `h' is <<run, kind, attempt>>.                       *)

At(h, at) == step[h] = at
Goes(h, at) == step' = [step EXCEPT ![h] = at]
Keep(h, values) == loc' = [loc EXCEPT ![h] = values]

\* Channel.get_stream: an assignment that exists is looked into.
GetAssignment(h) ==
  LET s == channelStream[of[h[1]]]
  IN  /\ At(h, "begin")
      /\ Keep(h, [loc[h] EXCEPT !.stream = s])
      /\ Goes(h, IF s = None THEN "walk" ELSE "snapshot")
      /\ UNCHANGED <<redis, relay, reconciler, faults, history>>

\* _stream_assignment_is_reusable asks the relay, which may be unreachable.
AskRelay(h) ==
  LET r == entry[of[h[1]]]
      known == streamProfile[loc[h].stream] # None
  IN  /\ At(h, "snapshot")
      /\ \/ r # None /\ stage[r] = "on" /\ Goes(h, "reuse")
         \/ r # None /\ stage[r] # "on" /\ Goes(h, "stale")
         \/ r = None /\ Goes(h, IF known THEN "reuse" ELSE "stale")
      /\ UNCHANGED <<redis, relay, loc, reconciler, faults, history>>

Reuse(h) ==
  LET p == streamProfile[loc[h].stream]
  IN  /\ At(h, "reuse")
      /\ \/ p # None /\ Keep(h, [loc[h] EXCEPT !.profile = p]) /\ Goes(h, "answered")
         \/ p = None /\ Goes(h, "walk") /\ UNCHANGED loc
      /\ UNCHANGED <<redis, relay, reconciler, faults, history>>

\* _release_stale_stream_assignment.
ReadStale(h) ==
  LET p == streamProfile[loc[h].stream]
  IN  /\ At(h, "stale")
      /\ Keep(h, [loc[h] EXCEPT !.old = p])
      /\ Goes(h, IF p = None THEN "clear" ELSE "give")
      /\ UNCHANGED <<redis, relay, reconciler, faults, history>>

GiveStale(h) ==
  /\ At(h, "give")
  /\ Write(GiveBack(count, loc[h].old))
  /\ Goes(h, "clear")
  /\ UNCHANGED <<channelStream, streamProfile, relay, loc, reconciler, faults, history>>

ClearStale(h) ==
  /\ At(h, "clear")
  /\ channelStream' = [channelStream EXCEPT ![of[h[1]]] = None]
  /\ streamProfile' = [streamProfile EXCEPT ![loc[h].stream] = None]
  /\ Goes(h, "walk")
  /\ UNCHANGED <<counters, relay, loc, reconciler, faults, history>>

\* The walk: the next candidate's reserve, which a full counter refuses.
Reserve(h) ==
  LET list == Candidates[of[h[1]]]
      k == loc[h].next
      p == list[k].profile
  IN  /\ At(h, "walk") /\ k <= Len(list)
      /\ \/ /\ count[p] < MaxStreams[p]
            /\ Write(Take(count, p))
            /\ owns' = [owns EXCEPT ![h[1]] = p]
            /\ Keep(h, [loc[h] EXCEPT !.stream = list[k].stream, !.profile = p])
            /\ Goes(h, "setChannel")
         \/ /\ count[p] >= MaxStreams[p]
            /\ Keep(h, [loc[h] EXCEPT !.next = @ + 1])
            /\ UNCHANGED <<counters, owns, step>>
      /\ UNCHANGED <<channelStream, streamProfile, relay, reconciler, faults, crossed>>

Refuse(h) ==
  /\ At(h, "walk") /\ loc[h].next > Len(Candidates[of[h[1]]])
  /\ Goes(h, "answered")
  /\ UNCHANGED <<redis, relay, loc, reconciler, faults, history>>

SetChannelStream(h) ==
  /\ At(h, "setChannel")
  /\ channelStream' = [channelStream EXCEPT ![of[h[1]]] = loc[h].stream]
  /\ Goes(h, "setStream")
  /\ UNCHANGED <<counters, streamProfile, relay, loc, reconciler, faults, history>>

SetStreamProfile(h) ==
  /\ At(h, "setStream")
  /\ streamProfile' = [streamProfile EXCEPT ![loc[h].stream] = loc[h].profile]
  /\ Goes(h, "answered")
  /\ UNCHANGED <<counters, channelStream, relay, loc, reconciler, faults, history>>

\* get_stream_info_for_switch: another stream, on the channel's own profile or
\* on one that has capacity at this moment (its reads are taken together: what
\* is stale when it is used is the choice).
Select(h) ==
  LET c == of[h[1]]
      own == IF channelStream[c] = None THEN None ELSE streamProfile[channelStream[c]]
      free == {i \in DOMAIN Candidates[c] :
                 LET p == Candidates[c][i].profile
                 IN  /\ Candidates[c][i].stream # source[h[1]].stream
                     /\ p = own \/ count[p] < MaxStreams[p]}
  IN  /\ At(h, "begin")
      /\ \/ \E i \in free :
              /\ Keep(h, [loc[h] EXCEPT !.stream = Candidates[c][i].stream,
                                        !.profile = Candidates[c][i].profile])
              /\ Goes(h, "commit")
         \/ free = {} /\ Goes(h, "answered") /\ UNCHANGED loc
      /\ UNCHANGED <<redis, relay, reconciler, faults, history>>

\* _commit, update_stream_profile: the channel's first stream keeps the key.
ReadOld(h) ==
  LET s == channelStream[of[h[1]]]
      p == IF s = None THEN None ELSE streamProfile[s]
  IN  /\ At(h, "commit")
      /\ Keep(h, [loc[h] EXCEPT !.key = s, !.old = p])
      /\ Goes(h, IF p \in {None, loc[h].profile} THEN "answered" ELSE "move")
      /\ UNCHANGED <<redis, relay, reconciler, faults, history>>

\* Mutant: the old profile's slot stays taken.
MoveTakesOnly(h) ==
  /\ At(h, "move")
  /\ Write(Take(count, loc[h].profile))
  /\ streamProfile' = [streamProfile EXCEPT ![loc[h].key] = loc[h].profile]
  /\ owns' = [owns EXCEPT ![h[1]] = loc[h].profile]
  /\ Goes(h, "answered")
  /\ UNCHANGED <<channelStream, relay, loc, reconciler, faults, crossed>>

\* switch_profile_slot: the script looks at no cap.
Move(h) ==
  /\ At(h, "move")
  /\ Write(Take(GiveBack(count, loc[h].old), loc[h].profile))
  /\ streamProfile' = [streamProfile EXCEPT ![loc[h].key] = loc[h].profile]
  /\ owns' = [owns EXCEPT ![h[1]] = loc[h].profile]
  /\ Goes(h, "answered")
  /\ UNCHANGED <<channelStream, relay, loc, reconciler, faults, crossed>>

\* Channel.release_stream ...
FindChannelStream(h) ==
  LET s == channelStream[of[h[1]]]
  IN  /\ At(h, "begin")
      /\ Keep(h, [loc[h] EXCEPT !.key = s])
      /\ Goes(h, IF s = None THEN "fallback" ELSE "delChannel")
      /\ UNCHANGED <<redis, relay, reconciler, faults, history>>

DelChannelStream(h) ==
  /\ At(h, "delChannel")
  /\ channelStream' = [channelStream EXCEPT ![of[h[1]]] = None]
  /\ Goes(h, "getStream")
  /\ UNCHANGED <<counters, streamProfile, relay, loc, reconciler, faults, history>>

GetStreamProfile(h) ==
  LET p == streamProfile[loc[h].key]
  IN  /\ At(h, "getStream")
      /\ Keep(h, [loc[h] EXCEPT !.old = p])
      /\ Goes(h, IF p = None THEN "fallback" ELSE "delStream")
      /\ UNCHANGED <<redis, relay, reconciler, faults, history>>

DelStreamProfile(h) ==
  /\ At(h, "delStream")
  /\ streamProfile' = [streamProfile EXCEPT ![loc[h].key] = None]
  /\ Goes(h, "give")
  /\ UNCHANGED <<counters, channelStream, relay, loc, reconciler, faults, history>>

\* ... and release_source's fallback on the ids the relay sent.
Fallback(h) ==
  /\ At(h, "fallback")
  /\ streamProfile' = [streamProfile EXCEPT ![loc[h].stream] = None]
  /\ Keep(h, [loc[h] EXCEPT !.old = loc[h].profile])
  /\ Goes(h, "give")
  /\ UNCHANGED <<counters, channelStream, relay, reconciler, faults, history>>

Give(h) ==
  LET p == loc[h].old
  IN  /\ At(h, "give")
      /\ Write(GiveBack(count, p))
      /\ owns' = IF owns[h[1]] = p THEN [owns EXCEPT ![h[1]] = None] ELSE owns
      /\ Keep(h, Asks(loc[h])) /\ Goes(h, "answered")
      /\ UNCHANGED <<channelStream, streamProfile, relay, reconciler, faults, crossed>>

----------------------------------------------------------------------------
(* The reconciler.  Runs are spaced wider than any tune, failover or       *)
(* release can take: a window open at one run is shut at the next.         *)

Windows ==
  {<<r, "tune">> : r \in {q \in Runs : stage[q] \in {"tuning", "tuned"}}}
    \cup {<<r, "switch">> : r \in {q \in Runs : Waiting(q, "switch")}}
    \cup {<<r, "release">> : r \in {q \in Runs : of[q] # None /\ Unreleased(q)}}

ReadVersions ==
  /\ phase = "idle" /\ open \cap Windows = {}
  /\ phase' = "list" /\ open' = {}
  /\ UNCHANGED <<redis, relay, django, seen, now, faults, history>>

ListChannels ==
  /\ phase = "list"
  /\ now' = [p \in Profiles |-> Holders(p)]
  /\ open' = Windows
  /\ phase' = "write"
  /\ UNCHANGED <<redis, relay, django, seen, faults, history>>

\* The relay cannot answer: the run is skipped, the snapshot kept.
SkipRun ==
  /\ phase = "list"
  /\ phase' = "idle" /\ moving' = {}
  /\ UNCHANGED <<count, moved, channelStream, streamProfile, relay, django, seen, now, open,
                 faults, history>>

Floor(p)   == Cardinality(seen[p] \cap now[p])
Ceiling(p) == Cardinality(seen[p] \cup now[p])
Clamp(n, lo, hi) == IF n < lo THEN lo ELSE IF n > hi THEN hi ELSE n

\* Mutant: the script does not look at the version.
ReconciledUnversioned ==
  [p \in Profiles |-> IF seen = None THEN count[p] ELSE Clamp(count[p], Floor(p), Ceiling(p))]

\* Mutant: a counter is only ever lowered.
ReconciledDown ==
  [p \in Profiles |-> IF seen = None \/ p \in moved THEN count[p]
                      ELSE Clamp(count[p], 0, Ceiling(p))]

\* What the counters become; the first run has nothing to compare with.
Reconciled ==
  [p \in Profiles |-> IF seen = None \/ p \in moved THEN count[p]
                      ELSE Clamp(count[p], Floor(p), Ceiling(p))]

\* reconcile_counter for each counter, whose own write moves no version, and
\* the snapshot.  A call reads its own counter only: they are taken together.
Reconcile ==
  /\ phase = "write"
  /\ count' = Reconciled
  /\ seen' = now /\ moved' = moving
  /\ now' = None /\ moving' = {}
  /\ phase' = "idle"
  /\ UNCHANGED <<channelStream, streamProfile, relay, django, open, faults, history>>

----------------------------------------------------------------------------
TuneStep(h) ==
  \/ GetAssignment(h) \/ AskRelay(h) \/ Reuse(h)
  \/ ReadStale(h) \/ GiveStale(h) \/ ClearStale(h)
  \/ Reserve(h) \/ Refuse(h) \/ SetChannelStream(h) \/ SetStreamProfile(h)

SwitchStep(h) == Select(h) \/ ReadOld(h) \/ Move(h)

ReleaseStep(h) ==
  \/ FindChannelStream(h) \/ DelChannelStream(h) \/ GetStreamProfile(h)
  \/ DelStreamProfile(h) \/ Fallback(h) \/ Give(h)

HandlerStep(h) ==
  /\ step[h] \notin {"none", "answered", "dead"}
  /\ \/ h[2] = "tune" /\ TuneStep(h)
     \/ h[2] = "switch" /\ SwitchStep(h)
     \/ h[2] = "release" /\ ReleaseStep(h)

\* What a run does by itself.
RelayStep(r) ==
  Tuned(r) \/ Publish(r) \/ Switched(r) \/ Released(r)

ReconcilerStep == ReadVersions \/ ListChannels \/ Reconcile

Next ==
  \/ \E r \in Runs :
       \/ \E c \in Channels : Start(r, c)
       \/ RelayStep(r) \/ StartFails(r) \/ Switch(r) \/ Unlist(r) \/ RunEnds(r)
       \/ \E kind \in Kinds : FirstFails(r, kind) \/ GivesUp(r, kind)
  \/ \E h \in Handlers : HandlerStep(h)
  \/ ReconcilerStep \/ SkipRun

Spec == Init /\ [][Next]_vars

\* A run that was taken out of the map is cancelled.
CancelledRunEnds(r) == of[r] # None /\ Unlisted(r) /\ RunEnds(r)

\* What goes on by itself while anything can: calls and handlers are bounded by
\* their timeouts, and each takes a step only so often.  The beat runs the
\* reconciler for ever, and the relay answers it now and then.
GoesOn ==
  \/ \E r \in Runs : RelayStep(r) \/ CancelledRunEnds(r)
  \/ \E h \in Handlers : HandlerStep(h)

FairSpec ==
  Spec /\ WF_vars(GoesOn) /\ WF_vars(ReconcilerStep) /\ SF_vars(ListChannels)

----------------------------------------------------------------------------
(* Properties.                                                             *)

\* connection_pool.py, models.py: while nothing fails, calls of one channel do
\* not cross and the reconciler has nothing to compare with yet, the accounts
\* are exact.  A counter is the number of runs that hold a slot on it, through
\* tunes, failovers and releases; a run that is gone leaves no slot behind, nor,
\* once it is the last of its channel, an assignment.
UncrossedCallsAccount ==
  faults = 0 /\ ~crossed /\ seen = None =>
    /\ \A p \in Profiles : count[p] = Cardinality({r \in Runs : owns[r] = p})
    /\ \A r \in Runs : stage[r] = "gone" => owns[r] = None
    /\ \A c \in Channels :
         (\A r \in Runs : of[r] = c => stage[r] = "gone") => channelStream[c] = None

\* slot_reconciler.py: the rules "keep it from ever dropping a slot a live
\* holder owns".  While no call fails, the reconciler lowers no counter below
\* the channels that run on the profile on a slot they reserved, though it
\* decides on a listing and on versions that are old when it writes.  After a
\* tune that was tried twice it may: README section 4.
ReconcileSparesHolders ==
  [][\A p \in Profiles :
       Reconcile /\ faults = 0 /\ count'[p] < count[p]
         => count'[p] >= Cardinality({c \in Holders(p) : owns[entry[c]] = p})]_vars

\* slot_reconciler.py: it "moves the counter toward" who holds a connection.
\* When calls stop, every counter comes to be the number of channels that run
\* on its profile, whatever was lost, repeated or left half done before.
CountersConverge ==
  <>[](\A p \in Profiles : count[p] = Cardinality(Holders(p)))

\* models.py, Channel.get_stream: an assignment is reused "only when this
\* channel is still active in the proxy", since reuse of a stale one would
\* "skip INCR and break pool accounting": while nothing has failed, switched or
\* been reconciled, no more channels run on a profile than its counter counts.
RunningChannelsAreCounted ==
  faults = 0 /\ seen = None /\ (\A r \in Runs : attempt[<<r, "switch">>] = 0) =>
    \A p \in Profiles : Cardinality(Holders(p)) <= count[p]

\* slot_reconciler.py: the union of two runs absorbs "a holder that vanished
\* just before its release lands", so no run that still has its slot loses it,
\* listed or not.
ReconcileSparesUnreleased ==
  [][\A p \in Profiles :
       Reconcile /\ count'[p] < count[p] /\ faults = 0 /\ ~crossed
         => count'[p] >= Cardinality({r \in Runs : stage[r] = "on" /\ owns[r] = p})]_vars
=============================================================================

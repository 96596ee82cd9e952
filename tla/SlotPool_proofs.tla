------------------------- MODULE SlotPool_proofs -------------------------
(***************************************************************************)
(* What the provider slots come to, for any number of runs, channels,      *)
(* streams, profiles and failures: the types of the pool and of the calls, *)
(* the account of what the counters count, and what the reconciler spares. *)
(***************************************************************************)
EXTENDS SlotPool, FiniteSetTheorems, TLAPS

----------------------------------------------------------------------------
(* Types. *)

Stages    == {"none", "tuning", "tuned", "on", "over", "gone"}
StepNames == {"none", "begin", "snapshot", "reuse", "stale", "give", "clear", "walk",
              "setChannel", "setStream", "commit", "old", "move", "delChannel", "getStream",
              "delStream", "fallback", "answered", "dead"}
LocRecs   == [stream : Streams \cup {None}, profile : Profiles \cup {None},
              old : Profiles \cup {None}, key : Streams \cup {None}, next : Nat]
Listings  == [Profiles -> SUBSET Channels]

\* The local variables that a handler has set by the time it is at s.
HasSet(kind, s, l) ==
  /\ l.next >= 1
  /\ s \in {"none", "dead"} => l = NoLocals
  /\ kind = "switch" /\ s = "begin" => l.profile = None
  /\ kind = "tune" /\ s \in {"begin", "snapshot", "reuse", "stale", "give", "clear", "walk"}
       => l.profile = None
  /\ kind = "tune"
       /\ s \in {"snapshot", "reuse", "stale", "give", "clear", "setChannel", "setStream"}
       => l.stream \in Streams
  /\ kind = "tune" /\ s = "give" => l.old \in Profiles
  /\ kind = "tune" /\ s \in {"setChannel", "setStream"} => l.profile \in Profiles
  /\ s = "answered" /\ l.profile # None => l.stream \in Streams
  /\ kind = "switch" /\ s \in {"commit", "move"} => l.stream \in Streams /\ l.profile \in Profiles
  /\ kind = "switch" /\ s = "move"
       => l.key \in Streams /\ l.old \in Profiles /\ l.old # l.profile
  /\ kind = "release" /\ s \notin {"none", "answered", "dead"}
       => l.stream \in Streams /\ l.profile \in Profiles
  /\ kind = "release" /\ s \in {"delChannel", "getStream", "delStream"} => l.key \in Streams
  /\ kind = "release" /\ s \in {"delStream", "give"} => l.old \in Profiles

\* The calls of a run that are under way, and how far it has come.
CallsFit(r) ==
  /\ attempt[<<r, "tune">>] \in {1, 2} <=> stage[r] = "tuning"
  /\ attempt[<<r, "release">>] \in {1, 2} <=> stage[r] = "over"
  /\ stage[r] \in {"none", "tuning", "tuned", "on"} => attempt[<<r, "release">>] = 0
  /\ attempt[<<r, "switch">>] # 0 => stage[r] \in {"on", "over", "gone"}

KeysT == /\ count \in [Profiles -> Nat] /\ moved \subseteq Profiles /\ moving \subseteq Profiles
         /\ channelStream \in [Channels -> Streams \cup {None}]
         /\ streamProfile \in [Streams -> Profiles \cup {None}]
RelayT == /\ entry \in [Channels -> Runs \cup {None}] /\ stage \in [Runs -> Stages]
          /\ of \in [Runs -> Channels \cup {None}] /\ source \in [Runs -> Source \cup {None}]
          /\ attempt \in [Runs \X Kinds -> 0..3]
          /\ \A r \in Runs : of[r] = None <=> stage[r] = "none"
          /\ \A r \in Runs : stage[r] \in {"tuned", "on"} => source[r] \in Source
          /\ \A c \in Channels : entry[c] # None => of[entry[c]] = c
          /\ \A r \in Runs, k \in Kinds : attempt[<<r, k>>] # 0 => stage[r] # "none"
          /\ \A r \in Runs : CallsFit(r)
HandlersT == /\ step \in [Handlers -> StepNames] /\ loc \in [Handlers -> LocRecs]
             /\ \A h \in Handlers : step[h] # "none" => of[h[1]] # None
             /\ \A h \in Handlers : step[h] # "none" => h[3] <= attempt[<<h[1], h[2]>>]
             /\ \A h \in Handlers : HasSet(h[2], step[h], loc[h])
             /\ \A r \in Runs, n \in Attempts : attempt[<<r, "release">>] = n =>
                  loc[<<r, "release", n>>].stream \in Streams
                    /\ loc[<<r, "release", n>>].profile \in Profiles
ReconT == /\ phase \in {"idle", "list", "write"}
          /\ seen \in Listings \cup {None} /\ now \in Listings \cup {None}
          /\ phase = "write" => now \in Listings
          /\ open \subseteq Runs \X Kinds /\ faults \in 0..MaxFaults
PastT == owns \in [Runs -> Profiles \cup {None}] /\ crossed \in BOOLEAN
PoolTypes == KeysT /\ RelayT /\ HandlersT /\ ReconT /\ PastT

\* A handler is of a run, a kind and an attempt.
LEMMA HandlerParts ==
  /\ \A h \in Handlers : /\ h[1] \in Runs /\ h[2] \in Kinds /\ h[3] \in Attempts
                         /\ h = <<h[1], h[2], h[3]>>
  /\ \A r \in Runs, k \in Kinds, n \in Attempts : <<r, k, n>> \in Handlers
BY DEF Handlers

\* A handler's step.
LEMMA HandlerMoves ==
  ASSUME RelayT, HandlersT, NEW h \in Handlers, NEW s \in StepNames, NEW l \in LocRecs,
         of[h[1]] # None, step[h] # "none", HasSet(h[2], s, l),
         h[2] = "release" => l.stream \in Streams /\ l.profile \in Profiles,
         step' = [step EXCEPT ![h] = s], loc' = [loc EXCEPT ![h] = l], UNCHANGED relay
  PROVE  RelayT' /\ HandlersT'
<1>1. RelayT' /\ of' = of /\ attempt' = attempt
  BY DEF RelayT, relay, CallsFit
<1>2. step' \in [Handlers -> StepNames] /\ loc' \in [Handlers -> LocRecs]
  BY DEF HandlersT
<1>3. \A g \in Handlers : g # h => step'[g] = step[g] /\ loc'[g] = loc[g]
  BY DEF HandlersT
<1>4. step'[h] = s /\ loc'[h] = l
  BY DEF HandlersT
<1>5. \A g \in Handlers : /\ step'[g] # "none" => /\ of[g[1]] # None
                                                   /\ g[3] <= attempt[<<g[1], g[2]>>]
                          /\ HasSet(g[2], step'[g], loc'[g])
  BY <1>3, <1>4 DEF HandlersT
<1>6. ASSUME NEW r \in Runs, NEW n \in Attempts, attempt[<<r, "release">>] = n
      PROVE  loc'[<<r, "release", n>>].stream \in Streams
               /\ loc'[<<r, "release", n>>].profile \in Profiles
  <2>1. <<r, "release", n>> \in Handlers
    BY HandlerParts DEF Kinds
  <2>2. CASE <<r, "release", n>> = h
    BY <1>4, <2>2
  <2>3. CASE <<r, "release", n>> # h
    BY <1>3, <1>6, <2>1, <2>3 DEF HandlersT
  <2> QED
    BY <2>2, <2>3
<1> QED
  BY <1>1, <1>2, <1>5, <1>6 DEF HandlersT

\* The script's arithmetic.
LEMMA WriteTyped ==
  ASSUME KeysT, NEW counter \in [Profiles -> Nat], Write(counter)
  PROVE  count' \in [Profiles -> Nat] /\ moved' \subseteq Profiles /\ moving' \subseteq Profiles
BY DEF Write, KeysT

\* What the counters become.
LEMMA TakeTyped ==
  ASSUME NEW counter \in [Profiles -> Nat], NEW p \in Profiles
  PROVE  Take(counter, p) \in [Profiles -> Nat] /\ GiveBack(counter, p) \in [Profiles -> Nat]
BY DEF Take, GiveBack

\* A handler that has not begun has set nothing.
LEMMA NoLocalsTyped ==
  NoLocals \in LocRecs /\ NoLocals.next = 1 /\ NoLocals.profile = None
BY DEF NoLocals, LocRecs

\* A request's own variables.
LEMMA AsksTyped ==
  ASSUME NEW ids, ids.stream \in Streams, ids.profile \in Profiles
  PROVE  /\ Asks(ids) \in LocRecs /\ Asks(ids).next = 1
         /\ Asks(ids).stream = ids.stream /\ Asks(ids).profile = ids.profile
<1> DEFINE n == NoLocals
           s == ids.stream
           p == ids.profile
<1>1. n \in LocRecs /\ n.next = 1 /\ s \in Streams /\ p \in Profiles
  BY NoLocalsTyped
<1>2. Asks(ids) = [n EXCEPT !.stream = s, !.profile = p]
  BY DEF Asks
<1> HIDE DEF n, s, p
<1>3. /\ Asks(ids) \in LocRecs /\ Asks(ids).next = 1
      /\ Asks(ids).stream = s /\ Asks(ids).profile = p
  BY <1>1, <1>2 DEF LocRecs
<1> QED
  BY <1>3 DEF s, p
\* What a handler's step leaves alone.
LEMMA OthersTyped ==
  ASSUME PoolTypes, UNCHANGED <<reconciler, faults>> PROVE ReconT'
BY DEF PoolTypes, ReconT, reconciler

\* A handler of a tune.
LEMMA TuneTypes ==
  ASSUME PoolTypes, NEW h \in Handlers, h[2] = "tune", step[h] \notin {"none", "answered", "dead"},
         TuneStep(h)
  PROVE  PoolTypes'
<1> DEFINE c == of[h[1]]
           l == loc[h]
<1>1. /\ h[1] \in Runs /\ c \in Channels /\ l \in LocRecs /\ HasSet("tune", step[h], l)
      /\ KeysT /\ RelayT /\ HandlersT /\ ReconT /\ PastT /\ h[2] # "release" /\ step[h] # "none"
           /\ of[h[1]] # None
  BY HandlerParts DEF PoolTypes, HandlersT, RelayT
<1> HIDE DEF l
\* A step to s with m that leaves the counters.
<1>2. ASSUME NEW s \in StepNames, NEW m \in LocRecs, HasSet("tune", s, m),
             step' = [step EXCEPT ![h] = s], loc' = [loc EXCEPT ![h] = m],
             UNCHANGED <<relay, reconciler, faults>>, KeysT', PastT'
      PROVE  PoolTypes'
  BY <1>1, <1>2, HandlerMoves, OthersTyped DEF PoolTypes
<1>3. ASSUME UNCHANGED redis PROVE KeysT'
  BY <1>1, <1>3 DEF KeysT, redis
<1>4. ASSUME UNCHANGED history PROVE PastT'
  BY <1>1, <1>4 DEF PastT, history
<1>5. ASSUME UNCHANGED loc PROVE loc' = [loc EXCEPT ![h] = l]
  BY <1>1, <1>5 DEF HandlersT, l
<1>6. CASE GetAssignment(h)
  <2> DEFINE s == IF channelStream[c] = None THEN "walk" ELSE "snapshot"
             m == [l EXCEPT !.stream = channelStream[c]]
  <2>1. step' = [step EXCEPT ![h] = s] /\ loc' = [loc EXCEPT ![h] = m]
        /\ UNCHANGED <<redis, relay, reconciler, faults, history>>
    BY <1>6 DEF GetAssignment, Goes, Keep, l
  <2>2. channelStream[c] \in Streams \cup {None}
    BY <1>1 DEF KeysT
  <2>3. s \in StepNames /\ m \in LocRecs
    BY <1>1, <2>2 DEF StepNames, LocRecs
  <2>4. HasSet("tune", s, m)
    BY <1>1, <1>6, <2>2 DEF GetAssignment, At, HasSet, LocRecs
  <2> HIDE DEF s, m
  <2> QED
    BY <1>2, <1>3, <1>4, <2>1, <2>3, <2>4
<1>7. CASE AskRelay(h)
  <2>1. PICK s \in {"reuse", "stale"} : step' = [step EXCEPT ![h] = s]
    BY <1>7 DEF AskRelay, Goes
  <2>2. HasSet("tune", s, l) /\ s \in StepNames
    BY <1>1, <1>7 DEF AskRelay, At, HasSet, StepNames
  <2> QED
    BY <1>1, <1>2, <1>3, <1>4, <1>5, <1>7, <2>1, <2>2 DEF AskRelay
<1>8. CASE Reuse(h)
  <2> DEFINE p == streamProfile[l.stream]
  <2>1. l.stream \in Streams /\ p \in Profiles \cup {None}
        /\ UNCHANGED <<redis, relay, reconciler, faults, history>>
    BY <1>1, <1>8 DEF Reuse, At, HasSet, KeysT
  <2>2. CASE p # None
    <3> DEFINE m == [l EXCEPT !.profile = p]
    <3>1. loc' = [loc EXCEPT ![h] = m] /\ step' = [step EXCEPT ![h] = "answered"]
      BY <1>8, <2>2 DEF Reuse, Goes, Keep, l
    <3>2. m \in LocRecs /\ HasSet("tune", "answered", m) /\ "answered" \in StepNames
      BY <1>1, <2>1 DEF LocRecs, HasSet, StepNames
    <3> HIDE DEF m
    <3> QED
      BY <1>2, <1>3, <1>4, <2>1, <3>1, <3>2
  <2>3. CASE p = None
    <3>1. UNCHANGED loc /\ step' = [step EXCEPT ![h] = "walk"]
      BY <1>8, <2>3 DEF Reuse, Goes, l
    <3>2. HasSet("tune", "walk", l) /\ "walk" \in StepNames
      BY <1>1, <1>8 DEF Reuse, At, LocRecs, HasSet, StepNames
    <3> QED
      BY <1>1, <1>2, <1>3, <1>4, <1>5, <2>1, <3>1, <3>2
  <2> QED
    BY <2>2, <2>3
<1>9. CASE ReadStale(h)
  <2> DEFINE p == streamProfile[l.stream]
             s == IF p = None THEN "clear" ELSE "give"
             m == [l EXCEPT !.old = p]
  <2>1. step' = [step EXCEPT ![h] = s] /\ loc' = [loc EXCEPT ![h] = m]
        /\ UNCHANGED <<redis, relay, reconciler, faults, history>>
    BY <1>9 DEF ReadStale, Goes, Keep, l
  <2>2. l.stream \in Streams /\ p \in Profiles \cup {None}
    BY <1>1, <1>9 DEF ReadStale, At, HasSet, KeysT
  <2>3. s \in StepNames /\ m \in LocRecs /\ HasSet("tune", s, m)
    BY <1>1, <1>9, <2>2 DEF ReadStale, At, StepNames, LocRecs, HasSet
  <2> HIDE DEF s, m, p
  <2> QED
    BY <1>2, <1>3, <1>4, <2>1, <2>3
<1>10. CASE GiveStale(h)
  <2>1. l.old \in Profiles /\ l.stream \in Streams
    BY <1>1, <1>10 DEF GiveStale, At, HasSet
  <2>2. KeysT'
    BY <1>1, <1>10, <2>1, WriteTyped, TakeTyped DEF GiveStale, KeysT, l
  <2>3. HasSet("tune", "clear", l) /\ "clear" \in StepNames
    BY <1>1, <1>10, <2>1 DEF GiveStale, At, HasSet, StepNames
  <2> QED
    BY <1>1, <1>2, <1>4, <1>5, <1>10, <2>2, <2>3 DEF GiveStale, Goes
<1>11. CASE ClearStale(h)
  <2>1. l.stream \in Streams
    BY <1>1, <1>11 DEF ClearStale, At, HasSet
  <2>2. KeysT'
    BY <1>1, <1>11, <2>1 DEF ClearStale, KeysT, counters, l
  <2>3. HasSet("tune", "walk", l) /\ "walk" \in StepNames
    BY <1>1, <1>11 DEF ClearStale, At, HasSet, StepNames
  <2> QED
    BY <1>1, <1>2, <1>4, <1>5, <1>11, <2>2, <2>3 DEF ClearStale, Goes
<1>12. CASE Reserve(h)
  <2> DEFINE src == Candidates[c][l.next]
  <2>1. src \in Source /\ src.stream \in Streams /\ src.profile \in Profiles /\ l.next \in Nat
    <3>1. l.next \in 1..Len(Candidates[c]) /\ Candidates[c] \in Seq(Source)
      BY <1>1, <1>12, PoolAssumption DEF Reserve, HasSet, LocRecs, l
    <3>2. src \in Source
      BY <3>1
    <3> QED
      BY <1>1, <3>2 DEF Source, LocRecs
  <2>2. CASE count[src.profile] < MaxStreams[src.profile]
               /\ step' = [step EXCEPT ![h] = "setChannel"]
    <3> DEFINE m == [l EXCEPT !.stream = src.stream, !.profile = src.profile]
    <3>1. /\ Write(Take(count, src.profile)) /\ owns' = [owns EXCEPT ![h[1]] = src.profile]
          /\ loc' = [loc EXCEPT ![h] = m]
          /\ UNCHANGED <<channelStream, streamProfile, relay, reconciler, faults, crossed>>
      <4>1. ~(count[src.profile] >= MaxStreams[src.profile])
        BY <1>1, <2>1, <2>2, PoolAssumption DEF KeysT
      <4> QED
        BY <1>12, <4>1 DEF Reserve, Keep, l
    <3>2. KeysT' /\ PastT'
      BY <1>1, <2>1, <3>1, WriteTyped, TakeTyped DEF KeysT, PastT
    <3>3. m \in LocRecs /\ HasSet("tune", "setChannel", m) /\ "setChannel" \in StepNames
      BY <1>1, <2>1 DEF LocRecs, HasSet, StepNames
    <3> HIDE DEF m, src
    <3> QED
      BY <1>2, <2>2, <3>1, <3>2, <3>3
  <2>3. CASE count[src.profile] >= MaxStreams[src.profile]
    <3> DEFINE m == [l EXCEPT !.next = @ + 1]
    <3>1. loc' = [loc EXCEPT ![h] = m]
            /\ UNCHANGED <<redis, relay, reconciler, faults, history, step>>
      <4>1. ~(count[src.profile] < MaxStreams[src.profile])
        BY <1>1, <2>1, <2>3, PoolAssumption DEF KeysT
      <4> QED
        BY <1>12, <4>1 DEF Reserve, Keep, l, redis, counters, history
    <3>2. step' = [step EXCEPT ![h] = "walk"] /\ "walk" \in StepNames
      BY <1>1, <1>12, <3>1 DEF Reserve, At, HandlersT, StepNames
    <3>3. m \in LocRecs /\ HasSet("tune", "walk", m)
      BY <1>1, <1>12, <2>1 DEF Reserve, At, LocRecs, HasSet
    <3> HIDE DEF m, src
    <3> QED
      BY <1>2, <1>3, <1>4, <3>1, <3>2, <3>3
  <2> QED
    BY <1>12, <2>2, <2>3 DEF Reserve, Goes, l
<1>13. CASE Refuse(h) \/ SetStreamProfile(h)
  <2>1. HasSet("tune", "answered", l) /\ "answered" \in StepNames
    BY <1>1, <1>13 DEF Refuse, SetStreamProfile, At, HasSet, StepNames
  <2>2. KeysT'
    <3>1. CASE Refuse(h)
      BY <1>3, <3>1 DEF Refuse
    <3>2. CASE SetStreamProfile(h)
      BY <1>1, <3>2 DEF SetStreamProfile, At, HasSet, KeysT, counters, l
    <3> QED
      BY <1>13, <3>1, <3>2
  <2> QED
    BY <1>1, <1>2, <1>4, <1>5, <1>13, <2>1, <2>2 DEF Refuse, SetStreamProfile, Goes
<1>14. CASE SetChannelStream(h)
  <2>1. HasSet("tune", "setStream", l) /\ "setStream" \in StepNames /\ l.stream \in Streams
    BY <1>1, <1>14 DEF SetChannelStream, At, HasSet, StepNames
  <2>2. KeysT'
    BY <1>1, <1>14, <2>1 DEF SetChannelStream, KeysT, counters, l
  <2> QED
    BY <1>1, <1>2, <1>4, <1>5, <1>14, <2>1, <2>2 DEF SetChannelStream, Goes
<1> QED
  BY <1>6, <1>7, <1>8, <1>9, <1>10, <1>11, <1>12, <1>13, <1>14 DEF TuneStep


\* A handler of a switch.
LEMMA SwitchTypes ==
  ASSUME PoolTypes, NEW h \in Handlers, h[2] = "switch",
         step[h] \notin {"none", "answered", "dead"},
         SwitchStep(h)
  PROVE  PoolTypes'
<1> DEFINE c == of[h[1]]
           l == loc[h]
<1>1. /\ h[1] \in Runs /\ c \in Channels /\ l \in LocRecs /\ HasSet("switch", step[h], l)
      /\ KeysT /\ RelayT /\ HandlersT /\ ReconT /\ PastT /\ h[2] # "release" /\ step[h] # "none"
           /\ of[h[1]] # None
  BY HandlerParts DEF PoolTypes, HandlersT, RelayT
<1> HIDE DEF l
<1>2. ASSUME NEW s \in StepNames, NEW m \in LocRecs, HasSet("switch", s, m),
             step' = [step EXCEPT ![h] = s], loc' = [loc EXCEPT ![h] = m],
             UNCHANGED <<relay, reconciler, faults>>, KeysT', PastT'
      PROVE  PoolTypes'
  BY <1>1, <1>2, HandlerMoves, OthersTyped DEF PoolTypes
<1>3. ASSUME UNCHANGED redis PROVE KeysT'
  BY <1>1, <1>3 DEF KeysT, redis
<1>4. ASSUME UNCHANGED history PROVE PastT'
  BY <1>1, <1>4 DEF PastT, history
<1>5. ASSUME UNCHANGED loc PROVE loc' = [loc EXCEPT ![h] = l]
  BY <1>1, <1>5 DEF HandlersT, l
<1>6. CASE Select(h)
  <2>1. UNCHANGED <<redis, relay, reconciler, faults, history>> /\ step[h] = "begin"
    BY <1>6 DEF Select, At
  <2>2. CASE UNCHANGED loc /\ step' = [step EXCEPT ![h] = "answered"]
    <3>1. l.profile = None
      BY <1>1, <2>1 DEF HasSet
    <3>2. HasSet("switch", "answered", l) /\ "answered" \in StepNames
      BY <1>1, <2>1, <3>1 DEF HasSet, StepNames
    <3> QED
      BY <1>1, <1>2, <1>3, <1>4, <1>5, <2>1, <2>2, <3>2
  <2>3. ASSUME NEW i \in DOMAIN Candidates[c],
               loc' = [loc EXCEPT ![h] = [l EXCEPT !.stream = Candidates[c][i].stream,
                                                   !.profile = Candidates[c][i].profile]],
               step' = [step EXCEPT ![h] = "commit"]
        PROVE  PoolTypes'
    <3> DEFINE src == Candidates[c][i]
               m == [l EXCEPT !.stream = src.stream, !.profile = src.profile]
    <3>1. src \in Source
      BY <1>1, PoolAssumption
    <3>2. src.stream \in Streams /\ src.profile \in Profiles
      BY <3>1 DEF Source
    <3> HIDE DEF src
    <3>3. m \in LocRecs /\ HasSet("switch", "commit", m) /\ "commit" \in StepNames
      BY <1>1, <3>2 DEF LocRecs, HasSet, StepNames
    <3>4. loc' = [loc EXCEPT ![h] = m]
      BY <2>3 DEF src
    <3> HIDE DEF m
    <3> QED
      BY <1>2, <1>3, <1>4, <2>1, <2>3, <3>3, <3>4
  <2> QED
    BY <1>6, <2>2, <2>3 DEF Select, Keep, Goes, l
<1>7. CASE ReadOld(h)
  <2> DEFINE k == channelStream[c]
             p == IF k = None THEN None ELSE streamProfile[k]
             s == IF p \in {None, l.profile} THEN "answered" ELSE "move"
             m == [l EXCEPT !.key = k, !.old = p]
  <2>1. step' = [step EXCEPT ![h] = s] /\ loc' = [loc EXCEPT ![h] = m]
        /\ UNCHANGED <<redis, relay, reconciler, faults, history>>
    BY <1>7 DEF ReadOld, Goes, Keep, l
  <2>2. k \in Streams \cup {None} /\ p \in Profiles \cup {None} /\ (p # None => k \in Streams)
    BY <1>1, PoolAssumption DEF KeysT
  <2>3. l.stream \in Streams /\ l.profile \in Profiles
    BY <1>1, <1>7 DEF ReadOld, At, HasSet
  <2> HIDE DEF k, p
  <2>4. s \in StepNames /\ m \in LocRecs
    BY <1>1, <2>2 DEF StepNames, LocRecs
  <2>5. HasSet("switch", s, m)
    BY <1>1, <2>2, <2>3 DEF HasSet, LocRecs
  <2> HIDE DEF s, m
  <2> QED
    BY <1>2, <1>3, <1>4, <2>1, <2>4, <2>5
<1>8. CASE Move(h)
  <2>1. /\ l.stream \in Streams /\ l.profile \in Profiles
        /\ l.key \in Streams /\ l.old \in Profiles
    BY <1>1, <1>8 DEF Move, At, HasSet
  <2>2. KeysT'
    BY <1>1, <1>8, <2>1, WriteTyped, TakeTyped DEF Move, KeysT, l
  <2>3. PastT'
    BY <1>1, <1>8, <2>1 DEF Move, PastT, l
  <2>4. HasSet("switch", "answered", l) /\ "answered" \in StepNames
    BY <1>1, <2>1 DEF HasSet, StepNames
  <2> QED
    BY <1>1, <1>2, <1>5, <1>8, <2>2, <2>3, <2>4 DEF Move, Goes
<1> QED
  BY <1>6, <1>7, <1>8 DEF SwitchStep

\* A handler of a release.
LEMMA ReleaseTypes ==
  ASSUME PoolTypes, NEW h \in Handlers, h[2] = "release",
         step[h] \notin {"none", "answered", "dead"},
         ReleaseStep(h)
  PROVE  PoolTypes'
<1> DEFINE c == of[h[1]]
           l == loc[h]
<1>1. /\ h[1] \in Runs /\ c \in Channels /\ l \in LocRecs /\ HasSet("release", step[h], l)
      /\ KeysT /\ RelayT /\ HandlersT /\ ReconT /\ PastT /\ step[h] # "none" /\ of[h[1]] # None
  BY HandlerParts DEF PoolTypes, HandlersT, RelayT
<1> HIDE DEF l
<1>2. ASSUME NEW s \in StepNames, NEW m \in LocRecs, HasSet("release", s, m),
             m.stream \in Streams /\ m.profile \in Profiles,
             step' = [step EXCEPT ![h] = s], loc' = [loc EXCEPT ![h] = m],
             UNCHANGED <<relay, reconciler, faults>>, KeysT', PastT'
      PROVE  PoolTypes'
  BY <1>1, <1>2, HandlerMoves, OthersTyped DEF PoolTypes
<1>3. ASSUME UNCHANGED redis PROVE KeysT'
  BY <1>1, <1>3 DEF KeysT, redis
<1>4. ASSUME UNCHANGED history PROVE PastT'
  BY <1>1, <1>4 DEF PastT, history
<1>5. ASSUME UNCHANGED loc PROVE loc' = [loc EXCEPT ![h] = l]
  BY <1>1, <1>5 DEF HandlersT, l
<1>20. l.stream \in Streams /\ l.profile \in Profiles
  BY <1>1 DEF HasSet
<1>6. CASE FindChannelStream(h)
  <2> DEFINE k == channelStream[c]
             s == IF k = None THEN "fallback" ELSE "delChannel"
             m == [l EXCEPT !.key = k]
  <2>1. step' = [step EXCEPT ![h] = s] /\ loc' = [loc EXCEPT ![h] = m]
        /\ UNCHANGED <<redis, relay, reconciler, faults, history>>
    BY <1>6 DEF FindChannelStream, Goes, Keep, l
  <2>2. k \in Streams \cup {None}
    BY <1>1 DEF KeysT
  <2> HIDE DEF k
  <2>3. s \in StepNames /\ m \in LocRecs
    BY <1>1, <2>2 DEF StepNames, LocRecs
  <2>4. HasSet("release", s, m) /\ m.stream \in Streams /\ m.profile \in Profiles
    BY <1>1, <1>20, <2>2 DEF HasSet, LocRecs
  <2> HIDE DEF s, m
  <2> QED
    BY <1>2, <1>3, <1>4, <2>1, <2>3, <2>4
<1>7. CASE DelChannelStream(h)
  <2>1. HasSet("release", "getStream", l) /\ "getStream" \in StepNames
    BY <1>1, <1>7, <1>20 DEF DelChannelStream, At, HasSet, StepNames
  <2>2. KeysT'
    BY <1>1, <1>7 DEF DelChannelStream, KeysT, counters
  <2> QED
    BY <1>1, <1>2, <1>4, <1>5, <1>7, <1>20, <2>1, <2>2 DEF DelChannelStream, Goes
<1>8. CASE GetStreamProfile(h)
  <2> DEFINE p == streamProfile[l.key]
             s == IF p = None THEN "fallback" ELSE "delStream"
             m == [l EXCEPT !.old = p]
  <2>1. step' = [step EXCEPT ![h] = s] /\ loc' = [loc EXCEPT ![h] = m]
        /\ UNCHANGED <<redis, relay, reconciler, faults, history>>
    BY <1>8 DEF GetStreamProfile, Goes, Keep, l
  <2>2. l.key \in Streams /\ p \in Profiles \cup {None}
    BY <1>1, <1>8 DEF GetStreamProfile, At, HasSet, KeysT
  <2> HIDE DEF p
  <2>3. s \in StepNames /\ m \in LocRecs
    BY <1>1, <2>2 DEF StepNames, LocRecs
  <2>4. HasSet("release", s, m) /\ m.stream \in Streams /\ m.profile \in Profiles
    BY <1>1, <1>20, <2>2 DEF HasSet, LocRecs
  <2> HIDE DEF s, m
  <2> QED
    BY <1>2, <1>3, <1>4, <2>1, <2>3, <2>4
<1>9. CASE DelStreamProfile(h)
  <2>1. l.key \in Streams /\ l.old \in Profiles
    BY <1>1, <1>9 DEF DelStreamProfile, At, HasSet
  <2>2. HasSet("release", "give", l) /\ "give" \in StepNames
    BY <1>1, <1>20, <2>1 DEF HasSet, StepNames
  <2>3. KeysT'
    BY <1>1, <1>9, <2>1 DEF DelStreamProfile, KeysT, counters, l
  <2> QED
    BY <1>1, <1>2, <1>4, <1>5, <1>9, <1>20, <2>2, <2>3 DEF DelStreamProfile, Goes
<1>10. CASE Fallback(h)
  <2> DEFINE m == [l EXCEPT !.old = l.profile]
  <2>1. step' = [step EXCEPT ![h] = "give"] /\ loc' = [loc EXCEPT ![h] = m]
        /\ UNCHANGED <<relay, reconciler, faults, history>>
    BY <1>10 DEF Fallback, Goes, Keep, l
  <2>2. KeysT'
    BY <1>1, <1>10, <1>20 DEF Fallback, KeysT, counters, l
  <2>3. m \in LocRecs /\ HasSet("release", "give", m) /\ "give" \in StepNames
        /\ m.stream \in Streams /\ m.profile \in Profiles
    BY <1>1, <1>20 DEF LocRecs, HasSet, StepNames
  <2> HIDE DEF m
  <2> QED
    BY <1>2, <1>4, <2>1, <2>2, <2>3
<1>11. CASE Give(h)
  <2> DEFINE m == Asks(l)
  <2>1. /\ step' = [step EXCEPT ![h] = "answered"] /\ loc' = [loc EXCEPT ![h] = m]
        /\ UNCHANGED <<channelStream, streamProfile, relay, reconciler, faults, crossed>>
        /\ Write(GiveBack(count, l.old))
        /\ owns' = IF owns[h[1]] = l.old THEN [owns EXCEPT ![h[1]] = None] ELSE owns
        /\ l.old \in Profiles
    BY <1>1, <1>11 DEF Give, Goes, Keep, l, At, HasSet
  <2>2. KeysT'
    BY <1>1, <2>1, WriteTyped, TakeTyped DEF KeysT
  <2>3. PastT'
    BY <1>1, <2>1 DEF PastT
  <2>5. m \in LocRecs /\ m.stream = l.stream /\ m.profile = l.profile /\ m.next >= 1
    BY <1>20, AsksTyped
  <2> HIDE DEF m
  <2>6. HasSet("release", "answered", m) /\ "answered" \in StepNames
    BY <1>20, <2>5 DEF HasSet, StepNames
  <2> QED
    BY <1>2, <1>20, <2>1, <2>2, <2>3, <2>5, <2>6
<1> QED
  BY <1>6, <1>7, <1>8, <1>9, <1>10, <1>11 DEF ReleaseStep

\* An attempt that starts.
LEMMA TryTypes ==
  ASSUME PoolTypes, NEW r \in Runs, NEW k \in Kinds, NEW l \in LocRecs,
         Try(r, k, 1), loc' = [loc EXCEPT ![<<r, k, 1>>] = l],
         HasSet(k, "begin", l), k = "release" => l.stream \in Streams /\ l.profile \in Profiles,
         of' \in [Runs -> Channels \cup {None}], of'[r] # None,
         \A q \in Runs : of[q] # None => of'[q] = of[q],
         attempt[<<r, k>>] = 0
  PROVE  /\ HandlersT' /\ attempt' \in [Runs \X Kinds -> 0..3]
         /\ attempt'[<<r, k>>] = 1
         /\ \A q \in Runs, j \in Kinds : q # r \/ j # k => attempt'[<<q, j>>] = attempt[<<q, j>>]
<1> DEFINE h == <<r, k, 1>>
<1>1. h \in Handlers /\ h[1] = r /\ h[2] = k /\ RelayT /\ HandlersT /\ <<r, k>> \in Runs \X Kinds
  BY DEF PoolTypes, Handlers, Attempts
<1>2. step' = [step EXCEPT ![h] = "begin"] /\ loc' = [loc EXCEPT ![h] = l]
      /\ attempt' = [attempt EXCEPT ![<<r, k>>] = 1]
  BY DEF Try
<1>3. step' \in [Handlers -> StepNames] /\ loc' \in [Handlers -> LocRecs]
  BY <1>1, <1>2 DEF HandlersT, StepNames
<1>4. \A g \in Handlers : g # h => step'[g] = step[g] /\ loc'[g] = loc[g]
  BY <1>1, <1>2 DEF HandlersT
<1>5. step'[h] = "begin" /\ loc'[h] = l
  BY <1>1, <1>2 DEF HandlersT
<1>7. attempt' \in [Runs \X Kinds -> 0..3] /\ attempt'[<<r, k>>] = 1
  BY <1>1, <1>2 DEF RelayT
<1>8. \A q \in Runs, j \in Kinds : q # r \/ j # k => attempt'[<<q, j>>] = attempt[<<q, j>>]
  BY <1>1, <1>2 DEF RelayT
<1>6. \A g \in Handlers : /\ step'[g] # "none" => /\ of'[g[1]] # None
                                                   /\ g[3] <= attempt'[<<g[1], g[2]>>]
                          /\ HasSet(g[2], step'[g], loc'[g])
  <2> TAKE g \in Handlers
  <2>1. CASE g = h
    BY <1>1, <1>5, <1>7, <2>1
  <2>2. CASE g # h
    <3>1. (step[g] # "none" => of[g[1]] # None /\ g[3] <= attempt[<<g[1], g[2]>>])
          /\ HasSet(g[2], step[g], loc[g]) /\ g[1] \in Runs /\ g[2] \in Kinds /\ g[3] \in 1..2
      BY <1>1, HandlerParts DEF HandlersT, Attempts
    <3>2. g[1] # r \/ g[2] # k \/ ~(g[3] <= attempt[<<r, k>>])
      BY <3>1
    <3> QED
      BY <1>4, <1>8, <2>2, <3>1, <3>2
  <2> QED
    BY <2>1, <2>2
<1>9. ASSUME NEW q \in Runs, NEW n \in Attempts, attempt'[<<q, "release">>] = n
      PROVE  loc'[<<q, "release", n>>].stream \in Streams
               /\ loc'[<<q, "release", n>>].profile \in Profiles
  <2>1. <<q, "release", n>> \in Handlers /\ "release" \in Kinds
    BY HandlerParts DEF Kinds
  <2>2. CASE <<q, "release", n>> = h
    BY <1>5, <2>2
  <2>3. CASE q = r /\ k = "release" /\ n = 2
    BY <1>7, <1>9, <2>3
  <2>4. CASE q # r \/ k # "release"
    BY <1>1, <1>4, <1>8, <1>9, <2>1, <2>4 DEF HandlersT
  <2> QED
    BY <2>2, <2>3, <2>4 DEF Attempts
<1>10. HandlersT'
  <2>1. \A g \in Handlers : HasSet(g[2], step'[g], loc'[g])
    BY <1>6
  <2>2. /\ \A g \in Handlers : step'[g] # "none" => of'[g[1]] # None
        /\ \A g \in Handlers : step'[g] # "none" => g[3] <= attempt'[<<g[1], g[2]>>]
    BY <1>6
  <2> QED
    BY <1>3, <1>9, <2>1, <2>2 DEF HandlersT
<1> QED
  BY <1>7, <1>8, <1>10

\* A channel that starts to tune.
LEMMA StartTypes ==
  ASSUME PoolTypes, NEW r \in Runs, NEW c \in Channels, Start(r, c) PROVE PoolTypes'
<1>1. /\ KeysT /\ RelayT /\ HandlersT /\ ReconT /\ PastT /\ "tune" \in Kinds
      /\ c # None
  BY PoolAssumption DEF PoolTypes, Kinds
<1>2. /\ stage[r] = "none" /\ stage' = [stage EXCEPT ![r] = "tuning"]
      /\ of' = [of EXCEPT ![r] = c] /\ entry' = [entry EXCEPT ![c] = None]
      /\ Try(r, "tune", 1) /\ UNCHANGED <<redis, source, loc, reconciler, faults, owns>>
      /\ crossed' \in BOOLEAN
  BY <1>1 DEF Start, PastT
<1>3. of[r] = None /\ of' \in [Runs -> Channels \cup {None}] /\ of'[r] = c
      /\ \A q \in Runs : q # r => of'[q] = of[q]
  BY <1>1, <1>2 DEF RelayT
<1>4. attempt[<<r, "tune">>] = 0
  BY <1>1, <1>2 DEF RelayT
<1>5. step[<<r, "tune", 1>>] = "none" /\ loc[<<r, "tune", 1>>] \in LocRecs
      /\ HasSet("tune", "none", loc[<<r, "tune", 1>>])
  <2>1. <<r, "tune", 1>> \in Handlers
    BY DEF Handlers, Attempts, Kinds
  <2> QED
    BY <1>1, <1>3, <2>1 DEF HandlersT
<1>6. HasSet("tune", "begin", loc[<<r, "tune", 1>>])
  BY <1>5, NoLocalsTyped DEF HasSet
<1>7. loc' = [loc EXCEPT ![<<r, "tune", 1>>] = loc[<<r, "tune", 1>>]]
  BY <1>1, <1>2 DEF HandlersT
<1>8. /\ HandlersT' /\ attempt' \in [Runs \X Kinds -> 0..3]
      /\ attempt'[<<r, "tune">>] = 1
      /\ \A q \in Runs, j \in Kinds : q # r \/ j # "tune" => attempt'[<<q, j>>] = attempt[<<q, j>>]
  <2> DEFINE l == loc[<<r, "tune", 1>>]
  <2>1. of'[r] # None /\ \A q \in Runs : of[q] # None => of'[q] = of[q]
    BY <1>1, <1>3
  <2>2. l \in LocRecs /\ HasSet("tune", "begin", l) /\ loc' = [loc EXCEPT ![<<r, "tune", 1>>] = l]
    BY <1>5, <1>6, <1>7
  <2>3. attempt[<<r, "tune">>] = 0 /\ Try(r, "tune", 1)
    BY <1>2, <1>4
  <2> HIDE DEF l
  <2> QED
    BY <1>1, <1>3, <2>1, <2>2, <2>3, TryTypes
<1>9. stage' \in [Runs -> Stages] /\ stage'[r] = "tuning"
      /\ \A q \in Runs : q # r => stage'[q] = stage[q]
  BY <1>1, <1>2 DEF RelayT, Stages
<1>10. entry' \in [Channels -> Runs \cup {None}]
       /\ \A d \in Channels : entry'[d] # None => entry'[d] = entry[d]
  BY <1>1, <1>2 DEF RelayT
<1>11. \A d \in Channels : entry'[d] # None => of'[entry'[d]] = d
  BY <1>1, <1>3, <1>10, PoolAssumption DEF RelayT
<1>12. RelayT'
  <2>1. \A q \in Runs : of'[q] = None <=> stage'[q] = "none"
    BY <1>1, <1>3, <1>9 DEF RelayT
  <2>2. \A q \in Runs : stage'[q] \in {"tuned", "on"} => source'[q] \in Source
    BY <1>1, <1>2, <1>9 DEF RelayT
  <2>3. \A q \in Runs, k \in Kinds : attempt'[<<q, k>>] # 0 => stage'[q] # "none"
    BY <1>1, <1>8, <1>9 DEF RelayT
  <2>4. ASSUME NEW q \in Runs PROVE CallsFit(q)'
    <3>1. \A j \in Kinds : q # r \/ j # "tune" => attempt'[<<q, j>>] = attempt[<<q, j>>]
      BY <1>8
    <3>2. q # r => stage'[q] = stage[q]
      BY <1>9
    <3>3. CallsFit(q) /\ CallsFit(r)
      BY <1>1 DEF RelayT
    <3> QED
      BY <1>2, <1>8, <1>9, <3>1, <3>2, <3>3 DEF CallsFit, Kinds
  <2> QED
    BY <1>1, <1>2, <1>3, <1>8, <1>9, <1>10, <1>11, <2>1, <2>2, <2>3, <2>4 DEF RelayT
<1> QED
  BY <1>1, <1>2, <1>8, <1>12 DEF PoolTypes, KeysT, redis, ReconT, reconciler, PastT

\* A failover that is asked for.
LEMMA SwitchCallTypes ==
  ASSUME PoolTypes, NEW r \in Runs, Switch(r) PROVE PoolTypes'
<1> DEFINE h == <<r, "switch", 1>>
           l == loc[h]
<1>1. /\ KeysT /\ RelayT /\ HandlersT /\ ReconT /\ PastT /\ "switch" \in Kinds
      /\ of[r] # None /\ h \in Handlers /\ h[2] = "switch" /\ of \in [Runs -> Channels \cup {None}]
  BY DEF PoolTypes, Kinds, RelayT, Switch, Handlers, Attempts
<1>2. /\ stage[r] = "on" /\ attempt[<<r, "switch">>] = 0 /\ Try(r, "switch", 1)
      /\ UNCHANGED <<redis, entry, stage, of, source, loc, reconciler, faults, owns>>
      /\ crossed' \in BOOLEAN
  BY <1>1 DEF Switch, PastT
<1>3. step[h] = "none"
  BY <1>1, <1>2 DEF HandlersT
<1>4. l \in LocRecs /\ loc' = [loc EXCEPT ![h] = l] /\ HasSet("switch", "none", l)
  BY <1>1, <1>2, <1>3 DEF HandlersT
<1>5. HasSet("switch", "begin", l)
  BY <1>4, NoLocalsTyped DEF HasSet
<1>6. \A q \in Runs : of[q] # None => of'[q] = of[q]
  BY <1>2
<1> HIDE DEF l
<1>7. /\ HandlersT' /\ attempt' \in [Runs \X Kinds -> 0..3]
      /\ attempt'[<<r, "switch">>] = 1
      /\ \A q \in Runs, j \in Kinds : q # r \/ j # "switch"
                                        => attempt'[<<q, j>>] = attempt[<<q, j>>]
  BY <1>1, <1>2, <1>4, <1>5, <1>6, TryTypes
<1>8. RelayT'
  <2>1. \A q \in Runs, j \in Kinds : attempt'[<<q, j>>] # 0 => stage'[q] # "none"
    BY <1>1, <1>2, <1>7 DEF RelayT
  <2>2. ASSUME NEW q \in Runs PROVE CallsFit(q)'
    <3>1. CallsFit(q) /\ CallsFit(r)
      BY <1>1 DEF RelayT
    <3> QED
      BY <1>2, <1>7, <3>1 DEF CallsFit, Kinds
  <2> QED
    BY <1>1, <1>2, <1>7, <2>1, <2>2 DEF RelayT
<1> QED
  BY <1>1, <1>2, <1>7, <1>8 DEF PoolTypes, KeysT, redis, ReconT, reconciler, PastT

\* A run that ends.
LEMMA RunEndsTypes ==
  ASSUME PoolTypes, NEW r \in Runs, RunEnds(r) PROVE PoolTypes'
<1> DEFINE h == <<r, "release", 1>>
           l == Asks(source[r])
<1>1. /\ KeysT /\ RelayT /\ HandlersT /\ ReconT /\ PastT /\ "release" \in Kinds
      /\ of[r] # None /\ h \in Handlers /\ h[2] = "release" /\ of \in [Runs -> Channels \cup {None}]
      /\ source[r] \in Source /\ CallsFit(r)
  BY DEF PoolTypes, Kinds, RelayT, RunEnds, Handlers, Attempts
<1>2. /\ stage[r] = "on" /\ stage' = [stage EXCEPT ![r] = "over"] /\ Try(r, "release", 1)
      /\ loc' = [loc EXCEPT ![h] = l]
      /\ UNCHANGED <<redis, entry, of, source, reconciler, faults, owns>>
      /\ crossed' \in BOOLEAN
  BY <1>1 DEF RunEnds, PastT
<1>3. attempt[<<r, "release">>] = 0
  BY <1>1, <1>2 DEF CallsFit
<1>4. l \in LocRecs /\ l.stream \in Streams /\ l.profile \in Profiles /\ l.next = 1
  <2>1. source[r].stream \in Streams /\ source[r].profile \in Profiles
    BY <1>1 DEF Source
  <2> QED
    BY <2>1, AsksTyped
<1> HIDE DEF l
<1>5. HasSet("release", "begin", l)
  BY <1>4 DEF HasSet
<1>6. \A q \in Runs : of[q] # None => of'[q] = of[q]
  BY <1>2
<1>7. /\ HandlersT' /\ attempt' \in [Runs \X Kinds -> 0..3]
      /\ attempt'[<<r, "release">>] = 1
      /\ \A q \in Runs, j \in Kinds : q # r \/ j # "release"
                                        => attempt'[<<q, j>>] = attempt[<<q, j>>]
  BY <1>1, <1>2, <1>3, <1>4, <1>5, <1>6, TryTypes
<1>8. RelayT'
  <2>0. stage' \in [Runs -> Stages] /\ stage'[r] = "over"
        /\ \A q \in Runs : q # r => stage'[q] = stage[q]
    BY <1>1, <1>2 DEF RelayT, Stages
  <2>1. \A q \in Runs, j \in Kinds : attempt'[<<q, j>>] # 0 => stage'[q] # "none"
    BY <1>1, <1>7, <2>0 DEF RelayT
  <2>2. ASSUME NEW q \in Runs PROVE CallsFit(q)'
    <3>1. CallsFit(q) /\ CallsFit(r)
      BY <1>1 DEF RelayT
    <3> QED
      BY <1>2, <1>7, <2>0, <3>1 DEF CallsFit, Kinds
  <2>3. \A q \in Runs : of'[q] = None <=> stage'[q] = "none"
    BY <1>1, <1>2, <2>0 DEF RelayT
  <2> QED
    BY <1>1, <1>2, <1>7, <2>0, <2>1, <2>2, <2>3 DEF RelayT
<1> QED
  BY <1>1, <1>2, <1>7, <1>8 DEF PoolTypes, KeysT, redis, ReconT, reconciler, PastT

\* A call whose first attempt fails.
LEMMA FirstFailsTypes ==
  ASSUME PoolTypes, NEW r \in Runs, NEW k \in Kinds, FirstFails(r, k) PROVE PoolTypes'
<1> DEFINE f == <<r, k, 1>>
           h == <<r, k, 2>>
           l == IF k = "release" THEN Asks(loc[f]) ELSE loc[h]
<1>1. /\ KeysT /\ RelayT /\ HandlersT /\ ReconT /\ PastT
      /\ f \in Handlers /\ h \in Handlers /\ f[1] = r /\ f[2] = k /\ h[1] = r /\ h[2] = k
      /\ f # h /\ <<r, k>> \in Runs \X Kinds /\ h[3] = 2 /\ f[3] = 1
  BY DEF PoolTypes, Handlers, Attempts
<1>2. PICK last \in {"dead"} \cup ({step[f]} \ {"answered"}) :
        /\ step' = [step EXCEPT ![f] = last, ![h] = "begin"]
        /\ loc' = [loc EXCEPT ![f] = IF last = "dead" THEN NoLocals ELSE @,
                              ![h] = IF k = "release" THEN Asks(loc[f]) ELSE @]
  BY DEF FirstFails
<1>3. /\ attempt[<<r, k>>] = 1 /\ attempt' = [attempt EXCEPT ![<<r, k>>] = 2]
      /\ faults' \in 0..MaxFaults
      /\ UNCHANGED <<redis, entry, stage, of, source, reconciler, history>>
  BY <1>1, PoolAssumption DEF FirstFails, ReconT
<1>4. /\ attempt' \in [Runs \X Kinds -> 0..3] /\ attempt'[<<r, k>>] = 2
      /\ \A q \in Runs, j \in Kinds : q # r \/ j # k => attempt'[<<q, j>>] = attempt[<<q, j>>]
  BY <1>1, <1>3 DEF RelayT
<1>5. RelayT'
  <2>1. \A q \in Runs, j \in Kinds : attempt'[<<q, j>>] # 0 => stage'[q] # "none"
    BY <1>1, <1>3, <1>4 DEF RelayT
  <2>2. ASSUME NEW q \in Runs PROVE CallsFit(q)'
    <3>1. CallsFit(q) /\ CallsFit(r)
      BY <1>1 DEF RelayT
    <3> QED
      BY <1>3, <1>4, <3>1 DEF CallsFit, Kinds
  <2> QED
    BY <1>1, <1>3, <1>4, <2>1, <2>2 DEF RelayT
<1>6. of[r] # None
  BY <1>1, <1>3 DEF RelayT
<1>7. k = "release" => loc[f].stream \in Streams /\ loc[f].profile \in Profiles
  BY <1>1, <1>3 DEF HandlersT, Attempts
<1>8. step[h] = "none" /\ loc[h] \in LocRecs /\ HasSet(k, "none", loc[h])
  BY <1>1, <1>3 DEF HandlersT
<1>9. /\ l \in LocRecs /\ HasSet(k, "begin", l)
      /\ k = "release" => l.stream \in Streams /\ l.profile \in Profiles
  <2>1. CASE k = "release"
    <3>1. l \in LocRecs /\ l.stream \in Streams /\ l.profile \in Profiles /\ l.next = 1
      BY <1>7, <2>1, AsksTyped
    <3> HIDE DEF l
    <3> QED
      BY <2>1, <3>1 DEF HasSet
  <2>2. CASE k # "release"
    <3>1. l = NoLocals
      BY <1>8, <2>2 DEF HasSet
    <3> HIDE DEF l
    <3> QED
      BY <2>2, <3>1, NoLocalsTyped DEF HasSet
  <2> QED
    BY <2>1, <2>2
<1>10. step'[h] = "begin" /\ loc'[h] = l /\ step' \in [Handlers -> StepNames]
       /\ loc' \in [Handlers -> LocRecs]
  <2>1. step \in [Handlers -> StepNames] /\ loc \in [Handlers -> LocRecs] /\ step[f] \in StepNames
    BY <1>1 DEF HandlersT
  <2>2. last \in StepNames
    BY <1>2, <2>1 DEF StepNames
  <2>3. step' \in [Handlers -> StepNames] /\ step'[h] = "begin"
    BY <1>1, <1>2, <2>1, <2>2 DEF StepNames
  <2>4. loc'[h] = l
    BY <1>1, <1>2, <2>1
  <2> HIDE DEF l
  <2>5. \A g \in Handlers : loc'[g] = IF g = h THEN l ELSE IF g = f
                              THEN (IF last = "dead" THEN NoLocals ELSE loc[f]) ELSE loc[g]
    BY <1>1, <1>2, <2>1, <2>4
  <2>6. \A g \in Handlers : loc'[g] \in LocRecs
    BY <1>1, <1>9, <2>1, <2>5, NoLocalsTyped
  <2>7. loc' \in [Handlers -> LocRecs]
    BY <1>1, <1>2, <2>1, <2>6
  <2> QED
    BY <2>3, <2>4, <2>7
<1>11. \A g \in Handlers : g # f /\ g # h => step'[g] = step[g] /\ loc'[g] = loc[g]
  BY <1>1, <1>2 DEF HandlersT
<1>12. step'[f] = last /\ loc'[f] = IF last = "dead" THEN NoLocals ELSE loc[f]
  BY <1>1, <1>2 DEF HandlersT
<1> HIDE DEF l
<1>13. ASSUME NEW g \in Handlers
       PROVE  /\ step'[g] # "none" => of'[g[1]] # None /\ g[3] <= attempt'[<<g[1], g[2]>>]
              /\ HasSet(g[2], step'[g], loc'[g])
  <2>1. CASE g = h
    BY <1>1, <1>3, <1>4, <1>6, <1>9, <1>10, <2>1
  <2>2. CASE g = f
    <3>1. HasSet(k, step[f], loc[f])
      BY <1>1 DEF HandlersT
    <3>2. HasSet(k, "dead", NoLocals)
      BY NoLocalsTyped DEF HasSet
    <3> QED
      BY <1>1, <1>2, <1>3, <1>4, <1>6, <1>12, <2>2, <3>1, <3>2
  <2>3. CASE g # h /\ g # f
    <3>1. (step[g] # "none" => of[g[1]] # None /\ g[3] <= attempt[<<g[1], g[2]>>])
          /\ HasSet(g[2], step[g], loc[g]) /\ g[1] \in Runs /\ g[2] \in Kinds
      BY <1>1, HandlerParts DEF HandlersT
    <3>2. attempt'[<<g[1], g[2]>>] = attempt[<<g[1], g[2]>>]
            \/ (attempt[<<g[1], g[2]>>] = 1 /\ attempt'[<<g[1], g[2]>>] = 2)
      BY <1>3, <1>4, <3>1
    <3>3. g[3] \in 1..2
      BY HandlerParts DEF Attempts
    <3> QED
      BY <1>3, <1>11, <2>3, <3>1, <3>2, <3>3
  <2> QED
    BY <2>1, <2>2, <2>3
<1>14. ASSUME NEW q \in Runs, NEW n \in Attempts, attempt'[<<q, "release">>] = n
       PROVE  loc'[<<q, "release", n>>].stream \in Streams
                /\ loc'[<<q, "release", n>>].profile \in Profiles
  <2>1. <<q, "release", n>> \in Handlers /\ "release" \in Kinds
    BY HandlerParts DEF Kinds
  <2>2. CASE <<q, "release", n>> = h
    BY <1>9, <1>10, <2>2
  <2>3. CASE q = r /\ k = "release"
    BY <1>4, <1>14, <2>2, <2>3
  <2>4. CASE q # r \/ k # "release"
    <3>1. attempt[<<q, "release">>] = n
      BY <1>4, <1>14, <2>1, <2>4
    <3> QED
      BY <1>1, <1>11, <2>1, <2>4, <3>1 DEF HandlersT
  <2> QED
    BY <2>2, <2>3, <2>4
<1>15. HandlersT'
  <2>1. \A g \in Handlers : HasSet(g[2], step'[g], loc'[g])
    BY <1>13
  <2>2. /\ \A g \in Handlers : step'[g] # "none" => of'[g[1]] # None
        /\ \A g \in Handlers : step'[g] # "none" => g[3] <= attempt'[<<g[1], g[2]>>]
    BY <1>13
  <2> QED
    BY <1>10, <1>14, <2>1, <2>2 DEF HandlersT
<1> QED
  BY <1>1, <1>3, <1>5, <1>15 DEF PoolTypes, KeysT, redis, ReconT, reconciler, PastT, history

\* A call that is over.
LEMMA OverTypes ==
  ASSUME PoolTypes, NEW r \in Runs, NEW k \in Kinds, Waiting(r, k), UNCHANGED of,
         attempt' = [attempt EXCEPT ![<<r, k>>] = 3],
         \/ UNCHANGED <<step, loc>>
         \/ /\ loc' = [loc EXCEPT ![Handler(r, k)] = NoLocals]
            /\ \/ step' = [step EXCEPT ![Handler(r, k)] = "dead"]
               \/ UNCHANGED step /\ step[Handler(r, k)] = "answered"
  PROVE  /\ HandlersT' /\ attempt' \in [Runs \X Kinds -> 0..3] /\ attempt'[<<r, k>>] = 3
         /\ \A q \in Runs, j \in Kinds : q # r \/ j # k => attempt'[<<q, j>>] = attempt[<<q, j>>]
<1> DEFINE h == Handler(r, k)
<1>1. /\ RelayT /\ HandlersT /\ h \in Handlers /\ h[1] = r /\ h[2] = k
      /\ <<r, k>> \in Runs \X Kinds /\ attempt[<<r, k>>] \in {1, 2}
      /\ step[h] \in StepNames /\ h[3] = attempt[<<r, k>>]
  BY DEF PoolTypes, Waiting, Handler, Handlers, Attempts, HandlersT
<1> HIDE DEF h
<1>2. /\ attempt' \in [Runs \X Kinds -> 0..3] /\ attempt'[<<r, k>>] = 3
      /\ \A q \in Runs, j \in Kinds : q # r \/ j # k => attempt'[<<q, j>>] = attempt[<<q, j>>]
  BY <1>1 DEF RelayT
<1>3. /\ step' \in [Handlers -> StepNames] /\ loc' \in [Handlers -> LocRecs]
      /\ \A g \in Handlers : g # h => step'[g] = step[g] /\ loc'[g] = loc[g]
      /\ \/ step'[h] = step[h] /\ loc'[h] = loc[h]
         \/ step'[h] \in {"answered", "dead"} /\ loc'[h] = NoLocals
  <2>1. CASE UNCHANGED <<step, loc>>
    BY <1>1, <2>1 DEF HandlersT
  <2>2. CASE /\ loc' = [loc EXCEPT ![h] = NoLocals]
             /\ \/ step' = [step EXCEPT ![h] = "dead"]
                \/ UNCHANGED step /\ step[h] = "answered"
    BY <1>1, <2>2, NoLocalsTyped DEF HandlersT, StepNames
  <2> QED
    BY <2>1, <2>2 DEF h
<1>4. HasSet(k, "answered", NoLocals) /\ HasSet(k, "dead", NoLocals)
  BY NoLocalsTyped DEF HasSet
<1>5. ASSUME NEW g \in Handlers
      PROVE  /\ step'[g] # "none" => of[g[1]] # None /\ g[3] <= attempt'[<<g[1], g[2]>>]
             /\ HasSet(g[2], step'[g], loc'[g])
  <2>1. (step[g] # "none" => of[g[1]] # None /\ g[3] <= attempt[<<g[1], g[2]>>])
        /\ HasSet(g[2], step[g], loc[g]) /\ g[1] \in Runs /\ g[2] \in Kinds
    BY <1>1, HandlerParts DEF HandlersT
  <2>2. g[3] \in 1..2 /\ 1..2 \subseteq 1..3
    BY HandlerParts DEF Attempts
  <2>3. CASE g = h
    <3>1. of[r] # None
      BY <1>1 DEF RelayT
    <3> QED
      BY <1>1, <1>2, <1>3, <1>4, <2>1, <2>2, <2>3, <3>1
  <2>4. CASE g # h
    <3>1. attempt'[<<g[1], g[2]>>] = attempt[<<g[1], g[2]>>] \/ attempt'[<<g[1], g[2]>>] = 3
      BY <1>2, <2>1
    <3> QED
      BY <1>3, <2>1, <2>2, <2>4, <3>1
  <2> QED
    BY <2>3, <2>4
<1>6. ASSUME NEW q \in Runs, NEW n \in Attempts, attempt'[<<q, "release">>] = n
      PROVE  loc'[<<q, "release", n>>].stream \in Streams
               /\ loc'[<<q, "release", n>>].profile \in Profiles
  <2>1. <<q, "release", n>> \in Handlers /\ "release" \in Kinds /\ n \in 1..2
    BY HandlerParts DEF Kinds, Attempts
  <2>2. q # r \/ k # "release"
    BY <1>2, <1>6, <2>1
  <2>3. attempt[<<q, "release">>] = n /\ <<q, "release", n>> # h
    BY <1>1, <1>2, <1>6, <2>1, <2>2
  <2> QED
    BY <1>1, <1>3, <2>1, <2>3 DEF HandlersT
<1>7. HandlersT'
  <2>1. \A g \in Handlers : HasSet(g[2], step'[g], loc'[g])
    BY <1>5
  <2>2. /\ \A g \in Handlers : step'[g] # "none" => of'[g[1]] # None
        /\ \A g \in Handlers : step'[g] # "none" => g[3] <= attempt'[<<g[1], g[2]>>]
    BY <1>5
  <2> QED
    BY <1>3, <1>6, <2>1, <2>2 DEF HandlersT
<1> QED
  BY <1>2, <1>7

\* A tune or a release that is over ends the run's stage.
LEMMA CallOverTypes ==
  ASSUME PoolTypes, NEW r \in Runs,
         NEW k \in Kinds, GivesUp(r, k) \/ (k = "tune" /\ Tuned(r))
                            \/ (k = "switch" /\ Switched(r)) \/ (k = "release" /\ Released(r))
  PROVE  PoolTypes'
<1> DEFINE h == Handler(r, k)
<1>1. /\ KeysT /\ RelayT /\ HandlersT /\ ReconT /\ PastT /\ CallsFit(r) /\ h \in Handlers
      /\ Waiting(r, k) /\ attempt[<<r, k>>] \in {1, 2} /\ step[h] \in StepNames
      /\ of[r] # None /\ h[1] = r /\ h[2] = k /\ loc[h] \in LocRecs /\ HasSet(k, step[h], loc[h])
  <2>1. Waiting(r, k)
    BY DEF GivesUp, Tuned, Switched, Released, Waiting, Attempts
  <2> QED
    BY <2>1 DEF PoolTypes, Waiting, Handler, Handlers, Attempts, HandlersT, RelayT
<1>2. /\ attempt' = [attempt EXCEPT ![<<r, k>>] = 3]
      /\ UNCHANGED <<redis, entry, of, reconciler, history>>
      /\ faults' \in 0..MaxFaults
  <2>1. /\ attempt' = [attempt EXCEPT ![<<r, k>>] = 3]
        /\ UNCHANGED <<redis, entry, of, reconciler, history>>
    BY <1>1 DEF GivesUp, Tuned, Switched, Released, Done
  <2>2. faults' = faults \/ (faults < MaxFaults /\ faults' = faults + 1)
    BY DEF GivesUp, Tuned, Switched, Released
  <2>3. faults' \in 0..MaxFaults
    BY <1>1, <2>2, PoolAssumption DEF ReconT
  <2> QED
    BY <2>1, <2>3
<1>3. \/ UNCHANGED <<step, loc>>
      \/ /\ loc' = [loc EXCEPT ![h] = NoLocals]
         /\ \/ step' = [step EXCEPT ![h] = "dead"]
            \/ UNCHANGED step /\ step[h] = "answered"
  BY <1>1 DEF GivesUp, Orphaned, Tuned, Switched, Released, Done, django
<1>4. /\ HandlersT' /\ attempt' \in [Runs \X Kinds -> 0..3] /\ attempt'[<<r, k>>] = 3
      /\ \A q \in Runs, j \in Kinds : q # r \/ j # k => attempt'[<<q, j>>] = attempt[<<q, j>>]
  BY <1>1, <1>2, <1>3, OverTypes
<1>5. source' \in [Runs -> Source \cup {None}] /\ \A q \in Runs : source[q] \in Source
        => source'[q] \in Source
  <2>1. ASSUME NEW x \in Source, source' = [source EXCEPT ![r] = x]
        PROVE  source' \in [Runs -> Source \cup {None}]
                 /\ \A q \in Runs : source[q] \in Source => source'[q] \in Source
    BY <1>1, <2>1 DEF RelayT
  <2>2. CASE UNCHANGED source
    BY <1>1, <2>2 DEF RelayT
  <2>3. ASSUME NEW i \in DOMAIN Candidates[of[r]] PROVE Candidates[of[r]][i] \in Source
    BY <1>1, PoolAssumption DEF RelayT
  <2>4. step[h] = "answered" /\ loc[h].profile # None => Answer(r, k) \in Source
    BY <1>1 DEF Answer, HasSet, LocRecs, Source
  <2> QED
    BY <1>1, <2>1, <2>2, <2>3, <2>4 DEF GivesUp, Tuned, Switched, Released
<1>6. \/ k = "switch" /\ UNCHANGED stage
      \/ k # "switch" /\ stage' = [stage EXCEPT ![r] = "gone"]
      \/ k = "tune" /\ stage' = [stage EXCEPT ![r] = "tuned"] /\ source'[r] \in Source
  <2>1. CASE k = "tune" /\ Tuned(r)
    <3>1. step[h] = "answered" /\ (loc[h].profile # None => Answer(r, k) \in Source)
      BY <1>1, <2>1 DEF Tuned, Answer, HasSet, LocRecs, Source
    <3> QED
      BY <1>1, <2>1, <3>1 DEF Tuned, RelayT
  <2> QED
    BY <1>1, <2>1 DEF GivesUp, Switched, Released
<1>7. /\ stage' \in [Runs -> Stages] /\ \A q \in Runs : q # r => stage'[q] = stage[q]
      /\ \/ k = "switch" /\ stage'[r] = stage[r]
         \/ k # "switch" /\ stage'[r] = "gone"
         \/ k = "tune" /\ stage'[r] = "tuned" /\ source'[r] \in Source
  BY <1>1, <1>6 DEF RelayT, Stages
<1>8. RelayT'
  <2>0. stage[r] # "none"
    BY <1>1 DEF RelayT
  <2>1. \A q \in Runs, j \in Kinds : attempt'[<<q, j>>] # 0 => stage'[q] # "none"
    BY <1>1, <1>4, <1>7, <2>0 DEF RelayT
  <2>2. ASSUME NEW q \in Runs PROVE CallsFit(q)'
    <3>1. CallsFit(q) /\ CallsFit(r)
      BY <1>1 DEF RelayT
    <3>2. CASE q # r
      <4>1. \A j \in Kinds : attempt'[<<q, j>>] = attempt[<<q, j>>]
        BY <1>4, <3>2
      <4> QED
        BY <1>7, <3>1, <3>2, <4>1 DEF CallsFit, Kinds
    <3>3. CASE q = r
      <4>1. \A j \in Kinds \ {k} : attempt'[<<r, j>>] = attempt[<<r, j>>]
        BY <1>4
      <4>2. CASE k = "tune"
        BY <1>1, <1>4, <1>7, <3>1, <3>3, <4>1, <4>2 DEF CallsFit, Kinds
      <4>3. CASE k = "switch"
        BY <1>1, <1>4, <1>7, <3>1, <3>3, <4>1, <4>3 DEF CallsFit, Kinds
      <4>4. CASE k = "release"
        BY <1>1, <1>4, <1>7, <3>1, <3>3, <4>1, <4>4 DEF CallsFit, Kinds
      <4> QED
        BY <4>2, <4>3, <4>4 DEF Kinds
    <3> QED
      BY <3>2, <3>3
  <2>3. \A q \in Runs : of'[q] = None <=> stage'[q] = "none"
    BY <1>1, <1>2, <1>7, <2>0 DEF RelayT
  <2>4. \A q \in Runs : stage'[q] \in {"tuned", "on"} => source'[q] \in Source
    BY <1>1, <1>5, <1>7 DEF RelayT
  <2>5. (\A c \in Channels : entry[c] # None => of[entry[c]] = c)'
    BY <1>1, <1>2 DEF RelayT
  <2> QED
    BY <1>1, <1>2, <1>4, <1>5, <1>7, <2>1, <2>2, <2>3, <2>4, <2>5 DEF RelayT
<1> QED
  BY <1>1, <1>2, <1>4, <1>8 DEF PoolTypes, KeysT, redis, ReconT, reconciler, PastT, history

\* What the relay does without a call.
LEMMA ListTypes ==
  ASSUME PoolTypes, NEW r \in Runs, StartFails(r) \/ Publish(r) \/ Unlist(r) PROVE PoolTypes'
<1>1. /\ KeysT /\ RelayT /\ HandlersT /\ ReconT /\ PastT /\ CallsFit(r)
      /\ UNCHANGED <<redis, of, source, attempt, django, reconciler, history>>
      /\ faults' \in 0..MaxFaults
  BY PoolAssumption DEF PoolTypes, RelayT, ReconT, StartFails, Publish, Unlist
<1>2. /\ stage' \in [Runs -> Stages] /\ \A q \in Runs : q # r => stage'[q] = stage[q]
      /\ stage'[r] = stage[r] \/ (stage[r] = "tuned" /\ stage'[r] \in {"gone", "on"})
      /\ of[r] \in Channels
  <2>1. stage \in [Runs -> Stages] /\ (of[r] = None <=> stage[r] = "none")
        /\ of[r] \in Channels \cup {None}
    BY <1>1 DEF RelayT
  <2> QED
    BY <2>1 DEF StartFails, Publish, Unlist, Stages
<1>3. /\ entry' \in [Channels -> Runs \cup {None}]
      /\ \A c \in Channels : entry'[c] # None => of[entry'[c]] = c
  BY <1>1, <1>2 DEF RelayT, StartFails, Publish, Unlist
<1>4. ASSUME NEW q \in Runs PROVE CallsFit(q)'
  <2>1. CallsFit(q) /\ CallsFit(r)
    BY <1>1 DEF RelayT
  <2> QED
    BY <1>1, <1>2, <2>1 DEF CallsFit
<1>5. RelayT'
  <2>1. \A q \in Runs : of'[q] = None <=> stage'[q] = "none"
    BY <1>1, <1>2 DEF RelayT
  <2>2. \A q \in Runs : stage'[q] \in {"tuned", "on"} => source'[q] \in Source
    BY <1>1, <1>2 DEF RelayT
  <2>3. \A q \in Runs, j \in Kinds : attempt'[<<q, j>>] # 0 => stage'[q] # "none"
    BY <1>1, <1>2 DEF RelayT
  <2> QED
    BY <1>1, <1>2, <1>3, <1>4, <2>1, <2>2, <2>3 DEF RelayT
<1>6. HandlersT'
  BY <1>1 DEF HandlersT, django
<1> QED
  BY <1>1, <1>5, <1>6 DEF PoolTypes, KeysT, redis, ReconT, reconciler, PastT, history

\* The reconciler.
LEMMA ReconcilerTypes ==
  ASSUME PoolTypes, ReconcilerStep \/ SkipRun PROVE PoolTypes'
<1>1. /\ KeysT /\ RelayT /\ HandlersT /\ ReconT /\ PastT
      /\ UNCHANGED <<channelStream, streamProfile, relay, django, history>> /\ faults' = faults
  BY DEF PoolTypes, ReconcilerStep, ReadVersions, ListChannels, SkipRun, Reconcile, redis
<1>2. RelayT' /\ HandlersT'
  BY <1>1 DEF RelayT, HandlersT, relay, django, CallsFit
<1>3. KeysT'
  <2>1. CASE Reconcile
    <3>1. ASSUME seen \in Listings, now \in Listings, NEW p \in Profiles
          PROVE  Floor(p) \in Nat /\ Ceiling(p) \in Nat
      <4>1. seen[p] \subseteq Channels /\ now[p] \subseteq Channels
        BY <3>1 DEF Listings
      <4>2. IsFiniteSet(seen[p] \cap now[p]) /\ IsFiniteSet(seen[p] \cup now[p])
        BY <4>1, PoolAssumption, FS_Subset
      <4> QED
        BY <4>2, FS_CardinalityType DEF Floor, Ceiling
    <3>2. ASSUME NEW p \in Profiles
          PROVE  (IF seen = None \/ p \in moved THEN count[p]
                  ELSE Clamp(count[p], Floor(p), Ceiling(p))) \in Nat
      <4>1. count[p] \in Nat /\ phase = "write" /\ now \in Listings
        BY <1>1, <2>1 DEF KeysT, Reconcile, ReconT
      <4>2. CASE seen = None
        BY <4>1, <4>2
      <4>3. CASE seen # None
        <5>1. Floor(p) \in Nat /\ Ceiling(p) \in Nat
          BY <1>1, <3>1, <4>1, <4>3 DEF ReconT
        <5> QED
          BY <4>1, <5>1 DEF Clamp
      <4> QED
        BY <4>2, <4>3
    <3>3. Reconciled \in [Profiles -> Nat]
      BY <3>2 DEF Reconciled
    <3> QED
      BY <1>1, <2>1, <3>3 DEF Reconcile, KeysT
  <2>2. CASE UNCHANGED <<count, moved>> /\ moving' \in {moving, {}}
    BY <1>1, <2>2 DEF KeysT
  <2> QED
    BY <2>1, <2>2 DEF ReconcilerStep, ReadVersions, ListChannels, SkipRun, redis
<1>4. Windows \subseteq Runs \X Kinds
  BY DEF Windows, Kinds
<1>5. [p \in Profiles |-> Holders(p)] \in Listings
  BY DEF Holders, Listings
<1>6. ReconT'
  BY <1>1, <1>4, <1>5, PoolAssumption DEF ReconT, ReconcilerStep, ReadVersions, ListChannels,
     SkipRun, Reconcile,
       Listings
<1> QED
  BY <1>1, <1>2, <1>3, <1>6 DEF PoolTypes, PastT, history

\* Nothing is under way when the relay starts.
LEMMA PoolTypesInit == Init => PoolTypes
<1> SUFFICES ASSUME Init PROVE PoolTypes
  OBVIOUS
<1>1. KeysT
  BY DEF Init, KeysT
<1>2. RelayT
  BY DEF Init, RelayT, CallsFit, Stages, Kinds
<1>3. \A k \in Kinds : HasSet(k, "none", NoLocals)
  BY NoLocalsTyped DEF HasSet
<1>4. HandlersT
  <2>1. step \in [Handlers -> StepNames] /\ \A h \in Handlers : step[h] = "none"
    BY DEF Init, StepNames
  <2>2. loc \in [Handlers -> LocRecs] /\ \A h \in Handlers : loc[h] = NoLocals
    BY NoLocalsTyped DEF Init
  <2>3. \A h \in Handlers : HasSet(h[2], step[h], loc[h])
    BY <1>3, <2>1, <2>2, HandlerParts
  <2>4. \A r \in Runs : attempt[<<r, "release">>] = 0
    BY DEF Init, Kinds
  <2> QED
    BY <2>1, <2>2, <2>3, <2>4 DEF HandlersT, Attempts
<1>5. ReconT /\ PastT
  <2>1. PastT /\ phase = "idle" /\ seen = None /\ now = None /\ open = {} /\ faults = 0
    BY DEF Init, PastT
  <2>2. 0 \in 0..MaxFaults
    BY PoolAssumption
  <2> QED
    BY <2>1, <2>2 DEF ReconT
<1> QED
  BY <1>1, <1>2, <1>4, <1>5 DEF PoolTypes

\* Every step keeps the types.
LEMMA PoolTypesStep == PoolTypes /\ [Next]_vars => PoolTypes'
<1> SUFFICES ASSUME PoolTypes, [Next]_vars PROVE PoolTypes'
  OBVIOUS
<1>1. ASSUME NEW r \in Runs, NEW c \in Channels, Start(r, c) PROVE PoolTypes'
  BY <1>1, StartTypes
<1>2. ASSUME NEW r \in Runs,
             RelayStep(r) \/ StartFails(r) \/ Switch(r) \/ Unlist(r) \/ RunEnds(r)
      PROVE  PoolTypes'
  <2>1. "tune" \in Kinds /\ "switch" \in Kinds /\ "release" \in Kinds
    BY DEF Kinds
  <2> QED
    BY <1>2, <2>1, CallOverTypes, ListTypes, SwitchCallTypes, RunEndsTypes DEF RelayStep
<1>3. ASSUME NEW r \in Runs, NEW k \in Kinds, FirstFails(r, k) \/ GivesUp(r, k) PROVE PoolTypes'
  BY <1>3, CallOverTypes, FirstFailsTypes
<1>4. ASSUME NEW h \in Handlers, HandlerStep(h) PROVE PoolTypes'
  BY <1>4, TuneTypes, SwitchTypes, ReleaseTypes DEF HandlerStep
<1>5. CASE ReconcilerStep \/ SkipRun
  BY <1>5, ReconcilerTypes
<1>6. CASE UNCHANGED vars
  BY <1>6 DEF PoolTypes, KeysT, RelayT, HandlersT, ReconT, PastT, CallsFit, vars, redis, relay,
     django, reconciler, history
<1> QED
  BY <1>1, <1>2, <1>3, <1>4, <1>5, <1>6 DEF Next

\* Always, for any number of runs, channels, profiles and failures, the
\* variables of the pool and of the calls are of their types.
THEOREM PoolTyped == Spec => []TypeOK
<1>1. PoolTypes => TypeOK
  BY DEF PoolTypes, KeysT, RelayT, HandlersT, ReconT, PastT, TypeOK, Stages, StepNames, LocRecs,
     Listings
<1> QED
  BY <1>1, PoolTypesInit, PoolTypesStep, PTL DEF Spec

----------------------------------------------------------------------------
(* The accounts.                                                           *)

\* The premise of UncrossedCallsAccount.
Exact == faults = 0 /\ ~crossed /\ seen = None

StreamsOf(c) == {Candidates[c][i].stream : i \in DOMAIN Candidates[c]}

\* No stream is a candidate of two channels: stream_profile is keyed by the
\* stream alone, and channels that share one overwrite each other's assignment.
OwnStreams ==
  \A c \in Channels : \A d \in Channels \ {c} : StreamsOf(c) \cap StreamsOf(d) = {}

\* A run that may have a slot.
Active(r) == stage[r] \in {"tuning", "tuned", "on", "over"}

\* Its channel's assignment names the slot it has reserved.
Assigned(r) == channelStream[of[r]]
Held(r) ==
  /\ Assigned(r) \in StreamsOf(of[r]) /\ owns[r] \in Profiles
  /\ streamProfile[Assigned(r)] = owns[r]
Bare(r) == Assigned(r) = None /\ owns[r] = None

First(r, kind) == <<r, kind, 1>>

TuneFits(r) ==
  LET h == First(r, "tune")
      l == loc[h]
  IN  /\ step[h] \in {"begin", "walk", "setChannel", "setStream", "answered"}
      /\ step[h] \in {"begin", "walk"} => Bare(r)
      /\ step[h] = "setChannel"
           => Assigned(r) = None /\ owns[r] = l.profile /\ l.stream \in StreamsOf(of[r])
      /\ step[h] = "setStream"
           => Assigned(r) = l.stream /\ owns[r] = l.profile /\ l.stream \in StreamsOf(of[r])
      /\ step[h] = "answered" => IF l.profile = None THEN Bare(r) ELSE Held(r)

SwitchFits(r) ==
  LET h == First(r, "switch")
  IN  step[h] = "move"
        => loc[h].key = Assigned(r) /\ loc[h].old = owns[r] /\ loc[h].profile # owns[r]

ReleaseFits(r) ==
  LET h == First(r, "release")
      l == loc[h]
  IN  /\ step[h] \in {"begin", "delChannel", "getStream", "delStream", "give", "answered"}
      /\ step[h] \in {"begin", "delChannel"} => Held(r)
      /\ step[h] = "delChannel" => l.key = Assigned(r)
      /\ step[h] \in {"getStream", "delStream", "give"}
           => Assigned(r) = None /\ owns[r] \in Profiles
      /\ step[h] \in {"getStream", "delStream"} => l.key \in StreamsOf(of[r])
      /\ step[h] = "getStream" => streamProfile[l.key] = owns[r]
      /\ step[h] \in {"delStream", "give"} => l.old = owns[r]
      /\ step[h] = "answered" => Bare(r)

RunFits(r) ==
  /\ stage[r] \in {"none", "gone"} => owns[r] = None
  /\ stage[r] = "tuning" => TuneFits(r)
  /\ stage[r] \in {"tuned", "on"} => Held(r)
  /\ stage[r] = "on" => SwitchFits(r)
  /\ stage[r] = "over" => ReleaseFits(r)

\* No call was repeated, and none outlives its run.
OneAttempt ==
  /\ \A r \in Runs, k \in Kinds : attempt[<<r, k>>] \in {0, 1, 3}
  /\ \A h \in Handlers : step[h] # "none" => h[3] = 1 /\ step[h] # "dead"
  /\ \A r \in Runs, k \in Kinds : attempt[<<r, k>>] = 3 => step[First(r, k)] = "answered"
FirstCalls == OneAttempt /\ \A r \in Runs : attempt[<<r, "switch">>] = 1 => stage[r] = "on"

OneRun ==
  \A q \in Runs, r \in Runs : Active(q) /\ Active(r) /\ of[q] = of[r] => q = r

IdleChannels ==
  \A c \in Channels : (\A r \in Runs : of[r] = c => ~Active(r)) => channelStream[c] = None

Slots(p) == {r \in Runs : owns[r] = p}
Counted == \A p \in Profiles : count[p] = Cardinality(Slots(p))

AccountsFit ==
  FirstCalls /\ OneRun /\ IdleChannels /\ (\A r \in Runs : RunFits(r)) /\ Counted
Accounts == Exact => AccountsFit

\* The streams of a channel are streams.
LEMMA StreamsOfAreStreams ==
  ASSUME NEW c \in Channels PROVE StreamsOf(c) \subseteq Streams /\ None \notin StreamsOf(c)
<1>1. ASSUME NEW i \in DOMAIN Candidates[c] PROVE Candidates[c][i].stream \in Streams
  <2>1. Candidates[c][i] \in Source
    BY PoolAssumption
  <2> QED
    BY <2>1 DEF Source
<1> QED
  BY <1>1, PoolAssumption DEF StreamsOf

\* A handler that is at work is of the first attempt of a call under way.
LEMMA AtWork ==
  ASSUME PoolTypes, OneAttempt, NEW h \in Handlers, step[h] \notin {"none", "answered", "dead"}
  PROVE  /\ h[1] \in Runs /\ h[2] \in Kinds /\ h = First(h[1], h[2]) /\ of[h[1]] \in Channels
         /\ attempt[<<h[1], h[2]>>] = 1
         /\ h[2] = "tune" => stage[h[1]] = "tuning"
         /\ h[2] = "release" => stage[h[1]] = "over"
<1>1. h[1] \in Runs /\ h[2] \in Kinds /\ h[3] = 1 /\ h = First(h[1], h[2])
  BY HandlerParts DEF OneAttempt, First
<1>2. attempt[<<h[1], h[2]>>] \in {0, 1, 3} /\ attempt[<<h[1], h[2]>>] # 3
  BY <1>1 DEF OneAttempt
<1>3. of[h[1]] \in Channels /\ h[3] <= attempt[<<h[1], h[2]>>] /\ CallsFit(h[1])
  BY <1>1 DEF PoolTypes, HandlersT, RelayT
<1>4. attempt[<<h[1], h[2]>>] = 1
  BY <1>1, <1>2, <1>3
<1> QED
  BY <1>1, <1>3, <1>4 DEF CallsFit

\* A step of one run leaves the others' accounts alone.
LEMMA OthersFit ==
  ASSUME PoolTypes, AccountsFit, OwnStreams, NEW r \in Runs, of[r] \in Channels, Active(r),
         UNCHANGED of,
         \A q \in Runs \ {r} :
           /\ stage'[q] = stage[q] /\ owns'[q] = owns[q]
           /\ \A k \in Kinds : step'[First(q, k)] = step[First(q, k)]
                                 /\ loc'[First(q, k)] = loc[First(q, k)],
         \A c \in Channels \ {of[r]} : channelStream'[c] = channelStream[c],
         \A s \in Streams \ StreamsOf(of[r]) : streamProfile'[s] = streamProfile[s],
         Active(r)' \/ channelStream'[of[r]] = None
  PROVE  OneRun' /\ IdleChannels' /\ \A q \in Runs \ {r} : RunFits(q)'
<1>1. \A q \in Runs \ {r} : Active(q)' <=> Active(q)
  BY DEF Active
<1>2. OneRun'
  BY <1>1 DEF AccountsFit, OneRun
<1>3. IdleChannels'
  <2> SUFFICES ASSUME NEW c \in Channels, \A q \in Runs : of[q] = c => ~Active(q)'
               PROVE  channelStream'[c] = None
    BY DEF IdleChannels
  <2>1. CASE c = of[r]
    BY <2>1
  <2>2. CASE c # of[r]
    <3>1. \A q \in Runs : of[q] = c => ~Active(q)
      BY <1>1, <2>2
    <3> QED
      BY <2>2, <3>1 DEF AccountsFit, IdleChannels
  <2> QED
    BY <2>1, <2>2
<1>4. ASSUME NEW q \in Runs \ {r} PROVE RunFits(q)'
  <2>1. /\ stage'[q] = stage[q] /\ owns'[q] = owns[q] /\ of'[q] = of[q] /\ RunFits(q)
        /\ stage[q] \in Stages /\ (of[q] = None <=> stage[q] = "none")
        /\ of[q] \in Channels \cup {None}
    BY DEF AccountsFit, PoolTypes, RelayT
  <2>2. CASE ~Active(q)
    BY <2>1, <2>2 DEF RunFits, Active, Stages
  <2>3. CASE Active(q)
    <3>1. of[q] # of[r] /\ of[q] \in Channels
      BY <2>1, <2>3 DEF AccountsFit, OneRun, Active
    <3>2. \A s \in StreamsOf(of[q]) : streamProfile'[s] = streamProfile[s]
      <4>1. StreamsOf(of[q]) \cap StreamsOf(of[r]) = {} /\ StreamsOf(of[q]) \subseteq Streams
        BY <3>1, StreamsOfAreStreams DEF OwnStreams
      <4> QED
        BY <4>1
    <3>3. Assigned(q)' = Assigned(q)
      BY <2>1, <3>1 DEF Assigned
    <3>4. /\ \A k \in {"tune", "switch", "release"} :
               step'[First(q, k)] = step[First(q, k)] /\ loc'[First(q, k)] = loc[First(q, k)]
          /\ \A k \in {"tune", "switch", "release"} : First(q, k)' = First(q, k)
      BY DEF Kinds, First
    <3>5. (Held(q) => Held(q)') /\ (Bare(q) => Bare(q)')
      BY <2>1, <3>2, <3>3 DEF Held, Bare
    <3>6. TuneFits(q) => TuneFits(q)'
      BY <2>1, <3>3, <3>4, <3>5 DEF TuneFits
    <3>7. SwitchFits(q) => SwitchFits(q)'
      BY <2>1, <3>3, <3>4 DEF SwitchFits
    <3>8. ReleaseFits(q) => ReleaseFits(q)'
      BY <2>1, <3>2, <3>3, <3>4, <3>5 DEF ReleaseFits
    <3> QED
      BY <2>1, <3>5, <3>6, <3>7, <3>8 DEF RunFits
  <2> QED
    BY <2>2, <2>3
<1> QED
  BY <1>2, <1>3, <1>4

\* A step of a handler leaves the calls of the others alone.
LEMMA HandlerFrame ==
  ASSUME PoolTypes, OneAttempt, NEW h \in Handlers, step[h] \notin {"none", "answered", "dead"},
         UNCHANGED relay, NEW s, s # "dead", step' = [step EXCEPT ![h] = s],
         NEW m, loc' = [loc EXCEPT ![h] = m]
  PROVE  /\ OneAttempt' /\ UNCHANGED <<of, stage, attempt>> /\ step'[h] = s /\ loc'[h] = m
         /\ \A q \in Runs \ {h[1]}, k \in Kinds : step'[First(q, k)] = step[First(q, k)]
                                                    /\ loc'[First(q, k)] = loc[First(q, k)]
<1>1. step \in [Handlers -> StepNames] /\ loc \in [Handlers -> LocRecs]
      /\ UNCHANGED <<of, stage, attempt>>
  BY DEF PoolTypes, HandlersT, relay
<1>2. /\ step'[h] = s /\ loc'[h] = m
      /\ \A g \in Handlers : g # h => step'[g] = step[g] /\ loc'[g] = loc[g]
  BY <1>1
<1>3. h[1] \in Runs /\ h[2] \in Kinds /\ h = First(h[1], h[2]) /\ attempt[<<h[1], h[2]>>] = 1
      /\ h[3] = 1
  BY AtWork DEF OneAttempt
<1>4. \A q \in Runs, k \in Kinds : /\ First(q, k) \in Handlers
                                   /\ First(q, k) = h => q = h[1] /\ k = h[2]
  BY <1>3 DEF First, Handlers, Attempts
<1>5. OneAttempt'
  <2>1. \A g \in Handlers : step'[g] # "none" => g[3] = 1 /\ step'[g] # "dead"
    BY <1>2, <1>3 DEF OneAttempt
  <2>2. ASSUME NEW q \in Runs, NEW k \in Kinds, attempt[<<q, k>>] = 3
        PROVE  step'[First(q, k)] = "answered"
    <3>1. First(q, k) # h
      BY <1>3, <1>4, <2>2
    <3> QED
      BY <1>2, <1>4, <2>2, <3>1 DEF OneAttempt
  <2> QED
    BY <1>1, <2>1, <2>2 DEF OneAttempt, First
<1>6. \A q \in Runs \ {h[1]}, k \in Kinds : step'[First(q, k)] = step[First(q, k)]
                                              /\ loc'[First(q, k)] = loc[First(q, k)]
  BY <1>2, <1>4
<1> QED
  BY <1>1, <1>2, <1>5, <1>6

\* While no call begins or ends, only first calls have been made.
LEMMA FirstCallsFrame ==
  ASSUME FirstCalls, OneAttempt', UNCHANGED <<attempt, stage>> PROVE FirstCalls'
BY DEF FirstCalls

\* A call that starts, or is over once it is answered.
LEMMA CallFrame ==
  ASSUME PoolTypes, OneAttempt, NEW r \in Runs, NEW k \in Kinds, NEW n \in {1, 3},
         attempt' = [attempt EXCEPT ![<<r, k>>] = n],
         \/ n = 1 /\ step' = [step EXCEPT ![First(r, k)] = "begin"]
         \/ n = 3 /\ UNCHANGED step /\ step[First(r, k)] = "answered",
         \A g \in Handlers : g # First(r, k) => loc'[g] = loc[g]
  PROVE  /\ OneAttempt' /\ attempt'[<<r, k>>] = n
         /\ step'[First(r, k)] = IF n = 1 THEN "begin" ELSE "answered"
         /\ \A j \in Kinds \ {k} : step'[First(r, j)] = step[First(r, j)]
                                     /\ loc'[First(r, j)] = loc[First(r, j)]
         /\ \A q \in Runs \ {r}, j \in Kinds : step'[First(q, j)] = step[First(q, j)]
                                                  /\ loc'[First(q, j)] = loc[First(q, j)]
         /\ \A q \in Runs, j \in Kinds : q # r \/ j # k => attempt'[<<q, j>>] = attempt[<<q, j>>]
<1>1. RelayT /\ HandlersT
  BY DEF PoolTypes
<1>2. \A q \in Runs, j \in Kinds : First(q, j) \in Handlers
  BY DEF First, Handlers, Attempts
<1>3. /\ \A g \in Handlers : g # First(r, k) => step'[g] = step[g]
      /\ step'[First(r, k)] = IF n = 1 THEN "begin" ELSE "answered"
  BY <1>1, <1>2 DEF HandlersT
<1>4. \A q \in Runs, j \in Kinds : q # r \/ j # k => First(q, j) # First(r, k)
  BY DEF First
<1>5. attempt'[<<r, k>>] = n
      /\ \A q \in Runs, j \in Kinds : q # r \/ j # k => attempt'[<<q, j>>] = attempt[<<q, j>>]
  BY <1>1 DEF RelayT
<1>6. OneAttempt'
  <2>1. \A q \in Runs, j \in Kinds : attempt'[<<q, j>>] \in {0, 1, 3}
    BY <1>5 DEF OneAttempt
  <2>2. \A g \in Handlers : step'[g] # "none" => g[3] = 1 /\ step'[g] # "dead"
    BY <1>3 DEF OneAttempt, First
  <2>3. \A q \in Runs, j \in Kinds : attempt'[<<q, j>>] = 3 => step'[First(q, j)] = "answered"
    BY <1>2, <1>3, <1>4, <1>5 DEF OneAttempt
  <2> QED
    BY <2>1, <2>2, <2>3 DEF OneAttempt, First
<1> QED
  BY <1>2, <1>3, <1>4, <1>5, <1>6

\* The slots of a profile, when a run's is another one.
LEMMA SlotsMove ==
  ASSUME PastT, NEW r \in Runs, NEW x \in Profiles \cup {None}, x # owns[r],
         owns' = [owns EXCEPT ![r] = x], NEW p \in Profiles
  PROVE  /\ Cardinality(Slots(p)) \in Nat
         /\ p = x => Cardinality(Slots(p)') = Cardinality(Slots(p)) + 1
         /\ p = owns[r] => /\ Cardinality(Slots(p)) >= 1
                           /\ Cardinality(Slots(p)') = Cardinality(Slots(p)) - 1
         /\ p \notin {x, owns[r]} => Cardinality(Slots(p)') = Cardinality(Slots(p))
<1>1. IsFiniteSet(Runs)
  BY FS_Interval, PoolAssumption DEF Runs
<1>2. IsFiniteSet(Slots(p)) /\ Cardinality(Slots(p)) \in Nat
  BY <1>1, FS_Subset, FS_CardinalityType DEF Slots
<1>3. owns'[r] = x /\ \A q \in Runs : q # r => owns'[q] = owns[q]
  BY DEF PastT
<1>4. CASE p = x
  <2>1. Slots(p)' = Slots(p) \cup {r} /\ r \notin Slots(p)
    BY <1>3, <1>4 DEF Slots
  <2> QED
    BY <1>2, <1>4, <2>1, FS_AddElement
<1>5. CASE p = owns[r]
  <2>1. Slots(p)' = Slots(p) \ {r} /\ r \in Slots(p)
    BY <1>3, <1>5 DEF Slots
  <2>2. Cardinality(Slots(p)') = Cardinality(Slots(p)) - 1 /\ Cardinality(Slots(p)') \in Nat
    BY <1>2, <2>1, FS_RemoveElement, FS_CardinalityType
  <2> QED
    BY <1>2, <1>5, <2>2
<1>6. CASE p \notin {x, owns[r]}
  <2>1. Slots(p)' = Slots(p)
    BY <1>3, <1>6 DEF Slots
  <2> QED
    BY <1>2, <1>6, <2>1
<1> QED
  BY <1>4, <1>5, <1>6

\* A slot that is reserved, given back or exchanged for another is counted.
LEMMA ReserveCounts ==
  ASSUME KeysT, PastT, Counted, NEW r \in Runs, owns[r] = None, NEW p \in Profiles,
         Write(Take(count, p)), owns' = [owns EXCEPT ![r] = p]
  PROVE  Counted'
<1>1. count' = [count EXCEPT ![p] = @ + 1] /\ p # None
  BY PoolAssumption DEF Write, Take
<1> SUFFICES ASSUME NEW q \in Profiles PROVE count'[q] = Cardinality(Slots(q)')
  BY DEF Counted
<1>2. count[q] = Cardinality(Slots(q)) /\ q # owns[r] /\ count[q] \in Nat
  BY PoolAssumption DEF Counted, KeysT
<1>3. CASE q = p
  BY <1>1, <1>2, <1>3, SlotsMove DEF KeysT
<1>4. CASE q # p
  BY <1>1, <1>2, <1>4, SlotsMove DEF KeysT
<1> QED
  BY <1>3, <1>4

\* A slot that is given back is counted off.
LEMMA GiveCounts ==
  ASSUME KeysT, PastT, Counted, NEW r \in Runs, owns[r] \in Profiles,
         Write(GiveBack(count, owns[r])), owns' = [owns EXCEPT ![r] = None]
  PROVE  Counted'
<1>1. count' = [count EXCEPT ![owns[r]] = IF @ > 0 THEN @ - 1 ELSE @] /\ owns[r] # None
  BY PoolAssumption DEF Write, GiveBack
<1> SUFFICES ASSUME NEW q \in Profiles PROVE count'[q] = Cardinality(Slots(q)')
  BY DEF Counted
<1>2. count[q] = Cardinality(Slots(q)) /\ q # None /\ count[q] \in Nat
  BY PoolAssumption DEF Counted, KeysT
<1>3. CASE q = owns[r]
  <2>1. Cardinality(Slots(q)) >= 1 /\ Cardinality(Slots(q)') = Cardinality(Slots(q)) - 1
    BY <1>1, <1>3, SlotsMove
  <2> QED
    BY <1>1, <1>2, <1>3, <2>1 DEF KeysT
<1>4. CASE q # owns[r]
  BY <1>1, <1>2, <1>4, SlotsMove DEF KeysT
<1> QED
  BY <1>3, <1>4

\* A slot that moves is counted off where it was and on where it comes to be.
LEMMA MoveCounts ==
  ASSUME KeysT, PastT, Counted, NEW r \in Runs, owns[r] \in Profiles, NEW p \in Profiles,
         p # owns[r], Write(Take(GiveBack(count, owns[r]), p)), owns' = [owns EXCEPT ![r] = p]
  PROVE  Counted'
<1> DEFINE o == owns[r]
           less == GiveBack(count, o)
<1>1. less \in [Profiles -> Nat] /\ less[o] = (IF count[o] > 0 THEN count[o] - 1 ELSE count[o])
      /\ \A q \in Profiles : q # o => less[q] = count[q]
  BY DEF GiveBack, KeysT
<1> HIDE DEF less
<1>2. count' = [less EXCEPT ![p] = @ + 1]
  BY DEF Write, Take, less
<1> SUFFICES ASSUME NEW q \in Profiles PROVE count'[q] = Cardinality(Slots(q)')
  BY DEF Counted
<1>3. count[q] = Cardinality(Slots(q)) /\ count[q] \in Nat
  BY DEF Counted, KeysT
<1>4. CASE q = o
  <2>1. Cardinality(Slots(q)) >= 1 /\ Cardinality(Slots(q)') = Cardinality(Slots(q)) - 1
    BY <1>4, SlotsMove
  <2> QED
    BY <1>1, <1>2, <1>3, <1>4, <2>1
<1>5. CASE q = p
  <2>1. Cardinality(Slots(q)') = Cardinality(Slots(q)) + 1
    BY <1>5, SlotsMove
  <2> QED
    BY <1>1, <1>2, <1>3, <1>5, <2>1
<1>6. CASE q \notin {o, p}
  <2>1. Cardinality(Slots(q)') = Cardinality(Slots(q))
    BY <1>6, SlotsMove
  <2> QED
    BY <1>1, <1>2, <1>3, <1>6, <2>1
<1> QED
  BY <1>4, <1>5, <1>6

\* Slots that stay are counted.
LEMMA StillCounted ==
  ASSUME Counted, UNCHANGED <<count, owns>> PROVE Counted'
BY DEF Counted, Slots

\* A handler of a tune keeps the accounts.
LEMMA TuneAccounts ==
  ASSUME PoolTypes, PoolTypes', AccountsFit, OwnStreams, NEW h \in Handlers, h[2] = "tune",
         step[h] \notin {"none", "answered", "dead"}, TuneStep(h)
  PROVE  AccountsFit'
<1> DEFINE r == h[1]
           c == of[r]
           l == loc[h]
<1>1. /\ r \in Runs /\ c \in Channels /\ h = First(r, "tune") /\ stage[r] = "tuning" /\ Active(r)
      /\ TuneFits(r) /\ HasSet("tune", step[h], l) /\ KeysT /\ PastT /\ FirstCalls /\ Counted
      /\ owns \in [Runs -> Profiles \cup {None}] /\ l \in LocRecs
  BY AtWork DEF AccountsFit, FirstCalls, RunFits, Active, PoolTypes, HandlersT, PastT
<1> HIDE DEF l
<1>2. /\ step[h] \in {"begin", "walk", "setChannel", "setStream"}
      /\ step[h] \in {"begin", "walk"} => Bare(r)
      /\ step[h] = "setChannel"
           => Assigned(r) = None /\ owns[r] = l.profile /\ l.stream \in StreamsOf(c)
      /\ step[h] = "setStream"
           => Assigned(r) = l.stream /\ owns[r] = l.profile /\ l.stream \in StreamsOf(c)
  BY <1>1 DEF TuneFits, l
\* A step to s with m that the run's accounts allow.
<1>3. ASSUME NEW s \in {"walk", "setChannel", "setStream", "answered"}, NEW m,
             step' = [step EXCEPT ![h] = s], loc' = [loc EXCEPT ![h] = m], UNCHANGED relay,
             \A q \in Runs \ {r} : owns'[q] = owns[q],
             \A d \in Channels \ {c} : channelStream'[d] = channelStream[d],
             \A t \in Streams \ StreamsOf(c) : streamProfile'[t] = streamProfile[t],
             Counted',
             s = "walk" => Bare(r)',
             s = "setChannel"
               => Assigned(r)' = None /\ owns'[r] = m.profile /\ m.stream \in StreamsOf(c),
             s = "setStream"
               => Assigned(r)' = m.stream /\ owns'[r] = m.profile /\ m.stream \in StreamsOf(c),
             s = "answered" => IF m.profile = None THEN Bare(r)' ELSE Held(r)'
      PROVE  AccountsFit'
  <2>0. OneAttempt
    BY <1>1 DEF FirstCalls
  <2>1. /\ OneAttempt' /\ UNCHANGED <<of, stage, attempt>> /\ step'[h] = s /\ loc'[h] = m
        /\ \A q \in Runs \ {r}, k \in Kinds : step'[First(q, k)] = step[First(q, k)]
                                                /\ loc'[First(q, k)] = loc[First(q, k)]
    BY <1>1, <1>3, <2>0, HandlerFrame
  <2>2. OneRun' /\ IdleChannels' /\ \A q \in Runs \ {r} : RunFits(q)'
    BY <1>1, <1>3, <2>1, OthersFit DEF Active
  <2>3. TuneFits(r)'
    BY <1>1, <1>3, <2>1 DEF TuneFits, First
  <2>4. RunFits(r)'
    BY <1>1, <2>1, <2>3 DEF RunFits
  <2> QED
    BY <1>1, <1>3, <2>1, <2>2, <2>4, FirstCallsFrame DEF AccountsFit
<1>4. CASE GetAssignment(h)
  <2> DEFINE m == [l EXCEPT !.stream = channelStream[c]]
  <2>1. /\ Bare(r) /\ step' = [step EXCEPT ![h] = "walk"] /\ loc' = [loc EXCEPT ![h] = m]
        /\ UNCHANGED <<redis, relay, reconciler, faults, history>>
    BY <1>2, <1>4 DEF GetAssignment, At, Goes, Keep, l, Bare, Assigned
  <2>2. Bare(r)' /\ UNCHANGED <<channelStream, streamProfile, count, owns, of>>
    BY <2>1 DEF Bare, Assigned, redis, history, relay
  <2>3. Counted'
    BY <1>1, <2>2, StillCounted
  <2> HIDE DEF m
  <2> QED
    BY <1>3, <2>1, <2>2, <2>3
<1>5. CASE AskRelay(h) \/ Reuse(h) \/ ReadStale(h) \/ GiveStale(h) \/ ClearStale(h)
  BY <1>2, <1>5 DEF AskRelay, Reuse, ReadStale, GiveStale, ClearStale, At
<1>6. CASE Reserve(h)
  <2> DEFINE src == Candidates[c][l.next]
  <2>1. /\ src \in Source /\ src.profile \in Profiles /\ src.stream \in StreamsOf(c) /\ Bare(r)
        /\ step[h] = "walk"
    <3>1. l.next \in 1..Len(Candidates[c]) /\ Candidates[c] \in Seq(Source) /\ step[h] = "walk"
      BY <1>1, <1>6, PoolAssumption DEF Reserve, HasSet, LocRecs, l, At
    <3>2. src \in Source /\ l.next \in DOMAIN Candidates[c]
      BY <3>1
    <3> QED
      BY <1>2, <3>1, <3>2 DEF Source, StreamsOf
  <2>2. UNCHANGED <<channelStream, streamProfile, relay, of>> /\ Assigned(r)' = None
        /\ Assigned(r) = None /\ owns[r] = None
    BY <1>6, <2>1 DEF Reserve, relay, Assigned, Bare
  <2>3. ASSUME Write(Take(count, src.profile)), owns' = [owns EXCEPT ![r] = src.profile],
               loc' = [loc EXCEPT ![h] = [l EXCEPT !.stream = src.stream, !.profile = src.profile]],
               step' = [step EXCEPT ![h] = "setChannel"]
        PROVE  AccountsFit'
    <3> DEFINE m == [l EXCEPT !.stream = src.stream, !.profile = src.profile]
    <3>1. m.stream = src.stream /\ m.profile = src.profile
      BY <1>1 DEF LocRecs
    <3>2. Counted'
      BY <1>1, <2>1, <2>2, <2>3, ReserveCounts
    <3>3. owns'[r] = src.profile /\ \A q \in Runs \ {r} : owns'[q] = owns[q]
      BY <1>1, <2>3
    <3>4. loc' = [loc EXCEPT ![h] = m]
      BY <2>3
    <3> HIDE DEF m, src
    <3> QED
      BY <1>3, <2>1, <2>2, <2>3, <3>1, <3>2, <3>3, <3>4
  <2>4. ASSUME loc' = [loc EXCEPT ![h] = [l EXCEPT !.next = @ + 1]],
               UNCHANGED <<count, owns, step>>
        PROVE  AccountsFit'
    <3> DEFINE m == [l EXCEPT !.next = @ + 1]
    <3>1. step' = [step EXCEPT ![h] = "walk"] /\ loc' = [loc EXCEPT ![h] = m]
      BY <1>1, <2>1, <2>4 DEF PoolTypes, HandlersT
    <3>2. Counted' /\ Bare(r)'
      BY <1>1, <2>1, <2>2, <2>4, StillCounted DEF Bare
    <3> HIDE DEF m
    <3> QED
      BY <1>3, <2>2, <2>4, <3>1, <3>2
  <2> QED
    BY <1>6, <2>3, <2>4 DEF Reserve, Keep, Goes, l, counters
<1>7. CASE Refuse(h)
  <2>1. /\ step' = [step EXCEPT ![h] = "answered"] /\ loc' = [loc EXCEPT ![h] = l]
        /\ UNCHANGED <<redis, relay, reconciler, faults, history>> /\ Bare(r) /\ l.profile = None
    BY <1>1, <1>2, <1>7 DEF Refuse, At, Goes, l, HasSet, PoolTypes, HandlersT
  <2>2. Bare(r)' /\ UNCHANGED <<channelStream, streamProfile, count, owns, of>>
    BY <2>1 DEF Bare, Assigned, redis, history, relay
  <2>3. Counted'
    BY <1>1, <2>2, StillCounted
  <2> QED
    BY <1>3, <2>1, <2>2, <2>3
<1>8. CASE SetChannelStream(h)
  <2>1. /\ step' = [step EXCEPT ![h] = "setStream"] /\ loc' = [loc EXCEPT ![h] = l]
        /\ channelStream' = [channelStream EXCEPT ![c] = l.stream]
        /\ UNCHANGED <<counters, streamProfile, relay, of, count, owns>>
        /\ owns[r] = l.profile /\ l.stream \in StreamsOf(c)
    BY <1>1, <1>2, <1>8
    DEF SetChannelStream, At, Goes, l, PoolTypes, HandlersT, relay, counters, history
  <2>2. Assigned(r)' = l.stream /\ \A d \in Channels \ {c} : channelStream'[d] = channelStream[d]
    BY <1>1, <2>1 DEF Assigned, KeysT
  <2>3. Counted'
    BY <1>1, <2>1, StillCounted
  <2> QED
    BY <1>3, <2>1, <2>2, <2>3
<1>9. CASE SetStreamProfile(h)
  <2>1. /\ step' = [step EXCEPT ![h] = "answered"] /\ loc' = [loc EXCEPT ![h] = l]
        /\ streamProfile' = [streamProfile EXCEPT ![l.stream] = l.profile]
        /\ UNCHANGED <<counters, channelStream, relay, of, count, owns>>
        /\ Assigned(r) = l.stream /\ owns[r] = l.profile /\ l.stream \in StreamsOf(c)
        /\ l.profile \in Profiles
    BY <1>1, <1>2, <1>9
    DEF SetStreamProfile, At, Goes, l, PoolTypes, HandlersT, relay, counters, history, HasSet
  <2>2. l.stream \in Streams
    BY <1>1, <2>1, StreamsOfAreStreams
  <2>3. Assigned(r)' = l.stream /\ streamProfile'[l.stream] = l.profile
        /\ \A t \in Streams \ StreamsOf(c) : streamProfile'[t] = streamProfile[t]
    BY <1>1, <2>1, <2>2 DEF Assigned, KeysT
  <2>4. Held(r)' /\ l.profile # None
    BY <2>1, <2>3, PoolAssumption DEF Held, StreamsOf
  <2>5. Counted'
    BY <1>1, <2>1, StillCounted
  <2> QED
    BY <1>3, <2>1, <2>3, <2>4, <2>5
<1> QED
  BY <1>4, <1>5, <1>6, <1>7, <1>8, <1>9 DEF TuneStep

\* A handler of a switch keeps the accounts.
LEMMA SwitchAccounts ==
  ASSUME PoolTypes, PoolTypes', AccountsFit, OwnStreams, NEW h \in Handlers, h[2] = "switch",
         step[h] \notin {"none", "answered", "dead"}, SwitchStep(h)
  PROVE  AccountsFit'
<1> DEFINE r == h[1]
           c == of[r]
           l == loc[h]
<1>1. /\ r \in Runs /\ c \in Channels /\ h = First(r, "switch") /\ stage[r] = "on" /\ Active(r)
      /\ Held(r) /\ SwitchFits(r) /\ HasSet("switch", step[h], l) /\ KeysT /\ PastT /\ FirstCalls
      /\ Counted /\ owns \in [Runs -> Profiles \cup {None}] /\ l \in LocRecs
  BY AtWork DEF AccountsFit, FirstCalls, RunFits, Active, PoolTypes, HandlersT, PastT
<1> HIDE DEF l
\* A step to s with m that the run's accounts allow.
<1>2. ASSUME NEW s \in {"commit", "move", "answered"}, NEW m,
             step' = [step EXCEPT ![h] = s], loc' = [loc EXCEPT ![h] = m], UNCHANGED relay,
             \A q \in Runs \ {r} : owns'[q] = owns[q], UNCHANGED channelStream,
             \A t \in Streams \ StreamsOf(c) : streamProfile'[t] = streamProfile[t],
             Counted', Held(r)',
             s = "move" => m.key = Assigned(r) /\ m.old = owns'[r] /\ m.profile # owns'[r]
      PROVE  AccountsFit'
  <2>0. OneAttempt
    BY <1>1 DEF FirstCalls
  <2>1. /\ OneAttempt' /\ UNCHANGED <<of, stage, attempt>> /\ step'[h] = s /\ loc'[h] = m
        /\ \A q \in Runs \ {r}, k \in Kinds : step'[First(q, k)] = step[First(q, k)]
                                                /\ loc'[First(q, k)] = loc[First(q, k)]
    BY <1>1, <1>2, <2>0, HandlerFrame
  <2>2. OneRun' /\ IdleChannels' /\ \A q \in Runs \ {r} : RunFits(q)'
    BY <1>1, <1>2, <2>1, OthersFit DEF Active
  <2>3. SwitchFits(r)'
    BY <1>1, <1>2, <2>1 DEF SwitchFits, First, Assigned
  <2>4. RunFits(r)'
    BY <1>1, <1>2, <2>1, <2>3 DEF RunFits
  <2> QED
    BY <1>1, <1>2, <2>1, <2>2, <2>4, FirstCallsFrame DEF AccountsFit
\* A step that changes neither the keys nor the slots.
<1>3. ASSUME UNCHANGED <<redis, relay, history>>
      PROVE  /\ Counted' /\ Held(r)' /\ UNCHANGED <<channelStream, streamProfile, relay, owns>>
             /\ \A q \in Runs \ {r} : owns'[q] = owns[q]
             /\ \A t \in Streams \ StreamsOf(c) : streamProfile'[t] = streamProfile[t]
  BY <1>1, <1>3, StillCounted DEF Held, Assigned, redis, relay, history
<1>4. CASE Select(h)
  <2>1. loc = [loc EXCEPT ![h] = l]
    BY <1>1 DEF PoolTypes, HandlersT, l
  <2>2. PICK m : loc' = [loc EXCEPT ![h] = m]
    BY <1>4, <2>1 DEF Select, Keep
  <2>3. PICK s \in {"commit", "answered"} : step' = [step EXCEPT ![h] = s]
    BY <1>4 DEF Select, Goes
  <2>4. UNCHANGED <<redis, relay, history>>
    BY <1>4 DEF Select
  <2> QED
    BY <1>2, <1>3, <2>2, <2>3, <2>4
<1>5. CASE ReadOld(h)
  <2> DEFINE k == channelStream[c]
             p == IF k = None THEN None ELSE streamProfile[k]
             s == IF p \in {None, l.profile} THEN "answered" ELSE "move"
             m == [l EXCEPT !.key = k, !.old = p]
  <2>1. step' = [step EXCEPT ![h] = s] /\ loc' = [loc EXCEPT ![h] = m]
        /\ UNCHANGED <<redis, relay, history>>
    BY <1>5 DEF ReadOld, Goes, Keep, l
  <2>2. k = Assigned(r) /\ p = owns[r]
    BY <1>1, StreamsOfAreStreams DEF Held, Assigned
  <2> HIDE DEF k, p
  <2>3. m.key = k /\ m.old = p /\ m.profile = l.profile
    BY <1>1 DEF LocRecs
  <2>4. s = "move" => m.key = Assigned(r) /\ m.old = owns[r] /\ m.profile # owns[r]
    BY <2>2, <2>3
  <2>5. s \in {"commit", "move", "answered"}
    OBVIOUS
  <2> HIDE DEF s, m
  <2> QED
    BY <1>2, <1>3, <2>1, <2>4, <2>5
<1>6. CASE Move(h)
  <2>1. /\ step' = [step EXCEPT ![h] = "answered"] /\ loc' = [loc EXCEPT ![h] = l]
        /\ Write(Take(GiveBack(count, l.old), l.profile))
        /\ streamProfile' = [streamProfile EXCEPT ![l.key] = l.profile]
        /\ owns' = [owns EXCEPT ![r] = l.profile]
        /\ UNCHANGED <<channelStream, relay, of>>
        /\ l.key = Assigned(r) /\ l.old = owns[r] /\ l.profile # owns[r]
        /\ l.profile \in Profiles
    BY <1>1, <1>6 DEF Move, At, Goes, l, PoolTypes, HandlersT, relay, HasSet, SwitchFits
  <2>2. Assigned(r) \in StreamsOf(c) /\ Assigned(r) \in Streams /\ owns[r] \in Profiles
    BY <1>1, StreamsOfAreStreams DEF Held
  <2>3. Counted'
    BY <1>1, <2>1, <2>2, MoveCounts
  <2>4. /\ owns'[r] = l.profile /\ \A q \in Runs \ {r} : owns'[q] = owns[q]
        /\ streamProfile'[Assigned(r)] = l.profile
        /\ \A t \in Streams \ StreamsOf(c) : streamProfile'[t] = streamProfile[t]
    BY <1>1, <2>1, <2>2 DEF KeysT
  <2>5. Held(r)'
    BY <2>1, <2>2, <2>4 DEF Held, Assigned, StreamsOf
  <2> QED
    BY <1>2, <2>1, <2>3, <2>4, <2>5
<1> QED
  BY <1>4, <1>5, <1>6 DEF SwitchStep

\* A handler of a release keeps the accounts.
LEMMA ReleaseAccounts ==
  ASSUME PoolTypes, PoolTypes', AccountsFit, OwnStreams, NEW h \in Handlers, h[2] = "release",
         step[h] \notin {"none", "answered", "dead"}, ReleaseStep(h)
  PROVE  AccountsFit'
<1> DEFINE r == h[1]
           c == of[r]
           l == loc[h]
<1>1. /\ r \in Runs /\ c \in Channels /\ h = First(r, "release") /\ stage[r] = "over" /\ Active(r)
      /\ ReleaseFits(r) /\ KeysT /\ PastT /\ FirstCalls
      /\ Counted /\ owns \in [Runs -> Profiles \cup {None}] /\ l \in LocRecs
  BY AtWork DEF AccountsFit, FirstCalls, RunFits, Active, PoolTypes, HandlersT, PastT
<1> HIDE DEF l
<1>2. /\ step[h] \in {"begin", "delChannel", "getStream", "delStream", "give"}
      /\ step[h] \in {"begin", "delChannel"} => Held(r)
      /\ step[h] = "delChannel" => l.key = Assigned(r)
      /\ step[h] \in {"getStream", "delStream", "give"} => Assigned(r) = None
           /\ owns[r] \in Profiles
      /\ step[h] \in {"getStream", "delStream"} => l.key \in StreamsOf(c)
      /\ step[h] = "getStream" => streamProfile[l.key] = owns[r]
      /\ step[h] \in {"delStream", "give"} => l.old = owns[r]
  BY <1>1 DEF ReleaseFits, l
\* A step to s with m that the run's accounts allow.
<1>3. ASSUME NEW s \in {"delChannel", "getStream", "delStream", "give", "answered"}, NEW m,
             step' = [step EXCEPT ![h] = s], loc' = [loc EXCEPT ![h] = m], UNCHANGED relay,
             \A q \in Runs \ {r} : owns'[q] = owns[q],
             \A d \in Channels \ {c} : channelStream'[d] = channelStream[d],
             \A t \in Streams \ StreamsOf(c) : streamProfile'[t] = streamProfile[t],
             Counted',
             s = "delChannel" => Held(r)' /\ m.key = Assigned(r)',
             s \in {"getStream", "delStream", "give"} => Assigned(r)' = None
               /\ owns'[r] \in Profiles,
             s \in {"getStream", "delStream"} => m.key \in StreamsOf(c),
             s = "getStream" => streamProfile'[m.key] = owns'[r],
             s \in {"delStream", "give"} => m.old = owns'[r],
             s = "answered" => Bare(r)'
      PROVE  AccountsFit'
  <2>0. OneAttempt
    BY <1>1 DEF FirstCalls
  <2>1. /\ OneAttempt' /\ UNCHANGED <<of, stage, attempt>> /\ step'[h] = s /\ loc'[h] = m
        /\ \A q \in Runs \ {r}, k \in Kinds : step'[First(q, k)] = step[First(q, k)]
                                                /\ loc'[First(q, k)] = loc[First(q, k)]
    BY <1>1, <1>3, <2>0, HandlerFrame
  <2>2. OneRun' /\ IdleChannels' /\ \A q \in Runs \ {r} : RunFits(q)'
    BY <1>1, <1>3, <2>1, OthersFit DEF Active
  <2>3. ReleaseFits(r)'
    BY <1>1, <1>3, <2>1 DEF ReleaseFits, First
  <2>4. RunFits(r)'
    BY <1>1, <2>1, <2>3 DEF RunFits
  <2> QED
    BY <1>1, <1>3, <2>1, <2>2, <2>4, FirstCallsFrame DEF AccountsFit
<1>4. CASE FindChannelStream(h)
  <2> DEFINE k == channelStream[c]
             m == [l EXCEPT !.key = k]
  <2>1. k = Assigned(r) /\ k # None /\ Held(r)
    BY <1>1, <1>2, <1>4, StreamsOfAreStreams DEF FindChannelStream, At, Held, Assigned
  <2>2. step' = [step EXCEPT ![h] = "delChannel"] /\ loc' = [loc EXCEPT ![h] = m]
        /\ UNCHANGED <<redis, relay, history>>
    BY <1>4, <2>1 DEF FindChannelStream, Goes, Keep, l
  <2>3. UNCHANGED <<count, owns, channelStream, streamProfile, of>>
    BY <2>2 DEF redis, relay, history
  <2>4. Counted' /\ Held(r)' /\ Assigned(r)' = k
    BY <1>1, <2>1, <2>3, StillCounted DEF Held, Assigned
  <2>5. m.key = k
    BY <1>1 DEF LocRecs
  <2> HIDE DEF k, m
  <2> QED
    BY <1>3, <2>2, <2>3, <2>4, <2>5
<1>5. CASE DelChannelStream(h)
  <2>1. /\ step' = [step EXCEPT ![h] = "getStream"] /\ loc' = [loc EXCEPT ![h] = l]
        /\ channelStream' = [channelStream EXCEPT ![c] = None]
        /\ UNCHANGED <<streamProfile, relay, of, count, owns>>
        /\ Held(r) /\ l.key = Assigned(r)
    BY <1>1, <1>2, <1>5 DEF DelChannelStream, At, Goes, l, PoolTypes, HandlersT, relay, counters,
       history
  <2>2. Assigned(r)' = None /\ \A d \in Channels \ {c} : channelStream'[d] = channelStream[d]
    BY <1>1, <2>1 DEF Assigned, KeysT
  <2>3. l.key \in StreamsOf(c) /\ streamProfile'[l.key] = owns'[r] /\ owns'[r] \in Profiles
    BY <2>1 DEF Held
  <2>4. Counted'
    BY <1>1, <2>1, StillCounted
  <2> QED
    BY <1>3, <2>1, <2>2, <2>3, <2>4
<1>6. CASE GetStreamProfile(h)
  <2> DEFINE p == streamProfile[l.key]
             m == [l EXCEPT !.old = p]
  <2>1. p = owns[r] /\ p \in Profiles /\ p # None /\ l.key \in StreamsOf(c) /\ Assigned(r) = None
    BY <1>2, <1>6, PoolAssumption DEF GetStreamProfile, At
  <2>2. step' = [step EXCEPT ![h] = "delStream"] /\ loc' = [loc EXCEPT ![h] = m]
        /\ UNCHANGED <<redis, relay, history>>
    BY <1>6, <2>1 DEF GetStreamProfile, Goes, Keep, l
  <2>3. UNCHANGED <<count, owns, channelStream, streamProfile, of>>
    BY <2>2 DEF redis, relay, history
  <2>4. Counted' /\ Assigned(r)' = None
    BY <1>1, <2>1, <2>3, StillCounted DEF Assigned
  <2>5. m.key = l.key /\ m.old = p
    BY <1>1 DEF LocRecs
  <2> HIDE DEF p, m
  <2> QED
    BY <1>3, <2>1, <2>2, <2>3, <2>4, <2>5
<1>7. CASE DelStreamProfile(h)
  <2>1. /\ step' = [step EXCEPT ![h] = "give"] /\ loc' = [loc EXCEPT ![h] = l]
        /\ streamProfile' = [streamProfile EXCEPT ![l.key] = None]
        /\ UNCHANGED <<channelStream, relay, of, count, owns>>
        /\ Assigned(r) = None /\ owns[r] \in Profiles /\ l.old = owns[r] /\ l.key \in StreamsOf(c)
    BY <1>1, <1>2, <1>7 DEF DelStreamProfile, At, Goes, l, PoolTypes, HandlersT, relay, counters,
       history
  <2>2. Counted' /\ Assigned(r)' = None
    BY <1>1, <2>1, StillCounted DEF Assigned
  <2>3. \A t \in Streams \ StreamsOf(c) : streamProfile'[t] = streamProfile[t]
    BY <1>1, <2>1 DEF KeysT
  <2> QED
    BY <1>3, <2>1, <2>2, <2>3
<1>8. CASE Fallback(h)
  BY <1>2, <1>8 DEF Fallback, At
<1>9. CASE Give(h)
  <2>1. /\ step' = [step EXCEPT ![h] = "answered"] /\ loc' = [loc EXCEPT ![h] = Asks(l)]
        /\ Write(GiveBack(count, l.old))
        /\ UNCHANGED <<channelStream, streamProfile, relay, of>>
        /\ Assigned(r) = None /\ owns[r] \in Profiles /\ l.old = owns[r]
        /\ owns' = IF owns[r] = l.old THEN [owns EXCEPT ![r] = None] ELSE owns
    BY <1>2, <1>9 DEF Give, At, Goes, Keep, l, relay
  <2>2. owns' = [owns EXCEPT ![r] = None]
    BY <2>1
  <2>3. Counted'
    BY <1>1, <2>1, <2>2, GiveCounts
  <2>4. Bare(r)' /\ \A q \in Runs \ {r} : owns'[q] = owns[q]
    BY <1>1, <2>1, <2>2 DEF Bare, Assigned
  <2> QED
    BY <1>3, <2>1, <2>3, <2>4
<1> QED
  BY <1>4, <1>5, <1>6, <1>7, <1>8, <1>9 DEF ReleaseStep

\* A run that starts has no slot, and its channel no assignment.
LEMMA StartAccounts ==
  ASSUME PoolTypes, PoolTypes', AccountsFit, NEW r \in Runs, NEW c \in Channels, Start(r, c),
         ~crossed'
  PROVE  AccountsFit'
<1>1. /\ KeysT /\ RelayT /\ HandlersT /\ PastT /\ FirstCalls /\ Counted /\ RunFits(r)
      /\ stage[r] = "none" /\ of[r] = None /\ c # None
  BY PoolAssumption DEF PoolTypes, AccountsFit, Start, RelayT
<1>2. /\ stage' = [stage EXCEPT ![r] = "tuning"] /\ of' = [of EXCEPT ![r] = c]
      /\ Try(r, "tune", 1)
      /\ UNCHANGED <<count, channelStream, streamProfile, loc, owns>>
  BY DEF Start, redis
<1>3. /\ stage'[r] = "tuning" /\ of'[r] = c
      /\ \A q \in Runs \ {r} : stage'[q] = stage[q] /\ of'[q] = of[q]
  BY <1>1, <1>2 DEF RelayT
<1>4. ASSUME NEW q \in Runs, of[q] = c PROVE ~Active(q)
  <2>1. stage[q] \notin {"tuning", "tuned"} /\ stage[q] # "over"
          /\ ~(stage[q] = "on" /\ Unlisted(q))
    BY <1>4 DEF Start, Unreleased
  <2>2. ~(stage[q] = "on" /\ ~Unlisted(q))
    BY <1>4, PoolAssumption DEF Start, Unlisted, Runs
  <2> QED
    BY <2>1, <2>2 DEF Active
<1>5. channelStream[c] = None
  BY <1>4 DEF AccountsFit, IdleChannels
<1> DEFINE h == First(r, "tune")
<1>6. /\ h \in Handlers /\ step'[h] = "begin" /\ attempt'[<<r, "tune">>] = 1
      /\ \A g \in Handlers : g # h => step'[g] = step[g]
      /\ \A q \in Runs, k \in Kinds : q # r \/ k # "tune" => attempt'[<<q, k>>] = attempt[<<q, k>>]
  BY <1>1, <1>2 DEF Try, First, Handlers, Attempts, Kinds, HandlersT, RelayT
<1>7. \A q \in Runs, k \in Kinds : First(q, k) \in Handlers
                                     /\ (q # r \/ k # "tune" => First(q, k) # h)
  BY DEF First, Handlers, Attempts
<1>8. FirstCalls'
  <2>1. \A q \in Runs, k \in Kinds : attempt'[<<q, k>>] \in {0, 1, 3}
    BY <1>1, <1>6 DEF FirstCalls, OneAttempt
  <2>2. \A g \in Handlers : step'[g] # "none" => g[3] = 1 /\ step'[g] # "dead"
    BY <1>1, <1>6 DEF FirstCalls, OneAttempt, First
  <2>3. \A q \in Runs, k \in Kinds : attempt'[<<q, k>>] = 3 => step'[First(q, k)] = "answered"
    BY <1>1, <1>6, <1>7 DEF FirstCalls, OneAttempt
  <2>4. \A q \in Runs : attempt'[<<q, "switch">>] = 1 => stage'[q] = "on"
    BY <1>1, <1>3, <1>6 DEF FirstCalls, OneAttempt, Kinds
  <2> QED
    BY <2>1, <2>2, <2>3, <2>4 DEF FirstCalls, OneAttempt, First
<1>9. \A q \in Runs \ {r} : Active(q)' <=> Active(q)
  BY <1>3 DEF Active
<1>10. OneRun'
  BY <1>3, <1>4, <1>9 DEF AccountsFit, OneRun
<1>11. IdleChannels'
  <2> SUFFICES ASSUME NEW d \in Channels, \A q \in Runs : of'[q] = d => ~Active(q)'
               PROVE  channelStream'[d] = None
    BY DEF IdleChannels
  <2>1. d # c
    BY <1>3 DEF Active
  <2>2. \A q \in Runs : of[q] = d => ~Active(q)
    BY <1>1, <1>3, <1>9, PoolAssumption
  <2> QED
    BY <1>2, <2>2 DEF AccountsFit, IdleChannels
<1>12. RunFits(r)'
  <2>1. Bare(r)'
    BY <1>1, <1>2, <1>3, <1>5 DEF Bare, Assigned, RunFits
  <2>2. TuneFits(r)'
    BY <1>6, <2>1 DEF TuneFits, First
  <2> QED
    BY <1>3, <2>2 DEF RunFits
<1>13. ASSUME NEW q \in Runs \ {r} PROVE RunFits(q)'
  <2>1. \A k \in {"tune", "switch", "release"} : step'[First(q, k)] = step[First(q, k)]
    BY <1>6, <1>7 DEF Kinds
  <2>2. RunFits(q) /\ stage'[q] = stage[q] /\ of'[q] = of[q]
    BY <1>3 DEF AccountsFit
  <2>3. Assigned(q)' = Assigned(q)
    BY <1>2, <2>2 DEF Assigned
  <2> QED
    BY <1>2, <2>1, <2>2, <2>3 DEF RunFits, TuneFits, SwitchFits, ReleaseFits, Held, Bare, First
<1> QED
  BY <1>1, <1>2, <1>8, <1>10, <1>11, <1>12, <1>13, StillCounted DEF AccountsFit

\* What a run does by itself keeps the accounts.
LEMMA RunAccounts ==
  ASSUME PoolTypes, PoolTypes', AccountsFit, OwnStreams, NEW r \in Runs, ~crossed',
         RelayStep(r) \/ Switch(r) \/ Unlist(r) \/ RunEnds(r)
  PROVE  AccountsFit'
<1>1. /\ KeysT /\ RelayT /\ HandlersT /\ PastT /\ FirstCalls /\ Counted /\ RunFits(r)
      /\ CallsFit(r) /\ stage[r] # "none" /\ of[r] \in Channels
  <2>1. stage[r] # "none"
    BY DEF RelayStep, Tuned, Waiting, Attempts, Publish, Switched, Released, Switch, Unlist,
       RunEnds,
           PoolTypes, RelayT, Kinds
  <2> QED
    BY <2>1 DEF PoolTypes, AccountsFit, RelayT
<1>2. UNCHANGED <<count, channelStream, streamProfile, of, owns>>
  BY DEF RelayStep, Tuned, Publish, Switched, Released, Switch, Unlist, RunEnds, redis, history
<1>3. Counted' /\ Assigned(r)' = Assigned(r) /\ (Held(r)' <=> Held(r)) /\ (Bare(r)' <=> Bare(r))
  BY <1>1, <1>2, StillCounted DEF Assigned, Held, Bare
<1>4. \A q \in Runs, k \in Kinds : First(q, k) \in Handlers
  BY DEF First, Handlers, Attempts
\* A step that leaves the others' calls alone.
<1>5. ASSUME Active(r), FirstCalls', RunFits(r)',
             Active(r)' \/ Assigned(r) = None,
             \A q \in Runs \ {r} :
               /\ stage'[q] = stage[q]
               /\ \A k \in Kinds : step'[First(q, k)] = step[First(q, k)]
                                     /\ loc'[First(q, k)] = loc[First(q, k)]
      PROVE  AccountsFit'
  <2>1. OneRun' /\ IdleChannels' /\ \A q \in Runs \ {r} : RunFits(q)'
    BY <1>1, <1>2, <1>5, OthersFit DEF Assigned
  <2> QED
    BY <1>3, <1>5, <2>1 DEF AccountsFit
<1>6. CASE Unlist(r)
  <2>1. UNCHANGED <<stage, attempt, step, loc>>
    BY <1>6 DEF Unlist, django
  <2> QED
    BY <1>2, <1>3, <2>1 DEF AccountsFit, FirstCalls, OneAttempt, OneRun, IdleChannels, Active,
       RunFits, TuneFits,
      SwitchFits, ReleaseFits, Held, Bare, Assigned, First
<1>7. CASE Publish(r)
  <2>1. stage[r] = "tuned" /\ stage' = [stage EXCEPT ![r] = "on"]
          /\ UNCHANGED <<attempt, step, loc>>
    BY <1>7 DEF Publish, django
  <2>2. stage'[r] = "on" /\ \A q \in Runs : q # r => stage'[q] = stage[q]
    BY <1>1, <2>1 DEF RelayT
  <2>3. step[First(r, "switch")] = "none"
    <3>1. attempt[<<r, "switch">>] = 0
      BY <1>1, <2>1 DEF CallsFit
    <3>2. First(r, "switch") \in Handlers /\ First(r, "switch") = <<r, "switch", 1>>
      BY <1>4 DEF First, Kinds
    <3> QED
      BY <1>1, <3>1, <3>2 DEF HandlersT
  <2>4. RunFits(r)'
    BY <1>1, <1>3, <2>1, <2>2, <2>3 DEF RunFits, SwitchFits, First
  <2>5. FirstCalls'
    BY <1>1, <2>1, <2>2 DEF FirstCalls, OneAttempt, First
  <2> QED
    BY <1>5, <2>1, <2>2, <2>4, <2>5 DEF Active
\* A call that starts or is over.
<1>8. ASSUME NEW k \in Kinds, NEW n \in {1, 3},
             attempt' = [attempt EXCEPT ![<<r, k>>] = n],
             \/ n = 1 /\ step' = [step EXCEPT ![First(r, k)] = "begin"]
             \/ n = 3 /\ UNCHANGED step /\ step[First(r, k)] = "answered",
             \A g \in Handlers : g # First(r, k) => loc'[g] = loc[g],
             \A q \in Runs \ {r} : stage'[q] = stage[q],
             stage'[r] = "on" \/ (k # "switch" /\ attempt[<<r, "switch">>] # 1)
      PROVE  /\ FirstCalls'
             /\ \A j \in Kinds \ {k} : step'[First(r, j)] = step[First(r, j)]
                                         /\ loc'[First(r, j)] = loc[First(r, j)]
             /\ step'[First(r, k)] = IF n = 1 THEN "begin" ELSE "answered"
             /\ \A q \in Runs \ {r} : \A j \in Kinds : step'[First(q, j)] = step[First(q, j)]
                                                         /\ loc'[First(q, j)] = loc[First(q, j)]
  <2>1. /\ OneAttempt' /\ step'[First(r, k)] = (IF n = 1 THEN "begin" ELSE "answered")
        /\ attempt'[<<r, k>>] = n
        /\ \A j \in Kinds \ {k} : step'[First(r, j)] = step[First(r, j)]
                                    /\ loc'[First(r, j)] = loc[First(r, j)]
        /\ \A q \in Runs \ {r}, j \in Kinds : step'[First(q, j)] = step[First(q, j)]
                                                 /\ loc'[First(q, j)] = loc[First(q, j)]
        /\ \A q \in Runs, j \in Kinds : q # r \/ j # k => attempt'[<<q, j>>] = attempt[<<q, j>>]
    BY <1>1, <1>8, CallFrame DEF FirstCalls
  <2>2. \A q \in Runs : attempt'[<<q, "switch">>] = 1 => stage'[q] = "on"
    BY <1>1, <1>8, <2>1 DEF FirstCalls, Kinds
  <2> QED
    BY <2>1, <2>2 DEF FirstCalls
<1>9. ASSUME NEW k \in Kinds, Waiting(r, k), step[Handler(r, k)] = "answered"
      PROVE  Handler(r, k) = First(r, k) /\ attempt[<<r, k>>] = 1
  BY <1>1, <1>9 DEF FirstCalls, OneAttempt, Waiting, Attempts, Handler, First
<1>10. CASE Tuned(r)
  <2> DEFINE h == First(r, "tune")
  <2>1. /\ h = Handler(r, "tune") /\ step[h] = "answered" /\ stage[r] = "tuning"
        /\ "tune" \in Kinds
    BY <1>1, <1>9, <1>10 DEF Tuned, CallsFit, Kinds
  <2>2. /\ attempt' = [attempt EXCEPT ![<<r, "tune">>] = 3] /\ UNCHANGED step
        /\ loc' = [loc EXCEPT ![h] = NoLocals]
        /\ stage' = [stage EXCEPT ![r] = IF loc[h].profile = None THEN "gone" ELSE "tuned"]
    BY <1>10, <2>1 DEF Tuned, Done
  <2>3. /\ stage'[r] = (IF loc[h].profile = None THEN "gone" ELSE "tuned")
        /\ \A q \in Runs \ {r} : stage'[q] = stage[q]
        /\ \A g \in Handlers : g # h => loc'[g] = loc[g]
        /\ attempt[<<r, "switch">>] # 1
    BY <1>1, <2>1, <2>2 DEF RelayT, HandlersT, CallsFit
  <2>4. /\ FirstCalls'
        /\ \A q \in Runs \ {r} : \A j \in Kinds : step'[First(q, j)] = step[First(q, j)]
                                                    /\ loc'[First(q, j)] = loc[First(q, j)]
    BY <1>8, <2>1, <2>2, <2>3
  <2>5. IF loc[h].profile = None THEN Bare(r) ELSE Held(r)
    BY <1>1, <2>1 DEF RunFits, TuneFits
  <2>6. RunFits(r)'
    BY <1>2, <1>3, <2>3, <2>5 DEF RunFits, Bare
  <2> QED
    BY <1>5, <2>1, <2>3, <2>4, <2>5, <2>6 DEF Active, Bare
<1>11. CASE Switched(r)
  <2> DEFINE h == First(r, "switch")
  <2>1. /\ h = Handler(r, "switch") /\ step[h] = "answered" /\ attempt[<<r, "switch">>] = 1
        /\ "switch" \in Kinds
    BY <1>1, <1>9, <1>11 DEF Switched, Kinds
  <2>2. stage[r] = "on" /\ UNCHANGED <<stage, step>>
    BY <1>1, <1>11, <2>1 DEF FirstCalls, OneAttempt, Switched
  <2>3. /\ attempt' = [attempt EXCEPT ![<<r, "switch">>] = 3]
        /\ loc' = [loc EXCEPT ![h] = NoLocals]
    BY <1>11, <2>1 DEF Switched, Done
  <2>4. \A g \in Handlers : g # h => loc'[g] = loc[g]
    BY <1>1, <2>3 DEF HandlersT
  <2>5. /\ FirstCalls'
        /\ \A q \in Runs \ {r} : \A j \in Kinds : step'[First(q, j)] = step[First(q, j)]
                                                    /\ loc'[First(q, j)] = loc[First(q, j)]
    BY <1>8, <2>1, <2>2, <2>3, <2>4
  <2>6. RunFits(r)'
    BY <1>1, <1>3, <2>1, <2>2 DEF RunFits, SwitchFits, First
  <2> QED
    BY <1>5, <2>2, <2>5, <2>6 DEF Active
<1>12. CASE Released(r)
  <2> DEFINE h == First(r, "release")
  <2>1. /\ h = Handler(r, "release") /\ step[h] = "answered" /\ stage[r] = "over"
        /\ "release" \in Kinds /\ "switch" \in Kinds
    BY <1>1, <1>9, <1>12 DEF Released, CallsFit, Kinds
  <2>2. /\ attempt' = [attempt EXCEPT ![<<r, "release">>] = 3] /\ UNCHANGED step
        /\ loc' = [loc EXCEPT ![h] = NoLocals] /\ stage' = [stage EXCEPT ![r] = "gone"]
    BY <1>12, <2>1 DEF Released, Done
  <2>3. /\ stage'[r] = "gone" /\ \A q \in Runs \ {r} : stage'[q] = stage[q]
        /\ \A g \in Handlers : g # h => loc'[g] = loc[g]
        /\ attempt[<<r, "switch">>] # 1
    BY <1>1, <2>1, <2>2 DEF RelayT, HandlersT, FirstCalls, OneAttempt
  <2>4. /\ FirstCalls'
        /\ \A q \in Runs \ {r} : \A j \in Kinds : step'[First(q, j)] = step[First(q, j)]
                                                    /\ loc'[First(q, j)] = loc[First(q, j)]
    BY <1>8, <2>1, <2>2, <2>3
  <2>5. Bare(r)
    BY <1>1, <2>1 DEF RunFits, ReleaseFits
  <2>6. RunFits(r)'
    BY <1>2, <2>3, <2>5 DEF RunFits, Bare
  <2> QED
    BY <1>5, <2>1, <2>4, <2>3, <2>5, <2>6 DEF Active, Bare
<1>13. CASE Switch(r)
  <2>1. /\ stage[r] = "on" /\ Try(r, "switch", 1) /\ UNCHANGED <<stage, loc>> /\ "switch" \in Kinds
    BY <1>13 DEF Switch, Kinds
  <2>2. /\ attempt' = [attempt EXCEPT ![<<r, "switch">>] = 1]
        /\ step' = [step EXCEPT ![First(r, "switch")] = "begin"]
    BY <2>1 DEF Try, First
  <2>3. /\ FirstCalls' /\ step'[First(r, "switch")] = "begin"
        /\ \A q \in Runs \ {r} : \A j \in Kinds : step'[First(q, j)] = step[First(q, j)]
                                                    /\ loc'[First(q, j)] = loc[First(q, j)]
    BY <1>8, <2>1, <2>2
  <2>4. RunFits(r)'
    BY <1>1, <1>3, <2>1, <2>3 DEF RunFits, SwitchFits, First
  <2> QED
    BY <1>5, <2>1, <2>3, <2>4 DEF Active
<1>14. CASE RunEnds(r)
  <2> DEFINE h == First(r, "release")
  <2>1. /\ stage[r] = "on" /\ stage' = [stage EXCEPT ![r] = "over"] /\ Try(r, "release", 1)
        /\ loc' = [loc EXCEPT ![h] = Asks(source[r])]
        /\ "release" \in Kinds /\ "switch" \in Kinds /\ ~Waiting(r, "switch")
    BY <1>14 DEF RunEnds, Kinds, First
  <2>2. /\ attempt' = [attempt EXCEPT ![<<r, "release">>] = 1]
        /\ step' = [step EXCEPT ![h] = "begin"]
    BY <2>1 DEF Try, First
  <2>3. /\ stage'[r] = "over" /\ \A q \in Runs \ {r} : stage'[q] = stage[q]
        /\ \A g \in Handlers : g # h => loc'[g] = loc[g]
        /\ attempt[<<r, "switch">>] # 1
    BY <1>1, <2>1, <2>2 DEF RelayT, HandlersT, Waiting, Attempts
  <2>4. /\ FirstCalls' /\ step'[h] = "begin"
        /\ \A q \in Runs \ {r} : \A j \in Kinds : step'[First(q, j)] = step[First(q, j)]
                                                    /\ loc'[First(q, j)] = loc[First(q, j)]
    BY <1>8, <2>1, <2>2, <2>3
  <2>5. RunFits(r)'
    BY <1>1, <1>3, <2>1, <2>3, <2>4 DEF RunFits, ReleaseFits, First
  <2> QED
    BY <1>5, <2>1, <2>3, <2>4, <2>5 DEF Active
<1> QED
  BY <1>6, <1>7, <1>10, <1>11, <1>12, <1>13, <1>14 DEF RelayStep

\* Every step keeps the accounts.
LEMMA AccountsStep ==
  ASSUME OwnStreams, PoolTypes, PoolTypes', Accounts, [Next]_vars PROVE Accounts'
<1> SUFFICES ASSUME Exact' PROVE AccountsFit'
  BY DEF Accounts
<1>1. faults \in Nat /\ crossed \in BOOLEAN /\ phase \in {"idle", "list", "write"}
      /\ (phase = "write" => now \in Listings) /\ faults' = 0 /\ ~crossed' /\ seen' = None
  BY PoolAssumption DEF Exact, PoolTypes, ReconT, PastT
<1>2. ASSUME Exact PROVE AccountsFit
  BY <1>2 DEF Accounts
<1>3. ASSUME NEW r \in Runs, NEW c \in Channels, Start(r, c) PROVE AccountsFit'
  <2>1. Exact
    BY <1>1, <1>3 DEF Start, reconciler, Exact
  <2> QED
    BY <1>1, <1>2, <1>3, <2>1, StartAccounts
<1>4. ASSUME NEW r \in Runs, RelayStep(r) \/ Switch(r) \/ Unlist(r) \/ RunEnds(r)
      PROVE  AccountsFit'
  <2>1. Exact
    BY <1>1, <1>4 DEF RelayStep, Tuned, Publish, Switched, Released, Switch, Unlist, RunEnds,
       reconciler,
      history, Exact
  <2> QED
    BY <1>1, <1>2, <1>4, <2>1, RunAccounts
<1>5. ASSUME NEW r \in Runs, NEW k \in Kinds, FirstFails(r, k) \/ GivesUp(r, k) \/ StartFails(r)
      PROVE  FALSE
  <2>1. faults' # faults + 1
    BY <1>1
  <2>2. attempt[<<r, k>>] = 2 /\ UNCHANGED <<faults, reconciler, history>>
    BY <1>5, <2>1 DEF FirstFails, GivesUp, StartFails
  <2>3. Exact
    BY <1>1, <2>2 DEF Exact, reconciler, history
  <2> QED
    BY <1>2, <2>2, <2>3 DEF AccountsFit, FirstCalls, OneAttempt
<1>6. ASSUME NEW h \in Handlers, HandlerStep(h) PROVE AccountsFit'
  <2>1. UNCHANGED <<reconciler, faults, crossed>>
    BY <1>6 DEF HandlerStep, TuneStep, SwitchStep, ReleaseStep, GetAssignment, AskRelay, Reuse,
       ReadStale,
      GiveStale, ClearStale, Reserve, Refuse, SetChannelStream, SetStreamProfile, Select,
      ReadOld, Move,
      FindChannelStream, DelChannelStream, GetStreamProfile, DelStreamProfile, Fallback, Give,
      history
  <2>2. Exact
    BY <1>1, <2>1 DEF reconciler, Exact
  <2> QED
    BY <1>2, <1>6, <2>2, TuneAccounts, SwitchAccounts, ReleaseAccounts DEF HandlerStep
<1>7. CASE Reconcile
  BY <1>1, <1>7, PoolAssumption DEF Reconcile, Listings
<1>8. ASSUME UNCHANGED <<count, channelStream, streamProfile, relay, django, seen, faults, history>>
      PROVE  AccountsFit'
  <2>1. Exact
    BY <1>1, <1>8 DEF Exact, history
  <2> QED
    BY <1>2, <1>8, <2>1 DEF AccountsFit, FirstCalls, OneAttempt, OneRun, IdleChannels, Active,
       RunFits, TuneFits,
      SwitchFits, ReleaseFits, Held, Bare, Assigned, First, Counted, Slots, relay, django, history
<1>9. CASE ReadVersions \/ ListChannels \/ SkipRun \/ UNCHANGED vars
  BY <1>8, <1>9 DEF ReadVersions, ListChannels, SkipRun, vars, redis, reconciler
<1> QED
  BY <1>3, <1>4, <1>5, <1>6, <1>7, <1>9 DEF Next, ReconcilerStep, Kinds

\* While nothing fails, calls of one channel do not cross and the reconciler has
\* nothing to compare with yet, a counter is the number of runs that hold a slot
\* on it, a run that is gone leaves none behind, and the last of a channel no
\* assignment: for any number of channels, runs, streams and profiles, if no two
\* channels share a stream.
THEOREM UncrossedCalls == ASSUME OwnStreams PROVE Spec => []UncrossedCallsAccount
<1>1. Init => Accounts
  <2> SUFFICES ASSUME Init PROVE AccountsFit
    BY DEF Accounts
  <2>1. FirstCalls
    BY DEF Init, FirstCalls, OneAttempt, Kinds
  <2>2. \A p \in Profiles : Slots(p) = {}
    BY PoolAssumption DEF Init, Slots
  <2>3. Counted
    BY <2>2, FS_EmptySet DEF Init, Counted
  <2>4. OneRun /\ IdleChannels /\ \A r \in Runs : RunFits(r)
    BY DEF Init, OneRun, IdleChannels, Active, RunFits
  <2> QED
    BY <2>1, <2>3, <2>4 DEF AccountsFit
<1>2. Accounts /\ PoolTypes /\ PoolTypes' /\ [Next]_vars => Accounts'
  BY AccountsStep
<1>3. Accounts /\ PoolTypes => UncrossedCallsAccount
  <2> SUFFICES ASSUME Accounts, PoolTypes, Exact
               PROVE  /\ \A p \in Profiles : count[p] = Cardinality({r \in Runs : owns[r] = p})
                      /\ \A r \in Runs : stage[r] = "gone" => owns[r] = None
                      /\ \A c \in Channels :
                           (\A r \in Runs : of[r] = c => stage[r] = "gone")
                             => channelStream[c] = None
    BY DEF UncrossedCallsAccount, Exact
  <2>1. AccountsFit
    BY DEF Accounts
  <2> QED
    BY <2>1 DEF AccountsFit, Counted, Slots, RunFits, IdleChannels, Active
<1> QED
  BY <1>1, <1>2, <1>3, PoolTypesInit, PoolTypesStep, PTL DEF Spec

----------------------------------------------------------------------------
(* What the reconciler spares.                                             *)

\* A run whose reservation its listing does not show yet.
LateTune(r)   == stage[r] \in {"tuning", "tuned"}
LateSwitch(r) == stage[r] = "on" /\ Waiting(r, "switch") /\ owns[r] # source[r].profile
Late(r, windows) ==
  (LateTune(r) => <<r, "tune">> \in windows) /\ (LateSwitch(r) => <<r, "switch">> \in windows)

\* A run that is listed on the slot it reserved.
Listed(r) == stage[r] = "on" /\ entry[of[r]] = r /\ source[r].profile = owns[r]

\* A run reserves what it comes to play on.
ReserveFits(r) ==
  LET t == First(r, "tune")
      s == First(r, "switch")
  IN  /\ stage[r] = "none" => owns[r] = None
      /\ stage[r] = "tuning" =>
           owns[r] \in (CASE step[t] \in {"setChannel", "setStream"} -> {loc[t].profile}
                          [] step[t] = "answered" -> {None, loc[t].profile}
                          [] OTHER -> {None})
      /\ stage[r] = "tuned" => owns[r] \in {None, source[r].profile}
      /\ stage[r] = "on" /\ attempt[<<r, "switch">>] # 3 =>
           \/ owns[r] \in {None, source[r].profile}
           \/ step[s] = "answered" /\ owns[r] = loc[s].profile

\* A reservation that no version tells of is older than the listing: its window
\* was open at the one before, and has been shut since.
Spared(r) ==
  LET old(written) == owns[r] \in Profiles \ written
  IN  /\ phase = "idle" /\ seen # None /\ old(moved) => Late(r, open)
      /\ phase # "idle" /\ seen # None /\ old(moved) => Late(r, {})
      /\ phase = "write" /\ old(moving) => Late(r, open)
      /\ phase = "write" /\ seen # None /\ old(moved) /\ Listed(r) => of[r] \in now[owns[r]]


\* What a step of the relay or of a handler may do to a run's reservation.
Keeps(r) ==
  /\ owns'[r] = owns[r] /\ of'[r] = of[r]
  /\ LateTune(r)' => LateTune(r)
  /\ LateSwitch(r)' => LateSwitch(r)
  /\ Listed(r)' => Listed(r) \/ LateTune(r) \/ LateSwitch(r)
Reserves(r) ==
  (seen # None => owns'[r] \in moved') /\ (phase # "idle" => owns'[r] \in moving')
GrowsMoved ==
  (seen # None => moved \subseteq moved') /\ (phase # "idle" => moving \subseteq moving')

\* A reservation stays spared through any step that leaves the reconciler where it
\* is, if it is given up, is written to the versions, or is no later than it was.
LEMMA SparedKeeps ==
  ASSUME NEW r \in Runs, Spared(r), UNCHANGED <<phase, seen, open, now>>, GrowsMoved,
         owns'[r] \notin Profiles \/ Reserves(r) \/ Keeps(r)
  PROVE  Spared(r)'
<1>1. CASE owns'[r] \notin Profiles
  BY <1>1 DEF Spared
<1>2. CASE Reserves(r)
  BY <1>2 DEF Spared, Reserves
<1>3. CASE Keeps(r)
  <2> DEFINE old(written) == owns[r] \in Profiles \ written
  <2>1. owns'[r] = owns[r] /\ of'[r] = of[r] /\ (seen # None /\ old(moved') => old(moved))
        /\ (phase # "idle" /\ old(moving') => old(moving))
    BY <1>3 DEF Keeps, GrowsMoved
  <2>2. ASSUME NEW w PROVE Late(r, w) => (LateTune(r)' => <<r, "tune">> \in w)
                                           /\ (LateSwitch(r)' => <<r, "switch">> \in w)
    BY <1>3 DEF Keeps, Late
  <2>3. /\ phase = "idle" /\ seen # None /\ old(moved') => Late(r, open)
        /\ phase # "idle" /\ seen # None /\ old(moved') => Late(r, {})
        /\ phase = "write" /\ old(moving') => Late(r, open)
    BY <2>1 DEF Spared
  <2>4. phase = "write" /\ seen # None /\ old(moved') /\ Listed(r)' => of[r] \in now[owns[r]]
    BY <1>3, <2>1, <2>3 DEF Spared, Keeps, Late
  <2>5. Late(r, open) => Late(r, open)'
    BY <2>2 DEF Late
  <2>6. Late(r, {}) => Late(r, {})'
    BY <1>3 DEF Late, Keeps
  <2> QED
    BY <2>1, <2>3, <2>4, <2>5, <2>6 DEF Spared
<1> QED
  BY <1>1, <1>2, <1>3

\* A write of the counters tells every counter that it changes.
LEMMA WriteGrows ==
  ASSUME KeysT, NEW counter, Write(counter)
  PROVE  /\ GrowsMoved
         /\ \A p \in Profiles : counter[p] # count[p]
              => (seen # None => p \in moved') /\ (phase # "idle" => p \in moving')
BY DEF Write, GrowsMoved, KeysT

\* What the rest of the run's reservation is kept by.
LEMMA SameReservation ==
  ASSUME NEW r \in Runs, UNCHANGED relay, owns'[r] = owns[r] PROVE Keeps(r)
BY DEF Keeps, relay, LateTune, LateSwitch, Listed, Waiting

\* Its handlers' steps are elsewhere.
LEMMA SameFits ==
  ASSUME NEW q \in Runs, ReserveFits(q), owns'[q] = owns[q], stage'[q] = stage[q],
         source'[q] = source[q], attempt'[<<q, "switch">>] = attempt[<<q, "switch">>],
         \A k \in Kinds : step'[First(q, k)] = step[First(q, k)]
                            /\ loc'[First(q, k)] = loc[First(q, k)]
  PROVE  ReserveFits(q)'
<1>1. \A k \in {"tune", "switch"} :
        step'[First(q, k)] = step[First(q, k)] /\ loc'[First(q, k)] = loc[First(q, k)]
  BY DEF Kinds
<1> QED
  BY <1>1 DEF ReserveFits, First

Sparing == OneAttempt /\ \A r \in Runs : ReserveFits(r) /\ Spared(r)

\* A handler reserves what its run comes to play on.
LEMMA HandlerSpares ==
  ASSUME PoolTypes, PoolTypes', Sparing, NEW h \in Handlers, HandlerStep(h)
  PROVE  Sparing'
<1> DEFINE r == h[1]
           l == loc[h]
<1>1. /\ r \in Runs /\ KeysT /\ PastT /\ HandlersT /\ OneAttempt /\ ReserveFits(r) /\ l \in LocRecs
      /\ HasSet(h[2], step[h], l) /\ step[h] \notin {"none", "answered", "dead"}
      /\ owns \in [Runs -> Profiles \cup {None}]
  BY HandlerParts DEF PoolTypes, HandlersT, PastT, Sparing, HandlerStep
<1>2. /\ h = First(r, h[2]) /\ h[2] \in Kinds /\ attempt[<<r, h[2]>>] = 1
      /\ of[r] \in Channels
      /\ h[2] = "tune" => stage[r] = "tuning"
      /\ h[2] = "release" => stage[r] = "over"
  BY <1>1, AtWork
<1> HIDE DEF l
<1>3. UNCHANGED <<relay, reconciler>>
  BY DEF HandlerStep, TuneStep, SwitchStep, ReleaseStep, GetAssignment, AskRelay, Reuse, ReadStale,
      GiveStale, ClearStale, Reserve, Refuse, SetChannelStream, SetStreamProfile, Select,
      ReadOld, Move,
      FindChannelStream, DelChannelStream, GetStreamProfile, DelStreamProfile, Fallback, Give
\* A step to s with m.
<1>4. ASSUME NEW s, s # "dead", NEW m, step' = [step EXCEPT ![h] = s], loc' = [loc EXCEPT ![h] = m],
             GrowsMoved, NEW x, owns' = [owns EXCEPT ![r] = x],
             \/ x = owns[r] \/ x \notin Profiles
             \/ (seen # None => x \in moved') /\ (phase # "idle" => x \in moving'),
             h[2] = "tune" => x \in (CASE s \in {"setChannel", "setStream"} -> {m.profile}
                                       [] s = "answered" -> {None, m.profile}
                                       [] OTHER -> {None}),
             h[2] = "switch" => x = owns[r] \/ (s = "answered" /\ x = m.profile)
      PROVE  Sparing'
  <2>1. /\ OneAttempt' /\ step'[h] = s /\ loc'[h] = m /\ stage'[r] = stage[r]
        /\ \A q \in Runs \ {r}, k \in Kinds : step'[First(q, k)] = step[First(q, k)]
                                                /\ loc'[First(q, k)] = loc[First(q, k)]
    BY <1>1, <1>3, <1>4, HandlerFrame
  <2>2. owns'[r] = x /\ \A q \in Runs \ {r} : owns'[q] = owns[q]
    BY <1>1, <1>4
  <2>3. ASSUME NEW q \in Runs PROVE Spared(q)'
    <3>1. owns'[q] \notin Profiles \/ Reserves(q) \/ Keeps(q)
      <4>1. CASE owns'[q] = owns[q]
        BY <1>3, <4>1, SameReservation
      <4>2. CASE owns'[q] # owns[q]
        BY <1>4, <2>2, <4>2 DEF Reserves
      <4> QED
        BY <4>1, <4>2
    <3> QED
      BY <1>3, <1>4, <3>1, SparedKeeps DEF reconciler, Sparing
  <2>4. ASSUME NEW q \in Runs \ {r} PROVE ReserveFits(q)'
    BY <1>3, <2>1, <2>2, SameFits DEF relay, Sparing
  <2>5. ReserveFits(r)'
    <3>1. /\ attempt' = attempt /\ source' = source /\ stage[r] # "none"
      BY <1>1, <1>2, <1>3 DEF relay, HandlersT, PoolTypes, RelayT
    <3>2. CASE h[2] = "tune"
      BY <1>2, <1>4, <2>1, <2>2, <3>1, <3>2 DEF ReserveFits, First
    <3>3. CASE h[2] = "release"
      BY <1>2, <2>1, <3>1, <3>3 DEF ReserveFits
    <3>4. CASE h[2] = "switch"
      <4>1. stage[r] \in {"on", "over", "gone"}
        <5>1. CallsFit(r) /\ attempt[<<r, "switch">>] = 1
          BY <1>1, <1>2, <3>4 DEF PoolTypes, RelayT
        <5> QED
          BY <5>1 DEF CallsFit
      <4>2. x = owns[r] \/ (s = "answered" /\ x = m.profile)
        BY <1>4, <3>4
      <4>3. stage[r] = "on" => owns[r] \in {None, source[r].profile}
        BY <1>1, <1>2, <3>4 DEF ReserveFits
      <4> QED
        BY <1>2, <2>1, <2>2, <3>1, <3>4, <4>1, <4>2, <4>3 DEF ReserveFits, First
    <3> QED
      BY <1>2, <3>2, <3>3, <3>4 DEF Kinds
  <2> QED
    BY <2>1, <2>3, <2>4, <2>5 DEF Sparing
<1>5. ASSUME UNCHANGED <<moved, moving>> PROVE GrowsMoved
  BY <1>5 DEF GrowsMoved
<1>6. (UNCHANGED owns => owns' = [owns EXCEPT ![r] = owns[r]])
      /\ (UNCHANGED loc => loc' = [loc EXCEPT ![h] = l])
      /\ (UNCHANGED step => step' = [step EXCEPT ![h] = step[h]])
  BY <1>1 DEF HandlersT, l
<1>7. ASSUME h[2] = "tune"
      PROVE  owns[r] \in (CASE step[h] \in {"setChannel", "setStream"} -> {l.profile}
                            [] OTHER -> {None})
  BY <1>1, <1>2, <1>7 DEF ReserveFits, l
\* A step that reserves nothing.
<1>8. ASSUME NEW s \in {"snapshot", "reuse", "stale", "give", "clear", "walk", "commit", "move",
                       "delChannel", "getStream", "delStream", "fallback", "answered"},
             NEW m, step' = [step EXCEPT ![h] = s], loc' = [loc EXCEPT ![h] = m],
             GrowsMoved, UNCHANGED owns, h[2] = "tune" => owns[r] \in {None, m.profile},
             h[2] = "tune" => owns[r] = None \/ s = "answered"
      PROVE  Sparing'
  BY <1>4, <1>6, <1>8
<1>9. CASE h[2] = "tune" /\ TuneStep(h)
  <2>1. step[h] \notin {"setChannel", "setStream"} => owns[r] = None
    BY <1>7, <1>9
  <2>2. CASE GetAssignment(h) \/ AskRelay(h) \/ Reuse(h) \/ ReadStale(h) \/ Refuse(h)
    <3>1. /\ owns[r] = None /\ UNCHANGED <<moved, moving, owns>>
          /\ \E s \in {"snapshot", "reuse", "stale", "give", "clear", "walk", "answered"} :
               step' = [step EXCEPT ![h] = s]
          /\ \E m : loc' = [loc EXCEPT ![h] = m]
      BY <1>6, <2>1, <2>2
      DEF GetAssignment, AskRelay, Reuse, ReadStale, Refuse, At, Goes, Keep, redis, history
    <3> QED
      BY <1>5, <1>8, <3>1
  <2>3. CASE GiveStale(h)
    <3>1. /\ owns[r] = None /\ UNCHANGED owns /\ step' = [step EXCEPT ![h] = "clear"]
          /\ loc' = [loc EXCEPT ![h] = l] /\ Write(GiveBack(count, l.old))
      BY <1>6, <2>1, <2>3 DEF GiveStale, At, Goes, history, l
    <3>2. GrowsMoved
      BY <1>1, <3>1, WriteGrows
    <3> QED
      BY <1>8, <3>1, <3>2
  <2>4. CASE ClearStale(h)
    <3>1. /\ owns[r] = None /\ UNCHANGED <<moved, moving, owns>>
          /\ step' = [step EXCEPT ![h] = "walk"] /\ loc' = [loc EXCEPT ![h] = l]
      BY <1>6, <2>1, <2>4 DEF ClearStale, At, Goes, history, counters
    <3> QED
      BY <1>5, <1>8, <3>1
  <2>5. CASE Reserve(h)
    <3> DEFINE src == Candidates[of[r]][l.next]
               p == src.profile
    <3>1. p \in Profiles /\ owns[r] = None
      <4>1. of[r] \in Channels /\ l.next \in 1..Len(Candidates[of[r]]) /\ step[h] = "walk"
        BY <1>1, <1>2, <1>9, <2>5, PoolAssumption DEF Reserve, HasSet, LocRecs, l, At
      <4>2. src \in Source
        BY <4>1, PoolAssumption
      <4> QED
        BY <2>1, <4>1, <4>2 DEF Source
    <3>2. CASE /\ Write(Take(count, p)) /\ owns' = [owns EXCEPT ![r] = p]
               /\ loc' = [loc EXCEPT ![h] = [l EXCEPT !.stream = src.stream, !.profile = p]]
               /\ step' = [step EXCEPT ![h] = "setChannel"]
      <4> DEFINE m == [l EXCEPT !.stream = src.stream, !.profile = p]
      <4>1. m.profile = p /\ loc' = [loc EXCEPT ![h] = m]
        BY <1>1, <3>2 DEF LocRecs
      <4>2. Take(count, p)[p] # count[p]
        BY <1>1, <3>1 DEF Take, KeysT
      <4>3. GrowsMoved /\ (seen # None => p \in moved') /\ (phase # "idle" => p \in moving')
        BY <1>1, <3>1, <3>2, <4>2, WriteGrows
      <4> HIDE DEF m, p
      <4> QED
        BY <1>4, <1>9, <3>2, <4>1, <4>3
    <3>3. CASE /\ loc' = [loc EXCEPT ![h] = [l EXCEPT !.next = @ + 1]]
               /\ UNCHANGED <<counters, owns, step>>
      <4>1. step' = [step EXCEPT ![h] = "walk"] /\ \E m : loc' = [loc EXCEPT ![h] = m]
        BY <1>6, <2>5, <3>3 DEF Reserve, At
      <4> QED
        BY <1>5, <1>8, <3>1, <3>3, <4>1 DEF counters
    <3> QED
      BY <2>5, <3>2, <3>3 DEF Reserve, Keep, Goes, l
  <2>6. CASE SetChannelStream(h)
    <3>1. /\ owns[r] = l.profile /\ UNCHANGED <<moved, moving, owns>>
          /\ step' = [step EXCEPT ![h] = "setStream"] /\ loc' = [loc EXCEPT ![h] = l]
      BY <1>6, <1>7, <1>9, <2>6 DEF SetChannelStream, At, Goes, history, counters
    <3> QED
      BY <1>4, <1>5, <1>6, <1>9, <3>1
  <2>7. CASE SetStreamProfile(h)
    <3>1. /\ owns[r] = l.profile /\ UNCHANGED <<moved, moving, owns>>
          /\ step' = [step EXCEPT ![h] = "answered"] /\ loc' = [loc EXCEPT ![h] = l]
      BY <1>6, <1>7, <1>9, <2>7 DEF SetStreamProfile, At, Goes, history, counters
    <3> QED
      BY <1>5, <1>8, <3>1
  <2> QED
    BY <1>9, <2>2, <2>3, <2>4, <2>5, <2>6, <2>7 DEF TuneStep
<1>10. CASE h[2] = "switch" /\ SwitchStep(h)
  <2>1. CASE Select(h) \/ ReadOld(h)
    <3>1. /\ UNCHANGED <<moved, moving, owns>>
          /\ \E s \in {"commit", "answered", "move"} : step' = [step EXCEPT ![h] = s]
          /\ \E m : loc' = [loc EXCEPT ![h] = m]
      BY <1>6, <2>1 DEF Select, ReadOld, At, Goes, Keep, redis, history
    <3> QED
      BY <1>5, <1>8, <1>10, <3>1
  <2>2. CASE Move(h)
    <3>1. /\ l.profile \in Profiles /\ l.old \in Profiles /\ l.old # l.profile
          /\ Write(Take(GiveBack(count, l.old), l.profile))
          /\ owns' = [owns EXCEPT ![r] = l.profile]
          /\ step' = [step EXCEPT ![h] = "answered"] /\ loc' = [loc EXCEPT ![h] = l]
      BY <1>1, <1>6, <1>10, <2>2 DEF Move, At, Goes, HasSet, l
    <3>2. Take(GiveBack(count, l.old), l.profile)[l.profile] # count[l.profile]
      BY <1>1, <3>1 DEF Take, GiveBack, KeysT
    <3>3. GrowsMoved /\ (seen # None => l.profile \in moved')
            /\ (phase # "idle" => l.profile \in moving')
      BY <1>1, <3>1, <3>2, WriteGrows
    <3> QED
      BY <1>4, <1>10, <3>1, <3>3
  <2> QED
    BY <1>10, <2>1, <2>2 DEF SwitchStep
<1>11. CASE h[2] = "release" /\ ReleaseStep(h)
  <2>1. CASE FindChannelStream(h) \/ DelChannelStream(h) \/ GetStreamProfile(h)
               \/ DelStreamProfile(h) \/ Fallback(h)
    <3>1. /\ UNCHANGED <<moved, moving, owns>>
          /\ \E s \in {"delChannel", "getStream", "delStream", "fallback", "give"} :
               step' = [step EXCEPT ![h] = s]
          /\ \E m : loc' = [loc EXCEPT ![h] = m]
      BY <1>6, <2>1
      DEF FindChannelStream, DelChannelStream, GetStreamProfile, DelStreamProfile, Fallback, At,
      Goes,
          Keep, redis, history, counters
    <3> QED
      BY <1>5, <1>8, <1>11, <3>1
  <2>2. CASE Give(h)
    <3>1. /\ Write(GiveBack(count, l.old)) /\ loc' = [loc EXCEPT ![h] = Asks(l)]
          /\ owns' = (IF owns[r] = l.old THEN [owns EXCEPT ![r] = None] ELSE owns)
          /\ step' = [step EXCEPT ![h] = "answered"]
      BY <2>2 DEF Give, Goes, Keep, l
    <3>2. GrowsMoved
      BY <1>1, <3>1, WriteGrows
    <3>3. CASE owns[r] = l.old
      BY <1>4, <1>11, <3>1, <3>2, <3>3, PoolAssumption
    <3>4. CASE owns[r] # l.old
      BY <1>8, <1>11, <3>1, <3>2, <3>4
    <3> QED
      BY <3>3, <3>4
  <2> QED
    BY <1>11, <2>1, <2>2 DEF ReleaseStep
<1> QED
  BY <1>9, <1>10, <1>11 DEF HandlerStep

\* What a run does by itself reserves nothing.
LEMMA RunSpares ==
  ASSUME PoolTypes, PoolTypes', Sparing, NEW r \in Runs,
         \/ \E c \in Channels : Start(r, c)
         \/ RelayStep(r) \/ Switch(r) \/ Unlist(r) \/ RunEnds(r)
  PROVE  Sparing'
<1>1. /\ RelayT /\ HandlersT /\ PastT /\ OneAttempt /\ ReserveFits(r) /\ CallsFit(r)
      /\ \A q \in Runs, k \in Kinds : First(q, k) \in Handlers
      /\ "tune" \in Kinds /\ "switch" \in Kinds /\ "release" \in Kinds
  BY DEF PoolTypes, Sparing, RelayT, First, Handlers, Attempts, Kinds
<1>2. UNCHANGED <<moved, moving, owns, reconciler>>
  BY DEF Start, RelayStep, Tuned, Publish, Switched, Released, Switch, Unlist, RunEnds, redis,
     history
\* A step of r alone, after which its reservation is what it plays on.
<1>3. ASSUME OneAttempt', ReserveFits(r)', owns[r] = None \/ Keeps(r),
             \A q \in Runs \ {r} :
               /\ stage'[q] = stage[q] /\ of'[q] = of[q] /\ source'[q] = source[q]
               /\ entry'[of[q]] = q => entry[of[q]] = q
               /\ \A k \in Kinds : /\ attempt'[<<q, k>>] = attempt[<<q, k>>]
                                   /\ step'[First(q, k)] = step[First(q, k)]
                                   /\ loc'[First(q, k)] = loc[First(q, k)]
      PROVE  Sparing'
  <2>1. ASSUME NEW q \in Runs \ {r} PROVE Keeps(q) /\ ReserveFits(q)'
    <3>1. Keeps(q)
      <4>1. Waiting(q, "switch")' <=> Waiting(q, "switch")
        BY <1>1, <1>3 DEF Waiting
      <4> QED
        BY <1>2, <1>3, <4>1 DEF Keeps, LateTune, LateSwitch, Listed
    <3>2. ReserveFits(q)'
      BY <1>1, <1>2, <1>3, SameFits DEF Sparing
    <3> QED
      BY <3>1, <3>2
  <2>2. ASSUME NEW q \in Runs PROVE Spared(q)'
    <3>1. owns'[q] \notin Profiles \/ Keeps(q)
      BY <1>2, <1>3, <2>1, PoolAssumption
    <3> QED
      BY <1>2, <3>1, SparedKeeps DEF reconciler, Sparing, GrowsMoved
  <2> QED
    BY <1>3, <2>1, <2>2 DEF Sparing
\* A call that starts or is over.
<1>4. ASSUME NEW k \in Kinds, NEW n \in {1, 3},
             attempt' = [attempt EXCEPT ![<<r, k>>] = n],
             \/ n = 1 /\ step' = [step EXCEPT ![First(r, k)] = "begin"]
             \/ n = 3 /\ UNCHANGED step /\ step[First(r, k)] = "answered",
             \A g \in Handlers : g # First(r, k) => loc'[g] = loc[g]
      PROVE  /\ OneAttempt' /\ attempt'[<<r, k>>] = n
             /\ step'[First(r, k)] = IF n = 1 THEN "begin" ELSE "answered"
             /\ \A j \in Kinds \ {k} : /\ step'[First(r, j)] = step[First(r, j)]
                                       /\ loc'[First(r, j)] = loc[First(r, j)]
                                       /\ attempt'[<<r, j>>] = attempt[<<r, j>>]
             /\ \A q \in Runs \ {r} : \A j \in Kinds : /\ attempt'[<<q, j>>] = attempt[<<q, j>>]
                                                       /\ step'[First(q, j)] = step[First(q, j)]
                                                       /\ loc'[First(q, j)] = loc[First(q, j)]
  <2>1. /\ OneAttempt' /\ attempt'[<<r, k>>] = n
        /\ step'[First(r, k)] = IF n = 1 THEN "begin" ELSE "answered"
        /\ \A j \in Kinds \ {k} : step'[First(r, j)] = step[First(r, j)]
                                    /\ loc'[First(r, j)] = loc[First(r, j)]
        /\ \A q \in Runs \ {r}, j \in Kinds : step'[First(q, j)] = step[First(q, j)]
                                                 /\ loc'[First(q, j)] = loc[First(q, j)]
        /\ \A q \in Runs, j \in Kinds : q # r \/ j # k => attempt'[<<q, j>>] = attempt[<<q, j>>]
    BY <1>1, <1>4, CallFrame
  <2> QED
    BY <2>1
<1>5. ASSUME NEW k \in Kinds, Waiting(r, k), step[Handler(r, k)] = "answered"
      PROVE  Handler(r, k) = First(r, k) /\ attempt[<<r, k>>] = 1
  BY <1>1, <1>5 DEF OneAttempt, Waiting, Attempts, Handler, First
<1>6. ASSUME NEW c \in Channels, Start(r, c) PROVE Sparing'
  <2>1. /\ stage[r] = "none" /\ owns[r] = None /\ Try(r, "tune", 1) /\ UNCHANGED <<loc, source>>
        /\ stage' = [stage EXCEPT ![r] = "tuning"] /\ of' = [of EXCEPT ![r] = c]
        /\ entry' = [entry EXCEPT ![c] = None]
    BY <1>1, <1>6 DEF Start, ReserveFits
  <2>2. /\ attempt' = [attempt EXCEPT ![<<r, "tune">>] = 1]
        /\ step' = [step EXCEPT ![First(r, "tune")] = "begin"]
    BY <2>1 DEF Try, First
  <2>3. /\ OneAttempt' /\ step'[First(r, "tune")] = "begin"
        /\ \A q \in Runs \ {r} : \A j \in Kinds : /\ attempt'[<<q, j>>] = attempt[<<q, j>>]
                                                  /\ step'[First(q, j)] = step[First(q, j)]
                                                  /\ loc'[First(q, j)] = loc[First(q, j)]
    BY <1>1, <1>4, <2>1, <2>2
  <2>4. /\ stage'[r] = "tuning" /\ \A q \in Runs \ {r} : stage'[q] = stage[q] /\ of'[q] = of[q]
    BY <1>1, <2>1 DEF RelayT
  <2>5. \A q \in Runs \ {r} : entry'[of[q]] = q => entry[of[q]] = q
    <3>1. \A d \in Channels : entry'[d] = entry[d] \/ entry'[d] = None
      BY <1>1, <2>1 DEF RelayT
    <3>2. \A q \in Runs : q # None
      BY PoolAssumption DEF Runs
    <3>3. \A q \in Runs : of[q] \in Channels \/ entry'[of[q]] = entry[of[q]]
      BY <1>1, <2>1, PoolAssumption DEF RelayT
    <3> QED
      BY <3>1, <3>2, <3>3
  <2>6. ReserveFits(r)'
    BY <1>2, <2>1, <2>3, <2>4 DEF ReserveFits, First
  <2> QED
    BY <1>3, <2>1, <2>3, <2>4, <2>5, <2>6
<1>7. CASE Unlist(r)
  <2>1. UNCHANGED <<stage, attempt, step, loc, of, source>>
    BY <1>7 DEF Unlist, django
  <2>2. \A q \in Runs : entry'[of[q]] = q => entry[of[q]] = q
    <3>1. of[r] \in Channels /\ entry' = [entry EXCEPT ![of[r]] = None]
      BY <1>1, <1>7 DEF Unlist, RelayT
    <3>2. \A d \in Channels : entry'[d] = entry[d] \/ entry'[d] = None
      BY <1>1, <3>1 DEF RelayT
    <3>3. \A q \in Runs : q # None /\ of[q] \in Channels \cup {None}
      BY <1>1, PoolAssumption DEF Runs, RelayT
    <3>4. entry'[None] = entry[None]
      BY <1>1, <3>1, PoolAssumption DEF RelayT
    <3> QED
      BY <3>2, <3>3, <3>4
  <2>3. Keeps(r)
    BY <1>2, <2>1, <2>2 DEF Keeps, LateTune, LateSwitch, Listed, Waiting
  <2>4. OneAttempt' /\ ReserveFits(r)'
    BY <1>1, <1>2, <2>1 DEF OneAttempt, ReserveFits, First
  <2> QED
    BY <1>3, <2>1, <2>2, <2>3, <2>4
<1>8. CASE Publish(r)
  <2>1. /\ stage[r] = "tuned" /\ stage' = [stage EXCEPT ![r] = "on"]
        /\ entry' = [entry EXCEPT ![of[r]] = r]
        /\ UNCHANGED <<attempt, step, loc, of, source>>
    BY <1>8 DEF Publish, django
  <2>2. stage'[r] = "on" /\ \A q \in Runs \ {r} : stage'[q] = stage[q]
    BY <1>1, <2>1 DEF RelayT
  <2>3. \A q \in Runs \ {r} : entry'[of[q]] = q => entry[of[q]] = q
    BY <1>1, <2>1 DEF RelayT
  <2>4. attempt[<<r, "switch">>] = 0
    BY <1>1, <2>1 DEF CallsFit
  <2>5. Keeps(r)
    BY <1>2, <2>1, <2>2, <2>4 DEF Keeps, LateTune, LateSwitch, Listed, Waiting, Attempts
  <2>6. OneAttempt' /\ ReserveFits(r)'
    BY <1>1, <1>2, <2>1, <2>2 DEF OneAttempt, ReserveFits, First
  <2> QED
    BY <1>3, <2>1, <2>2, <2>3, <2>5, <2>6
<1>9. CASE Tuned(r)
  <2> DEFINE h == First(r, "tune")
  <2>1. /\ h = Handler(r, "tune") /\ step[h] = "answered" /\ stage[r] = "tuning"
    BY <1>1, <1>5, <1>9 DEF Tuned, CallsFit
  <2>2. /\ attempt' = [attempt EXCEPT ![<<r, "tune">>] = 3] /\ UNCHANGED <<step, of, entry>>
        /\ loc' = [loc EXCEPT ![h] = NoLocals]
        /\ \/ stage' = [stage EXCEPT ![r] = "gone"] /\ UNCHANGED source
           \/ /\ stage' = [stage EXCEPT ![r] = "tuned"]
              /\ source' = [source EXCEPT ![r] = [stream |-> loc[h].stream, profile |-> loc[h].profile]]
    BY <1>9, <2>1 DEF Tuned, Done, Answer
  <2>3. /\ \/ stage'[r] = "gone"
           \/ stage'[r] = "tuned" /\ source'[r].profile = loc[h].profile
        /\ \A q \in Runs \ {r} : stage'[q] = stage[q] /\ source'[q] = source[q]
        /\ \A g \in Handlers : g # h => loc'[g] = loc[g]
    BY <1>1, <2>1, <2>2 DEF RelayT, HandlersT
  <2>4. /\ OneAttempt'
        /\ \A q \in Runs \ {r} : \A j \in Kinds : /\ attempt'[<<q, j>>] = attempt[<<q, j>>]
                                                  /\ step'[First(q, j)] = step[First(q, j)]
                                                  /\ loc'[First(q, j)] = loc[First(q, j)]
    BY <1>1, <1>4, <2>1, <2>2, <2>3
  <2>5. owns[r] \in {None, loc[h].profile}
    BY <1>1, <2>1 DEF ReserveFits
  <2>6. ReserveFits(r)'
    BY <1>2, <2>3, <2>5 DEF ReserveFits
  <2>7. Keeps(r)
    BY <1>2, <2>1, <2>2, <2>3 DEF Keeps, LateTune, LateSwitch, Listed
  <2> QED
    BY <1>3, <2>2, <2>3, <2>4, <2>6, <2>7
<1>10. CASE Switched(r)
  <2> DEFINE h == First(r, "switch")
  <2>1. /\ h = Handler(r, "switch") /\ step[h] = "answered" /\ attempt[<<r, "switch">>] = 1
        /\ stage[r] \in {"on", "over", "gone"} /\ Waiting(r, "switch")
    BY <1>1, <1>5, <1>10 DEF Switched, CallsFit
  <2>2. /\ attempt' = [attempt EXCEPT ![<<r, "switch">>] = 3]
        /\ loc' = [loc EXCEPT ![h] = NoLocals] /\ UNCHANGED <<step, of, entry, stage>>
    BY <1>10, <2>1 DEF Switched, Done
  <2>3. /\ \A g \in Handlers : g # h => loc'[g] = loc[g]
        /\ \A q \in Runs \ {r} : source'[q] = source[q]
    BY <1>1, <1>10, <2>2 DEF HandlersT, RelayT, Switched
  <2>4. /\ OneAttempt' /\ attempt'[<<r, "switch">>] = 3
        /\ \A q \in Runs \ {r} : \A j \in Kinds : /\ attempt'[<<q, j>>] = attempt[<<q, j>>]
                                                  /\ step'[First(q, j)] = step[First(q, j)]
                                                  /\ loc'[First(q, j)] = loc[First(q, j)]
    BY <1>1, <1>4, <2>1, <2>2, <2>3
  <2>5. ReserveFits(r)'
    BY <2>1, <2>2, <2>4 DEF ReserveFits
  <2>6. Keeps(r)
    <3>1. ~LateSwitch(r)'
      BY <2>4 DEF LateSwitch, Waiting, Attempts
    <3>2. Listed(r)' => Listed(r) \/ LateSwitch(r)
      BY <1>2, <2>1, <2>2 DEF Listed, LateSwitch
    <3> QED
      BY <1>2, <2>2, <3>1, <3>2 DEF Keeps, LateTune
  <2> QED
    BY <1>3, <2>2, <2>3, <2>4, <2>5, <2>6
<1>11. CASE Released(r)
  <2> DEFINE h == First(r, "release")
  <2>1. /\ h = Handler(r, "release") /\ step[h] = "answered" /\ stage[r] = "over"
    BY <1>1, <1>5, <1>11 DEF Released, CallsFit
  <2>2. /\ attempt' = [attempt EXCEPT ![<<r, "release">>] = 3]
        /\ UNCHANGED <<step, of, entry, source>>
        /\ loc' = [loc EXCEPT ![h] = NoLocals] /\ stage' = [stage EXCEPT ![r] = "gone"]
    BY <1>11, <2>1 DEF Released, Done
  <2>3. /\ stage'[r] = "gone" /\ \A q \in Runs \ {r} : stage'[q] = stage[q]
        /\ \A g \in Handlers : g # h => loc'[g] = loc[g]
    BY <1>1, <2>1, <2>2 DEF RelayT, HandlersT
  <2>4. /\ OneAttempt'
        /\ \A q \in Runs \ {r} : \A j \in Kinds : /\ attempt'[<<q, j>>] = attempt[<<q, j>>]
                                                  /\ step'[First(q, j)] = step[First(q, j)]
                                                  /\ loc'[First(q, j)] = loc[First(q, j)]
    BY <1>1, <1>4, <2>1, <2>2, <2>3
  <2>5. ReserveFits(r)' /\ Keeps(r)
    BY <1>2, <2>2, <2>3 DEF ReserveFits, Keeps, LateTune, LateSwitch, Listed
  <2> QED
    BY <1>3, <2>2, <2>3, <2>4, <2>5
<1>12. CASE Switch(r)
  <2>1. /\ stage[r] = "on" /\ Try(r, "switch", 1) /\ UNCHANGED <<stage, loc, of, entry, source>>
        /\ attempt[<<r, "switch">>] = 0
    BY <1>12 DEF Switch
  <2>2. /\ attempt' = [attempt EXCEPT ![<<r, "switch">>] = 1]
        /\ step' = [step EXCEPT ![First(r, "switch")] = "begin"]
    BY <2>1 DEF Try, First
  <2>3. /\ OneAttempt'
        /\ \A q \in Runs \ {r} : \A j \in Kinds : /\ attempt'[<<q, j>>] = attempt[<<q, j>>]
                                                  /\ step'[First(q, j)] = step[First(q, j)]
                                                  /\ loc'[First(q, j)] = loc[First(q, j)]
    BY <1>1, <1>4, <2>1, <2>2
  <2>4. owns[r] \in {None, source[r].profile}
    <3>1. First(r, "switch") \in Handlers /\ First(r, "switch") = <<r, "switch", 1>>
      BY <1>1 DEF First
    <3>2. step[First(r, "switch")] = "none"
      BY <1>1, <2>1, <3>1 DEF HandlersT
    <3> QED
      BY <1>1, <2>1, <3>2 DEF ReserveFits
  <2>5. ReserveFits(r)'
    BY <1>2, <2>1, <2>4 DEF ReserveFits
  <2>6. owns[r] = None \/ Keeps(r)
    BY <1>2, <2>1, <2>4 DEF Keeps, LateTune, LateSwitch, Listed
  <2> QED
    BY <1>3, <2>1, <2>3, <2>5, <2>6
<1>13. CASE RunEnds(r)
  <2> DEFINE h == First(r, "release")
  <2>1. /\ stage[r] = "on" /\ stage' = [stage EXCEPT ![r] = "over"] /\ Try(r, "release", 1)
        /\ loc' = [loc EXCEPT ![h] = Asks(source[r])] /\ UNCHANGED <<of, entry, source>>
    BY <1>13 DEF RunEnds, First
  <2>2. /\ attempt' = [attempt EXCEPT ![<<r, "release">>] = 1]
        /\ step' = [step EXCEPT ![h] = "begin"]
    BY <2>1 DEF Try, First
  <2>3. /\ stage'[r] = "over" /\ \A q \in Runs \ {r} : stage'[q] = stage[q]
        /\ \A g \in Handlers : g # h => loc'[g] = loc[g]
    BY <1>1, <2>1, <2>2 DEF RelayT, HandlersT
  <2>4. /\ OneAttempt'
        /\ \A q \in Runs \ {r} : \A j \in Kinds : /\ attempt'[<<q, j>>] = attempt[<<q, j>>]
                                                  /\ step'[First(q, j)] = step[First(q, j)]
                                                  /\ loc'[First(q, j)] = loc[First(q, j)]
    BY <1>1, <1>4, <2>1, <2>2, <2>3
  <2>5. ReserveFits(r)' /\ Keeps(r)
    BY <1>2, <2>1, <2>3 DEF ReserveFits, Keeps, LateTune, LateSwitch, Listed
  <2> QED
    BY <1>3, <2>1, <2>3, <2>4, <2>5
<1> QED
  BY <1>6, <1>7, <1>8, <1>9, <1>10, <1>11, <1>12, <1>13 DEF RelayStep

\* The reconciler looks again only when the windows it found open are shut.
LEMMA ReconcilerSpares ==
  ASSUME PoolTypes, Sparing, ReconcilerStep \/ SkipRun PROVE Sparing'
<1>1. UNCHANGED <<relay, django, owns, stage, of, source, attempt, step, loc, entry>>
  BY DEF ReconcilerStep, ReadVersions, ListChannels, SkipRun, Reconcile, relay, django, history
<1>2. OneAttempt' /\ \A r \in Runs : ReserveFits(r)'
  BY <1>1 DEF Sparing, OneAttempt, ReserveFits, First
<1>3. ASSUME NEW r \in Runs
      PROVE  /\ LateTune(r)' <=> LateTune(r)
             /\ LateSwitch(r)' <=> LateSwitch(r)
             /\ Listed(r)' <=> Listed(r)
  BY <1>1 DEF LateTune, LateSwitch, Listed, Waiting
<1>4. ASSUME NEW r \in Runs PROVE Late(r, Windows)
  BY DEF Late, Windows, LateTune, LateSwitch
<1>5. RelayT /\ ReconT
  BY DEF PoolTypes
<1>6. ASSUME NEW r \in Runs PROVE Spared(r)'
  <2>1. Spared(r)
    BY DEF Sparing
  <2>2. CASE ReadVersions
    <3>1. phase = "idle" /\ open \cap Windows = {} /\ phase' = "list" /\ UNCHANGED <<seen, moved>>
      BY <2>2 DEF ReadVersions, redis
    <3>2. Late(r, open) => Late(r, {})
      BY <1>4, <3>1 DEF Late
    <3>3. Late(r, {}) => Late(r, {})'
      BY <1>3 DEF Late
    <3> QED
      BY <1>1, <2>1, <3>1, <3>2, <3>3 DEF Spared
  <2>3. CASE ListChannels
    <3>1. /\ phase = "list" /\ phase' = "write" /\ open' = Windows /\ UNCHANGED <<seen, moved>>
          /\ now' = [p \in Profiles |-> Holders(p)]
      BY <2>3 DEF ListChannels, redis
    <3>2. Late(r, open)' /\ (Late(r, {}) => Late(r, {})')
      BY <1>3, <1>4, <3>1 DEF Late
    <3>3. owns[r] \in Profiles /\ Listed(r) => of[r] \in now'[owns[r]]
      <4>1. stage[r] = "on" => of[r] \in Channels
        BY <1>5 DEF RelayT
      <4>2. r # None
        BY PoolAssumption DEF Runs
      <4> QED
        BY <3>1, <4>1, <4>2 DEF Listed, Holders
    <3> QED
      BY <1>1, <1>3, <2>1, <3>1, <3>2, <3>3 DEF Spared
  <2>4. CASE SkipRun
    <3>1. phase = "list" /\ phase' = "idle" /\ UNCHANGED <<seen, moved, open>>
      BY <2>4 DEF SkipRun
    <3>2. Late(r, {}) => Late(r, open)'
      BY <1>3 DEF Late
    <3> QED
      BY <1>1, <2>1, <3>1, <3>2 DEF Spared
  <2>5. CASE Reconcile
    <3>1. phase = "write" /\ phase' = "idle" /\ moved' = moving /\ UNCHANGED open
      BY <2>5 DEF Reconcile
    <3>2. Late(r, open) => Late(r, open)'
      BY <1>3, <3>1 DEF Late
    <3> QED
      BY <1>1, <2>1, <3>1, <3>2 DEF Spared
  <2> QED
    BY <2>2, <2>3, <2>4, <2>5 DEF ReconcilerStep
<1> QED
  BY <1>2, <1>6 DEF Sparing

\* While no call has failed, every step spares the reservations.
LEMMA SparingStep ==
  ASSUME PoolTypes, PoolTypes', faults = 0 => Sparing, [Next]_vars PROVE faults' = 0 => Sparing'
<1> SUFFICES ASSUME faults' = 0 PROVE Sparing'
  OBVIOUS
<1>1. faults \in Nat
  BY PoolAssumption DEF PoolTypes, ReconT
<1>2. ASSUME NEW r \in Runs,
             \/ \E c \in Channels : Start(r, c)
             \/ RelayStep(r) \/ Switch(r) \/ Unlist(r) \/ RunEnds(r)
      PROVE  Sparing'
  <2>1. faults' = faults
    BY <1>2 DEF Start, RelayStep, Tuned, Publish, Switched, Released, Switch, Unlist, RunEnds
  <2> QED
    BY <1>2, <2>1, RunSpares
<1>3. ASSUME NEW r \in Runs, NEW k \in Kinds, FirstFails(r, k) \/ GivesUp(r, k) \/ StartFails(r)
      PROVE  FALSE
  <2>1. attempt[<<r, k>>] = 2 /\ faults' = faults
    BY <1>1, <1>3 DEF FirstFails, GivesUp, StartFails
  <2> QED
    BY <2>1 DEF Sparing, OneAttempt
<1>4. ASSUME NEW h \in Handlers, HandlerStep(h) PROVE Sparing'
  <2>1. faults' = faults
    BY <1>4 DEF HandlerStep, TuneStep, SwitchStep, ReleaseStep, GetAssignment, AskRelay, Reuse,
       ReadStale,
      GiveStale, ClearStale, Reserve, Refuse, SetChannelStream, SetStreamProfile, Select,
      ReadOld, Move,
      FindChannelStream, DelChannelStream, GetStreamProfile, DelStreamProfile, Fallback, Give
  <2> QED
    BY <1>4, <2>1, HandlerSpares
<1>5. CASE ReconcilerStep \/ SkipRun
  <2>1. faults' = faults
    BY <1>5 DEF ReconcilerStep, ReadVersions, ListChannels, SkipRun, Reconcile
  <2> QED
    BY <1>5, <2>1, ReconcilerSpares
<1>6. CASE UNCHANGED vars
  BY <1>6 DEF vars, redis, relay, django, reconciler, history, Sparing, OneAttempt, ReserveFits,
     First, Spared,
       Late, LateTune, LateSwitch, Listed, Waiting
<1> QED
  BY <1>2, <1>3, <1>4, <1>5, <1>6 DEF Next, Kinds

\* While no call fails, the reconciler lowers no counter below the channels that
\* run on the profile on a slot they reserved, whatever happens between its
\* reads and its write, and also while calls of one channel cross: a run that
\* reserved before it read the versions is in the listing it writes from.
THEOREM HoldersAreSpared == Spec => ReconcileSparesHolders
<1>1. Init => (faults = 0 => Sparing)
  <2> SUFFICES ASSUME Init PROVE Sparing
    OBVIOUS
  <2>1. OneAttempt
    BY DEF Init, OneAttempt, Kinds
  <2>2. ASSUME NEW r \in Runs PROVE ReserveFits(r) /\ Spared(r)
    BY PoolAssumption DEF Init, ReserveFits, Spared
  <2> QED
    BY <2>1, <2>2 DEF Sparing
<1>2. ASSUME PoolTypes, faults = 0 => Sparing, NEW p \in Profiles,
             Reconcile, faults = 0, count'[p] < count[p]
      PROVE  count'[p] >= Cardinality({c \in Holders(p) : owns[entry[c]] = p})
  <2> DEFINE H == {c \in Holders(p) : owns[entry[c]] = p}
  <2>1. /\ KeysT /\ RelayT /\ ReconT /\ phase = "write" /\ count' = Reconciled /\ now \in Listings
        /\ count[p] \in Nat
    BY <1>2 DEF PoolTypes, Reconcile, ReconT, KeysT
  <2>2. count'[p] = IF seen = None
          \/ p \in moved THEN count[p] ELSE Clamp(count[p], Floor(p), Ceiling(p))
    BY <2>1 DEF Reconciled
  <2>3. seen # None /\ p \notin moved /\ seen \in Listings
    BY <1>2, <2>1, <2>2 DEF ReconT
  <2>4. H \subseteq now[p]
    <3> SUFFICES ASSUME NEW c \in Channels, entry[c] # None, stage[entry[c]] = "on",
                        source[entry[c]].profile = p, owns[entry[c]] = p
                 PROVE  c \in now[p]
      BY DEF Holders
    <3>1. entry[c] \in Runs /\ of[entry[c]] = c
      BY <2>1 DEF RelayT
    <3>2. Spared(entry[c]) /\ Listed(entry[c])
      BY <1>2, <3>1 DEF Sparing, Listed
    <3> QED
      BY <2>1, <2>3, <3>1, <3>2 DEF Spared
  <2>5. seen[p] \subseteq Channels /\ now[p] \subseteq Channels
    BY <2>1, <2>3 DEF Listings
  <2>6. IsFiniteSet(seen[p] \cup now[p]) /\ IsFiniteSet(seen[p] \cap now[p])
    BY <2>5, PoolAssumption, FS_Subset
  <2>7. /\ Ceiling(p) \in Nat /\ Floor(p) \in Nat /\ Cardinality(H) \in Nat
        /\ Cardinality(H) <= Ceiling(p)
    <3>1. H \subseteq seen[p] \cup now[p]
      BY <2>4
    <3> HIDE DEF H
    <3>2. IsFiniteSet(H) /\ Cardinality(H) <= Cardinality(seen[p] \cup now[p])
      BY <2>6, <3>1, FS_Subset
    <3> QED
      BY <2>6, <3>2, FS_CardinalityType DEF Ceiling, Floor
  <2> HIDE DEF H
  <2>8. count'[p] = Ceiling(p)
    BY <1>2, <2>1, <2>2, <2>3, <2>7 DEF Clamp
  <2>9. count'[p] >= Cardinality(H)
    BY <2>7, <2>8
  <2> QED
    BY <2>9 DEF H
<1>3. PoolTypes /\ (faults = 0 => Sparing) /\ [Next]_vars
        => [\A p \in Profiles :
              Reconcile /\ faults = 0 /\ count'[p] < count[p]
                => count'[p] >= Cardinality({c \in Holders(p) : owns[entry[c]] = p})]_vars
  BY <1>2
<1>4. PoolTypes /\ PoolTypes' /\ (faults = 0 => Sparing) /\ [Next]_vars => (faults = 0 => Sparing)'
  BY SparingStep
<1> QED
  BY <1>1, <1>3, <1>4, PoolTypesInit, PoolTypesStep, PTL DEF Spec, ReconcileSparesHolders
====

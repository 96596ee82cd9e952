-------------------------- MODULE HlsSessions_proofs --------------------------
(***************************************************************************)
(* Proofs about HlsSessions: its types, the custody of the registered      *)
(* clients, the account of the client events, the count of the pipeline's  *)
(* sessions, and what follows from them.                                   *)
(*                                                                         *)
(* The invariant is layered, each layer proved to be kept by every step    *)
(* from those before it:                                                   *)
(*   TypesOK       the types; a channel's two ends owe a sweep each        *)
(*   FitsInv       where an entry, its session, a departure and a request  *)
(*                 can be at one time                                      *)
(*   CustodyInv    a registered client has exactly one keeper, who will    *)
(*                 drop it: its entry, its session, a departure, a resume  *)
(*                 or the marks' list                                      *)
(*   AnnouncedInv  connects minus disconnects, with the resumes that have  *)
(*                 committed and not connected yet, are the disconnects    *)
(*                 still owed                                              *)
(* and, for the count,                                                     *)
(*   PipePhase, PipesStarted   a pipeline that is registered has not been  *)
(*                 stopped; a started pipeline's number is new, so nobody  *)
(*                 holds it yet                                            *)
(*   CountedInv    sessionRefs against the four kinds of holder, and what  *)
(*                 lingers; after a sweep, which discards releases, the    *)
(*                 count may only be too high                              *)
(***************************************************************************)
EXTENDS HlsSessions, FiniteSetTheorems, FunctionTheorems, TLAPS

\* The records of the four tables; inFlight's bound is a consequence.
SessionRecords ==
  [state : {"none", "arrived", "active", "departed", "stopped"}, inFlight : Nat,
   settling : BOOLEAN, connected : BOOLEAN, holds : BOOLEAN, plays : {0} \cup Pipes,
   ended : {"no", "client", "channel", "output"}]
EntryRecords ==
  [at : {"out", "attached", "piped", "added", "waiting", "ready", "announced", "in", "refused",
         "unpiped", "unannounced", "gone"},
   pipe : {0} \cup Pipes]
DepartureRecords ==
  [at : {"none", "disconnect", "output", "client", "settle"}, pipe : {0} \cup Pipes,
   idle : BOOLEAN, connected : BOOLEAN]
RequestRecords ==
  [at : {"idle", "serving", "found", "client", "output", "committed", "unpipe", "unclient",
         "undo", "failed"},
   viewer : Viewers \cup {Nobody}, pipe : {0} \cup Pipes]

EntryPlaces ==
  {"out", "attached", "piped", "added", "waiting", "ready", "announced", "in", "refused",
   "unpiped", "unannounced", "gone"}
RequestPlaces ==
  {"idle", "serving", "found", "client", "output", "committed", "unpipe", "unclient", "undo",
   "failed"}

\* Each of the two ends of a channel owes one sweep.
SweepsOwed ==
  toSweep + (IF listed THEN 1 ELSE 0) + (IF runAt = "closed" THEN 0 ELSE 1) <= 2

PipesOK ==
  /\ pipeline \in {0} \cup Pipes /\ lingering \in {0} \cup Pipes /\ started \in {0} \cup Pipes
  /\ sessionRefs \in Int /\ failedMark \in BOOLEAN /\ readied \subseteq Pipes
  /\ phaseOf \in [Pipes -> {"none", "live", "stopping", "failing", "failed", "marked", "ended"}]
ChannelOK ==
  /\ listed \in BOOLEAN /\ runAt \in {"running", "stopped", "closed"}
  /\ swept \in BOOLEAN /\ toSweep \in Nat /\ SweepsOwed
ViewersOK ==
  registry \subseteq Viewers /\ dropping \subseteq Viewers \X BOOLEAN
  /\ announced \in [Viewers -> Int]
TableOK == table \in [Viewers -> SessionRecords]
EntersOK == enters \in [Viewers -> EntryRecords]
LeavingOK == leaving \in [Viewers -> DepartureRecords]
GetsOK == gets \in [Requests -> RequestRecords]

TypesOK == PipesOK /\ ChannelOK /\ ViewersOK /\ TableOK /\ EntersOK /\ LeavingOK /\ GetsOK

\* Where a viewer's entry is, and what its session can be then.
SessionFitsEntry(v) ==
  /\ enters[v].at \notin {"added", "waiting", "ready", "announced", "in"} => table[v].state = "none"
  /\ enters[v].at \in {"added", "waiting", "ready", "announced"} =>
       table[v].state \in {"arrived", "stopped"}
  /\ table[v].state \in {"none", "departed", "stopped"} => ~table[v].holds
  /\ table[v].state = "arrived" =>
       /\ enters[v].at # "in" /\ table[v].plays = enters[v].pipe
       /\ table[v].holds /\ ~table[v].connected /\ ~table[v].settling /\ table[v].inFlight = 1
  /\ table[v].state = "active" => table[v].holds /\ table[v].connected /\ ~table[v].settling
  /\ table[v].state = "departed" => ~table[v].connected
  /\ table[v].state \in {"arrived", "active", "departed"} => table[v].plays # 0
  /\ enters[v].at \notin {"out", "attached", "unpiped", "in", "unannounced", "gone"} =>
       enters[v].pipe # 0

\* A request is of a viewer that has been let in.
RequestFitsEntry(g) ==
  /\ gets[g].at # "idle" => gets[g].viewer \in Viewers /\ enters[gets[g].viewer].at = "in"
  /\ gets[g].at \in {"output", "unpipe"} => gets[g].pipe # 0
  /\ /\ gets[g].at \in {"found", "client", "output"}
     /\ table[gets[g].viewer].state \in {"active", "departed"}
     => gets[g].pipe = table[gets[g].viewer].plays

\* A departure that has a pipeline to release.
DepartureFits(v) ==
  leaving[v].at \in {"disconnect", "output"} => leaving[v].pipe # 0

FitsInv ==
  /\ \A v \in Viewers : SessionFitsEntry(v)
  /\ \A v \in Viewers : DepartureFits(v)
  /\ \A g \in Requests : RequestFitsEntry(g)

\* Who keeps a registered client: whoever will drop it.
EntryKeeps(v)     == enters[v].at \in {"attached", "piped", "refused", "unpiped"}
DepartureKeeps(v) == leaving[v].at \in {"disconnect", "output", "client"}
ResumeKeeps(g, v) ==
  gets[g].viewer = v /\ gets[g].at \in {"client", "output", "unpipe", "unclient", "undo"}
DropKeeps(v)      == <<v, TRUE>> \in dropping \/ <<v, FALSE>> \in dropping

\* One keeper at a time.
Custody(v) ==
  /\ v \in registry <=> \/ EntryKeeps(v) \/ table[v].holds \/ DepartureKeeps(v) \/ DropKeeps(v)
                        \/ \E g \in Requests : ResumeKeeps(g, v)
  /\ EntryKeeps(v) \/ table[v].holds => leaving[v].at = "none" /\ ~DropKeeps(v)
  /\ EntryKeeps(v) => ~table[v].holds
  /\ DepartureKeeps(v) => ~DropKeeps(v)
  /\ \A g \in Requests : ResumeKeeps(g, v) =>
       /\ ~EntryKeeps(v) /\ ~table[v].holds /\ ~DepartureKeeps(v) /\ ~DropKeeps(v)
       /\ \A h \in Requests : ResumeKeeps(h, v) => h = g
  /\ ~(<<v, TRUE>> \in dropping /\ <<v, FALSE>> \in dropping)
  /\ enters[v].at = "out" => v \notin registry /\ leaving[v].at = "none"
  /\ table[v].state = "departed" /\ ~table[v].settling => leaving[v].at = "none"

CustodyInv == \A v \in Viewers : Custody(v)

\* A resume has committed, and its client_connect is still to come.
Committed(v) == {g \in Requests : gets[g].viewer = v /\ gets[g].at = "committed"}
One(b) == IF b THEN 1 ELSE 0
\* The events of v so far, against the disconnects still owed.
Announced(v) ==
  announced[v] + Cardinality(Committed(v))
    = One(enters[v].at \in {"announced", "unannounced"}) + One(table[v].state = "active")
      + One(leaving[v].at = "disconnect" /\ leaving[v].connected) + One(<<v, TRUE>> \in dropping)
AnnouncedInv == \A v \in Viewers : Announced(v)

----------------------------------------------------------------------------

\* What an EXCEPT on one element does to a function, and what it leaves.
LEMMA FunctionSet ==
  ASSUME NEW S, NEW T,
         NEW f \in [S -> T], NEW x \in S, NEW r \in T, NEW g, g = [f EXCEPT ![x] = r]
  PROVE  g \in [S -> T] /\ g[x] = r /\ \A y \in S : y # x => g[y] = f[y]
OBVIOUS

\* EntryGoes keeps the entries' type, moves one entry and no other.
LEMMA EntryGoesTo ==
  ASSUME EntersOK, NEW v \in Viewers, NEW place \in EntryPlaces, EntryGoes(v, place)
  PROVE  /\ EntersOK'
         /\ enters'[v] = [at |-> place, pipe |-> IF place \in {"in",
                "gone"} THEN 0 ELSE enters[v].pipe]
         /\ \A w \in Viewers : w # v => enters'[w] = enters[w]
<1> DEFINE r == [at |-> place, pipe |-> IF place \in {"in", "gone"} THEN 0 ELSE enters[v].pipe]
<1>1. enters[v].pipe \in {0} \cup Pipes
  BY DEF EntersOK, EntryRecords
<1>2. r \in EntryRecords
  BY <1>1 DEF EntryRecords, EntryPlaces
<1>3. enters' = [enters EXCEPT ![v] = r]
  BY DEF EntryGoes
<1> HIDE DEF r
<1>4. EntersOK' /\ enters'[v] = r /\ \A w \in Viewers : w # v => enters'[w] = enters[w]
  BY <1>2, <1>3, FunctionSet DEF EntersOK
<1> QED
  BY <1>4 DEF r

\* RequestGoes keeps the requests' type, moves one GET and no other.
LEMMA RequestGoesTo ==
  ASSUME GetsOK, NEW g \in Requests, NEW place \in RequestPlaces, RequestGoes(g, place)
  PROVE  /\ GetsOK'
         /\ gets'[g] = IF place = "idle" THEN NoRequest ELSE [gets[g] EXCEPT !.at = place]
         /\ \A h \in Requests : h # g => gets'[h] = gets[h]
<1> DEFINE r == IF place = "idle" THEN NoRequest ELSE [gets[g] EXCEPT !.at = place]
<1>1. gets[g] \in RequestRecords
  BY DEF GetsOK
<1>2. r \in RequestRecords
  BY <1>1 DEF RequestRecords, RequestPlaces, NoRequest
<1>3. gets' = [gets EXCEPT ![g] = r]
  BY DEF RequestGoes
<1> HIDE DEF r
<1>4. GetsOK' /\ gets'[g] = r /\ \A h \in Requests : h # g => gets'[h] = gets[h]
  BY <1>2, <1>3, FunctionSet DEF GetsOK
<1> QED
  BY <1>4 DEF r

\* hlsRelease keeps the registry's types.
LEMMA Releasing ==
  ASSUME PipesOK, NEW p \in {0} \cup Pipes, ReleasePipe(p)
  PROVE  PipesOK'
<1>1. CASE pipeline # p
  BY <1>1 DEF PipesOK, ReleasePipe, pipeVars, hlsRegistryVars
<1>2. CASE pipeline = p
  <2>1. sessionRefs' \in Int /\ UNCHANGED <<failedMark, started, readied>>
    BY <1>2 DEF PipesOK, ReleasePipe, CountOut
  <2>2. UNCHANGED <<pipeline, lingering, phaseOf>> \/ (lingering' = p
            /\ UNCHANGED <<pipeline, phaseOf>>) \/ (pipeline' = 0 /\ StopPipe(p)
                   /\ UNCHANGED lingering)
    BY <1>2, Zenon DEF ReleasePipe, CountOut
  <2>3. phaseOf' \in [Pipes -> {"none", "live", "stopping", "failing", "failed", "marked",
            "ended"}]
    BY <2>2 DEF StopPipe, PipesOK
  <2> QED
    BY <1>2, <2>1, <2>2, <2>3 DEF PipesOK
<1> QED
  BY <1>1, <1>2

\* AttachHLS on a registered pipeline keeps the registry's types.
LEMMA Joining ==
  ASSUME PipesOK, NEW p \in Pipes, Join(p)
  PROVE  PipesOK'
BY DEF PipesOK, Join

\* AttachHLS with none registered starts a pipeline of the right type.
LEMMA Starting ==
  ASSUME PipesOK, StartPipe, HlsSessionsAssumption
  PROVE  PipesOK' /\ pipeline' \in Pipes
<1>1. started' \in Pipes
  BY DEF StartPipe, PipesOK, Pipes, HlsSessionsAssumption
<1> QED
  BY <1>1 DEF StartPipe, PipesOK

\* FailHLS keeps the registry's types.
LEMMA Failing ==
  ASSUME PipesOK, NEW p \in {0} \cup Pipes, FailHLS(p), UNCHANGED <<started, readied>>,
         phaseOf' \in [Pipes -> {"none", "live", "stopping", "failing", "failed", "marked", "ended"}]
  PROVE  PipesOK'
<1>1. CASE pipeline = p
  BY <1>1 DEF PipesOK, FailHLS, Unregister
<1>2. CASE pipeline # p
  BY <1>2 DEF PipesOK, FailHLS, hlsRegistryVars
<1> QED
  BY <1>1, <1>2

\* What stopLocked does to the table: live sessions of V end for this reason.
MarkedBy(V, why) ==
  \A w \in Viewers :
    IF w \in V /\ table[w].state \in {"arrived", "active", "departed"}
    THEN table'[w] = [table[w] EXCEPT !.state = "stopped", !.holds = FALSE, !.plays = 0,
                                      !.ended = why]
    ELSE table'[w] = table[w]
\* ... and to the clients to drop: those whose session held its releases, with
\* no departure that has taken them.
DropsBy(V) ==
  \A w \in Viewers, b \in BOOLEAN :
    <<w, b>> \in dropping' <=>
      \/ <<w, b>> \in dropping
      \/ /\ w \in V /\ table[w].state \in {"arrived", "active", "departed"}
         /\ table[w].holds /\ ~table[w].settling /\ b = table[w].connected

\* What a mark does, and that it keeps the types.
LEMMA Marking ==
  ASSUME TableOK, ViewersOK, NEW V \in SUBSET Viewers,
         NEW why \in {"client", "channel", "output"}, MarkStopped(V, why),
         UNCHANGED <<registry, announced>>
  PROVE  TableOK' /\ ViewersOK' /\ MarkedBy(V, why) /\ DropsBy(V)
<1>1. TableOK'
  <2> SUFFICES ASSUME NEW w \in Viewers
      PROVE  table'[w] \in SessionRecords /\ table' = [x \in Viewers |-> table'[x]]
    BY DEF TableOK, MarkStopped
  <2>1. [table[w] EXCEPT !.state = "stopped", !.holds = FALSE, !.plays = 0,
                         !.ended = why] \in SessionRecords /\ table[w] \in SessionRecords
    BY DEF TableOK, SessionRecords
  <2> QED
    BY <2>1 DEF MarkStopped
<1>2. ViewersOK'
  <2>1. \A w \in Viewers : <<w, table[w].connected>> \in Viewers \X BOOLEAN
    BY DEF TableOK, SessionRecords
  <2> DEFINE held == {w \in {u \in V : table[u].state \in {"arrived", "active", "departed"}} :
                        table[w].holds /\ ~table[w].settling}
  <2>2. dropping' = dropping \cup {<<w, table[w].connected>> : w \in held}
    BY DEF MarkStopped
  <2>3. \A w \in held : w \in Viewers
    OBVIOUS
  <2> HIDE DEF held
  <2>4. \A d \in {<<w, table[w].connected>> : w \in held} : d \in Viewers \X BOOLEAN
    BY <2>1, <2>3
  <2> QED
    BY <2>2, <2>4 DEF ViewersOK
<1>3. MarkedBy(V, why)
  BY DEF TableOK, ViewersOK, SessionRecords, MarkStopped, MarkedBy
<1>4. DropsBy(V)
  BY DEF TableOK, ViewersOK, SessionRecords, MarkStopped, DropsBy
<1> QED
  BY <1>1, <1>2, <1>3, <1>4

\* Table.Abandon forgets the session; the entry runs the releases that the
\* table still held, otherwise it goes where it was told.
LEMMA AbandonTo ==
  ASSUME TableOK, EntersOK, NEW v \in Viewers, NEW otherwise \in {"gone", "unannounced"},
         Abandon(v, otherwise)
  PROVE  /\ TableOK' /\ EntersOK'
         /\ table'[v] = NoSession
         /\ \A w \in Viewers : w # v => table'[w] = table[w] /\ enters'[w] = enters[w]
         /\ table[v].holds => enters'[v] = [at |-> "refused", pipe |-> enters[v].pipe]
         /\ ~table[v].holds => enters'[v].at = otherwise
<1> DEFINE place == IF table[v].holds THEN "refused" ELSE otherwise
<1>1. place \in EntryPlaces
  BY DEF EntryPlaces
<1>2. EntryGoes(v, place)
  BY DEF Abandon
<1>3. /\ EntersOK'
      /\ enters'[v] = [at |-> place, pipe |-> IF place \in {"in",
             "gone"} THEN 0 ELSE enters[v].pipe]
      /\ \A w \in Viewers : w # v => enters'[w] = enters[w]
  <2> HIDE DEF place
  <2> QED BY <1>1, <1>2, EntryGoesTo
<1>4. NoSession \in SessionRecords
  BY DEF NoSession, SessionRecords
<1>5. table' = [table EXCEPT ![v] = NoSession]
  BY DEF Abandon
<1>6. TableOK' /\ table'[v] = NoSession /\ \A w \in Viewers : w # v => table'[w] = table[w]
  BY <1>4, <1>5, FunctionSet DEF TableOK
<1> QED
  BY <1>3, <1>6

\* Every step keeps the types.
LEMMA StepTypes ==
  ASSUME TypesOK, FitsInv, SessNext
  PROVE  TypesOK'
<1> USE HlsSessionsAssumption DEF TypesOK
<1>1. ASSUME NEW v \in Viewers, Enter(v) PROVE TypesOK'
  <2>1. PipesOK'
    BY <1>1 DEF Enter, PipesOK, Pipes, hlsRegistryVars, pipeVars, OutputsOver, DoneClosed
  <2>2. ChannelOK'
    BY <1>1 DEF Enter, ChannelOK, SweepsOwed, channelVars
  <2>3. ViewersOK'
    BY <1>1 DEF Enter, ViewersOK, Announce, GetsOK, RequestRecords
  <2>4. TableOK'
    BY <1>1 DEF Enter, TableOK, SessionRecords, NoSession
  <2>5. EntersOK'
    BY <1>1, EntryGoesTo, AbandonTo DEF Enter, EntryPlaces
  <2>6. LeavingOK'
    BY <1>1 DEF Enter, LeavingOK, DepartureRecords, NoDeparture
  <2>7. GetsOK'
    BY <1>1 DEF Enter, GetsOK, RequestPlaces
  <2> QED
    BY <2>1, <2>2, <2>3, <2>4, <2>5, <2>6, <2>7 DEF TypesOK
<1>2. ASSUME NEW v \in Viewers, AttachPipe(v) PROVE TypesOK'
  <2>1. PipesOK'
    BY <1>2, Joining, Starting, HlsSessionsAssumption DEF AttachPipe, PipesOK, pipeVars,
      hlsRegistryVars
  <2>2. ChannelOK'
    BY <1>2 DEF AttachPipe, ChannelOK, SweepsOwed, channelVars
  <2>3. ViewersOK'
    BY <1>2 DEF AttachPipe, ViewersOK, Announce, GetsOK, RequestRecords
  <2>4. TableOK'
    BY <1>2 DEF AttachPipe, TableOK, SessionRecords, NoSession
  <2>5. EntersOK'
    <3>1. OutputsOver \/ failedMark => EntersOK'
      BY <1>2, EntryGoesTo DEF AttachPipe, EntryPlaces
    <3>2. ~(OutputsOver \/ failedMark) => pipeline' \in {0} \cup Pipes
      BY <1>2, Starting DEF AttachPipe, Join, PipesOK
    <3>3. ~(OutputsOver \/ failedMark)
              => enters' = [enters EXCEPT ![v] = [at |-> "piped", pipe |-> pipeline']]
      BY <1>2 DEF AttachPipe
    <3>4. ~(OutputsOver \/ failedMark) => EntersOK'
      BY <3>2, <3>3 DEF EntersOK, EntryRecords
    <3> QED
      BY <3>1, <3>4
  <2>6. LeavingOK'
    BY <1>2 DEF AttachPipe, LeavingOK, DepartureRecords, NoDeparture
  <2>7. GetsOK'
    BY <1>2 DEF AttachPipe, GetsOK, RequestPlaces
  <2> QED
    BY <2>1, <2>2, <2>3, <2>4, <2>5, <2>6, <2>7 DEF TypesOK
<1>3. ASSUME NEW v \in Viewers, Add(v) PROVE TypesOK'
  <2>1. PipesOK'
    BY <1>3 DEF Add, PipesOK, Pipes, hlsRegistryVars, pipeVars, OutputsOver, DoneClosed
  <2>2. ChannelOK'
    BY <1>3 DEF Add, ChannelOK, SweepsOwed, channelVars
  <2>3. ViewersOK'
    BY <1>3 DEF Add, ViewersOK, Announce, GetsOK, RequestRecords
  <2>4. TableOK'
    BY <1>3 DEF Add, TableOK, SessionRecords, NoSession, EntersOK, EntryRecords
  <2>5. EntersOK'
    BY <1>3, EntryGoesTo, AbandonTo DEF Add, EntryPlaces
  <2>6. LeavingOK'
    BY <1>3 DEF Add, LeavingOK, DepartureRecords, NoDeparture
  <2>7. GetsOK'
    BY <1>3 DEF Add, GetsOK, RequestPlaces
  <2> QED
    BY <2>1, <2>2, <2>3, <2>4, <2>5, <2>6, <2>7 DEF TypesOK
<1>4. ASSUME NEW v \in Viewers, ReCheck(v) PROVE TypesOK'
  <2>1. PipesOK'
    BY <1>4 DEF ReCheck, Abandon, PipesOK, Pipes, hlsRegistryVars, pipeVars, OutputsOver,
      DoneClosed
  <2>2. ChannelOK'
    BY <1>4 DEF ReCheck, ChannelOK, SweepsOwed, channelVars
  <2>3. ViewersOK'
    BY <1>4 DEF ReCheck, ViewersOK, Announce, GetsOK, RequestRecords
  <2>4. TableOK'
    BY <1>4, AbandonTo DEF ReCheck, TableOK
  <2>5. EntersOK'
    BY <1>4, EntryGoesTo, AbandonTo DEF ReCheck, EntryPlaces
  <2>6. LeavingOK'
    BY <1>4 DEF ReCheck, LeavingOK, DepartureRecords, NoDeparture
  <2>7. GetsOK'
    BY <1>4 DEF ReCheck, GetsOK, RequestPlaces
  <2> QED
    BY <2>1, <2>2, <2>3, <2>4, <2>5, <2>6, <2>7 DEF TypesOK
<1>5. ASSUME NEW v \in Viewers, WaitReady(v) PROVE TypesOK'
  <2>1. PipesOK'
    BY <1>5, Failing DEF WaitReady, Abandon, PipesOK, EntersOK, EntryRecords, hlsRegistryVars,
      pipeVars
  <2>2. ChannelOK'
    BY <1>5 DEF WaitReady, ChannelOK, SweepsOwed, channelVars
  <2>3. ViewersOK'
    BY <1>5 DEF WaitReady, ViewersOK, Announce, GetsOK, RequestRecords
  <2>4. TableOK'
    BY <1>5, AbandonTo DEF WaitReady, TableOK
  <2>5. EntersOK'
    BY <1>5, EntryGoesTo, AbandonTo DEF WaitReady, EntryPlaces
  <2>6. LeavingOK'
    BY <1>5 DEF WaitReady, LeavingOK, DepartureRecords, NoDeparture
  <2>7. GetsOK'
    BY <1>5 DEF WaitReady, GetsOK, RequestPlaces
  <2> QED
    BY <2>1, <2>2, <2>3, <2>4, <2>5, <2>6, <2>7 DEF TypesOK
<1>6. ASSUME NEW v \in Viewers, Connect(v) PROVE TypesOK'
  <2>1. PipesOK'
    BY <1>6 DEF Connect, Abandon, PipesOK, Pipes, hlsRegistryVars, pipeVars, OutputsOver,
      DoneClosed
  <2>2. ChannelOK'
    BY <1>6 DEF Connect, ChannelOK, SweepsOwed, channelVars
  <2>3. ViewersOK'
    BY <1>6 DEF Connect, ViewersOK, Announce, GetsOK, RequestRecords
  <2>4. TableOK'
    BY <1>6, AbandonTo DEF Connect, TableOK
  <2>5. EntersOK'
    BY <1>6, EntryGoesTo, AbandonTo DEF Connect, EntryPlaces
  <2>6. LeavingOK'
    BY <1>6 DEF Connect, LeavingOK, DepartureRecords, NoDeparture
  <2>7. GetsOK'
    BY <1>6 DEF Connect, GetsOK, RequestPlaces
  <2> QED
    BY <2>1, <2>2, <2>3, <2>4, <2>5, <2>6, <2>7 DEF TypesOK
<1>7. ASSUME NEW v \in Viewers, ActivateSession(v) PROVE TypesOK'
  <2>1. PipesOK'
    BY <1>7 DEF ActivateSession, Abandon, PipesOK, Pipes, hlsRegistryVars, pipeVars, OutputsOver,
      DoneClosed
  <2>2. ChannelOK'
    BY <1>7 DEF ActivateSession, ChannelOK, SweepsOwed, channelVars
  <2>3. ViewersOK'
    BY <1>7 DEF ActivateSession, ViewersOK, Announce, GetsOK, RequestRecords
  <2>4. TableOK'
    <3>1. CASE table[v].state = "arrived"
      <4>1. table' = [table EXCEPT ![v] = [@ EXCEPT !.state = "active", !.connected = TRUE,
                                                      !.inFlight = table[v].inFlight - 1]]
        BY <3>1, <1>7, Zenon DEF ActivateSession
      <4>2. table[v].inFlight = 1
        BY <3>1 DEF FitsInv, SessionFitsEntry
      <4> DEFINE r == [table[v] EXCEPT !.state = "active", !.connected = TRUE, !.inFlight = 0]
      <4>3. r \in SessionRecords
        BY DEF TableOK, SessionRecords
      <4>4. table' = [table EXCEPT ![v] = r]
        BY <4>1, <4>2
      <4> QED
        BY <4>3, <4>4, FunctionSet DEF TableOK
    <3>2. CASE table[v].state # "arrived"
      BY <3>2, <1>7, AbandonTo DEF ActivateSession
    <3> QED
      BY <3>1, <3>2
  <2>5. EntersOK'
    BY <1>7, EntryGoesTo, AbandonTo DEF ActivateSession, EntryPlaces
  <2>6. LeavingOK'
    BY <1>7 DEF ActivateSession, LeavingOK, DepartureRecords, NoDeparture
  <2>7. GetsOK'
    BY <1>7 DEF ActivateSession, GetsOK, RequestPlaces
  <2> QED
    BY <2>1, <2>2, <2>3, <2>4, <2>5, <2>6, <2>7 DEF TypesOK
<1>8. ASSUME NEW v \in Viewers, UndoEntry(v) PROVE TypesOK'
  <2>1. PipesOK'
    BY <1>8, Releasing DEF UndoEntry, PipesOK, EntersOK, LeavingOK, GetsOK, EntryRecords,
      DepartureRecords, RequestRecords, hlsRegistryVars, pipeVars
  <2>2. ChannelOK'
    BY <1>8 DEF UndoEntry, ChannelOK, SweepsOwed, channelVars
  <2>3. ViewersOK'
    BY <1>8 DEF UndoEntry, ViewersOK, Announce, GetsOK, RequestRecords
  <2>4. TableOK'
    BY <1>8 DEF UndoEntry, TableOK, SessionRecords, NoSession
  <2>5. EntersOK'
    BY <1>8, EntryGoesTo, AbandonTo DEF UndoEntry, EntryPlaces
  <2>6. LeavingOK'
    BY <1>8 DEF UndoEntry, LeavingOK, DepartureRecords, NoDeparture
  <2>7. GetsOK'
    BY <1>8 DEF UndoEntry, GetsOK, RequestPlaces
  <2> QED
    BY <2>1, <2>2, <2>3, <2>4, <2>5, <2>6, <2>7 DEF TypesOK
<1>9. ASSUME NEW v \in Viewers, DepartIdle(v) PROVE TypesOK'
  <2>1. PipesOK'
    BY <1>9 DEF DepartIdle, TakesLeave, PipesOK, Pipes, hlsRegistryVars, pipeVars, OutputsOver,
      DoneClosed
  <2>2. ChannelOK'
    BY <1>9 DEF DepartIdle, ChannelOK, SweepsOwed, channelVars
  <2>3. ViewersOK'
    BY <1>9 DEF DepartIdle, ViewersOK, Announce, GetsOK, RequestRecords
  <2>4. TableOK'
    <3>1. [table[v] EXCEPT !.state = "departed", !.settling = TRUE, !.connected = FALSE,
                           !.holds = FALSE] \in SessionRecords
      BY DEF TableOK, SessionRecords
    <3>2. PICK r \in SessionRecords : table' = [table EXCEPT ![v] = r]
      BY <1>9, <3>1 DEF DepartIdle
    <3> QED
      BY <3>2, FunctionSet DEF TableOK
  <2>5. EntersOK'
    BY <1>9 DEF DepartIdle, EntryPlaces, EntersOK
  <2>6. LeavingOK'
    BY <1>9 DEF DepartIdle, LeavingOK, DepartureRecords, NoDeparture, TakesLeave, TableOK,
      SessionRecords
  <2>7. GetsOK'
    BY <1>9 DEF DepartIdle, GetsOK, RequestPlaces
  <2> QED
    BY <2>1, <2>2, <2>3, <2>4, <2>5, <2>6, <2>7 DEF TypesOK
<1>10. ASSUME NEW v \in Viewers, Forget(v) PROVE TypesOK'
  <2>1. PipesOK'
    BY <1>10 DEF Forget, PipesOK, Pipes, hlsRegistryVars, pipeVars, OutputsOver, DoneClosed
  <2>2. ChannelOK'
    BY <1>10 DEF Forget, ChannelOK, SweepsOwed, channelVars
  <2>3. ViewersOK'
    BY <1>10 DEF Forget, ViewersOK, Announce, GetsOK, RequestRecords
  <2>4. TableOK'
    BY <1>10 DEF Forget, TableOK, SessionRecords, NoSession
  <2>5. EntersOK'
    BY <1>10 DEF Forget, EntryPlaces, EntersOK
  <2>6. LeavingOK'
    BY <1>10 DEF Forget, LeavingOK, DepartureRecords, NoDeparture
  <2>7. GetsOK'
    BY <1>10 DEF Forget, GetsOK, RequestPlaces
  <2> QED
    BY <2>1, <2>2, <2>3, <2>4, <2>5, <2>6, <2>7 DEF TypesOK
<1>11. ASSUME NEW v \in Viewers, Leave(v) PROVE TypesOK'
  <2>1. PipesOK'
    BY <1>11 DEF Leave, TakesLeave, PipesOK, Pipes, hlsRegistryVars, pipeVars, OutputsOver,
      DoneClosed
  <2>2. ChannelOK'
    BY <1>11 DEF Leave, ChannelOK, SweepsOwed, channelVars
  <2>3. ViewersOK'
    BY <1>11 DEF Leave, ViewersOK, Announce, GetsOK, RequestRecords
  <2>4. TableOK'
    BY <1>11 DEF Leave, TableOK, SessionRecords, NoSession
  <2>5. EntersOK'
    BY <1>11 DEF Leave, EntryPlaces, EntersOK
  <2>6. LeavingOK'
    BY <1>11 DEF Leave, LeavingOK, DepartureRecords, NoDeparture, TakesLeave, TableOK,
      SessionRecords
  <2>7. GetsOK'
    BY <1>11 DEF Leave, GetsOK, RequestPlaces
  <2> QED
    BY <2>1, <2>2, <2>3, <2>4, <2>5, <2>6, <2>7 DEF TypesOK
<1>12. ASSUME NEW v \in Viewers, EndClient(v) PROVE TypesOK'
  <2>1. PipesOK'
    BY <1>12 DEF EndClient, TakesLeave, PipesOK, Pipes, hlsRegistryVars, pipeVars, OutputsOver,
      DoneClosed
  <2>2. ChannelOK'
    BY <1>12 DEF EndClient, ChannelOK, SweepsOwed, channelVars
  <2>3. ViewersOK'
    BY <1>12 DEF EndClient, ViewersOK, Announce, GetsOK, RequestRecords
  <2>4. TableOK'
    <3>1. [table[v] EXCEPT !.state = "stopped", !.holds = FALSE, !.plays = 0,
                           !.ended = "client"] \in SessionRecords
      BY DEF TableOK, SessionRecords
    <3>2. PICK r \in SessionRecords : table' = [table EXCEPT ![v] = r]
      BY <1>12, <3>1 DEF EndClient
    <3> QED
      BY <3>2, FunctionSet DEF TableOK
  <2>5. EntersOK'
    BY <1>12 DEF EndClient, EntryPlaces, EntersOK
  <2>6. LeavingOK'
    BY <1>12 DEF EndClient, LeavingOK, DepartureRecords, NoDeparture, TakesLeave, TableOK,
      SessionRecords
  <2>7. GetsOK'
    BY <1>12 DEF EndClient, GetsOK, RequestPlaces
  <2> QED
    BY <2>1, <2>2, <2>3, <2>4, <2>5, <2>6, <2>7 DEF TypesOK
<1>13. ASSUME NEW v \in Viewers, RunDeparture(v) PROVE TypesOK'
  <2>1. PipesOK'
    BY <1>13, Releasing DEF RunDeparture, PipesOK, EntersOK, LeavingOK, GetsOK, EntryRecords,
      DepartureRecords, RequestRecords, hlsRegistryVars, pipeVars
  <2>2. ChannelOK'
    BY <1>13 DEF RunDeparture, ChannelOK, SweepsOwed, channelVars
  <2>3. ViewersOK'
    BY <1>13 DEF RunDeparture, ViewersOK, Announce, GetsOK, RequestRecords
  <2>4. TableOK'
    BY <1>13 DEF RunDeparture, TableOK, SessionRecords, NoSession
  <2>5. EntersOK'
    BY <1>13 DEF RunDeparture, EntryPlaces, EntersOK
  <2>6. LeavingOK'
    <3> DEFINE d == leaving[v]
    <3>1. d \in DepartureRecords
      BY DEF LeavingOK
    <3>2. \E r \in DepartureRecords : leaving' = [leaving EXCEPT ![v] = r]
      <4>1. CASE \E place \in {"output", "client",
                "settle"} : leaving' = [leaving EXCEPT ![v].at = place]
        BY <3>1, <4>1 DEF DepartureRecords
      <4>2. CASE leaving' = [leaving EXCEPT ![v] = NoDeparture]
        BY <4>2 DEF DepartureRecords, NoDeparture
      <4> QED
        BY <1>13, <4>1, <4>2 DEF RunDeparture
    <3> QED
      BY <3>2 DEF LeavingOK
  <2>7. GetsOK'
    BY <1>13 DEF RunDeparture, GetsOK, RequestPlaces
  <2> QED
    BY <2>1, <2>2, <2>3, <2>4, <2>5, <2>6, <2>7 DEF TypesOK
<1>14. ASSUME NEW v \in Viewers, Settle(v) PROVE TypesOK'
  <2>1. PipesOK'
    BY <1>14 DEF Settle, SettleSession, PipesOK, Pipes, hlsRegistryVars, pipeVars, OutputsOver,
      DoneClosed
  <2>2. ChannelOK'
    BY <1>14 DEF Settle, ChannelOK, SweepsOwed, channelVars
  <2>3. ViewersOK'
    BY <1>14 DEF Settle, ViewersOK, Announce, GetsOK, RequestRecords
  <2>4. TableOK'
    <3>1. [table[v] EXCEPT !.settling = FALSE] \in SessionRecords
      BY DEF TableOK, SessionRecords
    <3>2. PICK r \in SessionRecords : table' = [table EXCEPT ![v] = r]
      BY <1>14, <3>1 DEF Settle, SettleSession
    <3> QED
      BY <3>2, FunctionSet DEF TableOK
  <2>5. EntersOK'
    BY <1>14 DEF Settle, EntryPlaces, EntersOK
  <2>6. LeavingOK'
    BY <1>14 DEF Settle, LeavingOK, DepartureRecords, NoDeparture
  <2>7. GetsOK'
    BY <1>14 DEF Settle, GetsOK, RequestPlaces
  <2> QED
    BY <2>1, <2>2, <2>3, <2>4, <2>5, <2>6, <2>7 DEF TypesOK
<1>15. ASSUME NEW g \in Requests, End(g) PROVE TypesOK'
  <2>1. PipesOK'
    BY <1>15 DEF End, PipesOK, Pipes, hlsRegistryVars, pipeVars, OutputsOver, DoneClosed
  <2>2. ChannelOK'
    BY <1>15 DEF End, ChannelOK, SweepsOwed, channelVars
  <2>3. ViewersOK'
    BY <1>15 DEF End, ViewersOK, Announce, GetsOK, RequestRecords
  <2>4. TableOK'
    <3> DEFINE u == gets[g].viewer
    <3>1. u \in Viewers /\ table[u] \in SessionRecords
      BY <1>15 DEF End, FitsInv, RequestFitsEntry, TableOK
    <3> DEFINE n == IF table[u].inFlight > 0 THEN table[u].inFlight - 1 ELSE table[u].inFlight
    <3>2. n \in Nat
      BY <3>1 DEF SessionRecords
    <3>3. table' = [table EXCEPT ![u].inFlight = n]
      BY <1>15 DEF End
    <3> HIDE DEF n
    <3> QED
      BY <3>1, <3>2, <3>3 DEF TableOK, SessionRecords
  <2>5. EntersOK'
    BY <1>15 DEF End, EntryPlaces, EntersOK
  <2>6. LeavingOK'
    BY <1>15 DEF End, LeavingOK, DepartureRecords, NoDeparture
  <2>7. GetsOK'
    BY <1>15, RequestGoesTo DEF End, GetsOK, RequestPlaces
  <2> QED
    BY <2>1, <2>2, <2>3, <2>4, <2>5, <2>6, <2>7 DEF TypesOK
<1>16. ASSUME NEW g \in Requests, ResumeClient(g) PROVE TypesOK'
  <2>1. PipesOK'
    BY <1>16 DEF ResumeClient, PipesOK, Pipes, hlsRegistryVars, pipeVars, OutputsOver, DoneClosed
  <2>2. ChannelOK'
    BY <1>16 DEF ResumeClient, ChannelOK, SweepsOwed, channelVars
  <2>3. ViewersOK'
    <3>1. gets[g].viewer \in Viewers
      BY <1>16 DEF ResumeClient, FitsInv, RequestFitsEntry
    <3> QED
      BY <1>16, <3>1 DEF ResumeClient, ViewersOK
  <2>4. TableOK'
    BY <1>16 DEF ResumeClient, TableOK, SessionRecords, NoSession
  <2>5. EntersOK'
    BY <1>16 DEF ResumeClient, EntryPlaces, EntersOK
  <2>6. LeavingOK'
    BY <1>16 DEF ResumeClient, LeavingOK, DepartureRecords, NoDeparture
  <2>7. GetsOK'
    BY <1>16, RequestGoesTo DEF ResumeClient, GetsOK, RequestPlaces
  <2> QED
    BY <2>1, <2>2, <2>3, <2>4, <2>5, <2>6, <2>7 DEF TypesOK
<1>17. ASSUME NEW g \in Requests, ResumePipe(g) PROVE TypesOK'
  <2>1. PipesOK'
    BY <1>17, Joining, Starting, HlsSessionsAssumption DEF ResumePipe, PipesOK, pipeVars,
      hlsRegistryVars
  <2>2. ChannelOK'
    BY <1>17 DEF ResumePipe, ChannelOK, SweepsOwed, channelVars
  <2>3. ViewersOK'
    BY <1>17 DEF ResumePipe, ViewersOK, Announce, GetsOK, RequestRecords
  <2>4. TableOK'
    BY <1>17 DEF ResumePipe, TableOK, SessionRecords, NoSession
  <2>5. EntersOK'
    BY <1>17 DEF ResumePipe, EntryPlaces, EntersOK
  <2>6. LeavingOK'
    BY <1>17 DEF ResumePipe, LeavingOK, DepartureRecords, NoDeparture
  <2>7. GetsOK'
    BY <1>17, RequestGoesTo DEF ResumePipe, GetsOK, RequestPlaces
  <2> QED
    BY <2>1, <2>2, <2>3, <2>4, <2>5, <2>6, <2>7 DEF TypesOK
<1>18. ASSUME NEW g \in Requests, CommitResume(g) PROVE TypesOK'
  <2>1. PipesOK'
    BY <1>18 DEF CommitResume, Resumable, PipesOK, Pipes, hlsRegistryVars, pipeVars, OutputsOver,
      DoneClosed
  <2>2. ChannelOK'
    BY <1>18 DEF CommitResume, ChannelOK, SweepsOwed, channelVars
  <2>3. ViewersOK'
    BY <1>18 DEF CommitResume, ViewersOK, Announce, GetsOK, RequestRecords
  <2>4. TableOK'
    <3> DEFINE u == gets[g].viewer
    <3>1. UNCHANGED table \/ table' = [table EXCEPT ![u] = [@ EXCEPT !.state = "active",
                                                    !.inFlight = 1,
                                                          !.connected = TRUE, !.holds = TRUE]]
      BY <1>18 DEF CommitResume
    <3>2. u \in Viewers /\ table[u] \in SessionRecords
      BY <1>18 DEF CommitResume, FitsInv, RequestFitsEntry, TableOK
    <3> DEFINE r == [table[u] EXCEPT !.state = "active", !.inFlight = 1, !.connected = TRUE,
                                     !.holds = TRUE]
    <3>3. r \in SessionRecords
      BY <3>2 DEF SessionRecords
    <3>4. UNCHANGED table \/ table' = [table EXCEPT ![u] = r]
      BY <3>1
    <3> HIDE DEF r
    <3> QED
      BY <3>2, <3>3, <3>4 DEF TableOK
  <2>5. EntersOK'
    BY <1>18 DEF CommitResume, EntryPlaces, EntersOK
  <2>6. LeavingOK'
    BY <1>18 DEF CommitResume, LeavingOK, DepartureRecords, NoDeparture
  <2>7. GetsOK'
    BY <1>18, RequestGoesTo DEF CommitResume, GetsOK, RequestPlaces
  <2> QED
    BY <2>1, <2>2, <2>3, <2>4, <2>5, <2>6, <2>7 DEF TypesOK
<1>19. ASSUME NEW g \in Requests, ResumeConnect(g) PROVE TypesOK'
  <2>1. PipesOK'
    BY <1>19 DEF ResumeConnect, PipesOK, Pipes, hlsRegistryVars, pipeVars, OutputsOver, DoneClosed
  <2>2. ChannelOK'
    BY <1>19 DEF ResumeConnect, ChannelOK, SweepsOwed, channelVars
  <2>3. ViewersOK'
    <3>1. gets[g].viewer \in Viewers
      BY <1>19 DEF ResumeConnect, FitsInv, RequestFitsEntry
    <3> QED
      BY <1>19, <3>1 DEF ResumeConnect, ViewersOK, Announce
  <2>4. TableOK'
    BY <1>19 DEF ResumeConnect, TableOK, SessionRecords, NoSession
  <2>5. EntersOK'
    BY <1>19 DEF ResumeConnect, EntryPlaces, EntersOK
  <2>6. LeavingOK'
    BY <1>19 DEF ResumeConnect, LeavingOK, DepartureRecords, NoDeparture
  <2>7. GetsOK'
    BY <1>19, RequestGoesTo DEF ResumeConnect, GetsOK, RequestPlaces
  <2> QED
    BY <2>1, <2>2, <2>3, <2>4, <2>5, <2>6, <2>7 DEF TypesOK
<1>20. ASSUME NEW g \in Requests, UndoResume(g) PROVE TypesOK'
  <2>1. PipesOK'
    BY <1>20, Releasing DEF UndoResume, PipesOK, EntersOK, LeavingOK, GetsOK, EntryRecords,
      DepartureRecords, RequestRecords, hlsRegistryVars, pipeVars
  <2>2. ChannelOK'
    BY <1>20 DEF UndoResume, ChannelOK, SweepsOwed, channelVars
  <2>3. ViewersOK'
    BY <1>20 DEF UndoResume, ViewersOK, Announce, GetsOK, RequestRecords
  <2>4. TableOK'
    BY <1>20 DEF UndoResume, TableOK, SessionRecords, NoSession
  <2>5. EntersOK'
    BY <1>20 DEF UndoResume, EntryPlaces, EntersOK
  <2>6. LeavingOK'
    BY <1>20 DEF UndoResume, LeavingOK, DepartureRecords, NoDeparture
  <2>7. GetsOK'
    BY <1>20, RequestGoesTo DEF UndoResume, GetsOK, RequestPlaces
  <2> QED
    BY <2>1, <2>2, <2>3, <2>4, <2>5, <2>6, <2>7 DEF TypesOK
<1>21. ASSUME NEW g \in Requests, ResumeFailed(g) PROVE TypesOK'
  <2>1. PipesOK'
    BY <1>21 DEF ResumeFailed, PipesOK, Pipes, hlsRegistryVars, pipeVars, OutputsOver, DoneClosed
  <2>2. ChannelOK'
    BY <1>21 DEF ResumeFailed, ChannelOK, SweepsOwed, channelVars
  <2>3. ViewersOK'
    <3>1. {gets[g].viewer} \in SUBSET Viewers
      BY <1>21 DEF ResumeFailed, FitsInv, RequestFitsEntry
    <3>2. CASE MarkStopped({gets[g].viewer}, "channel")
      BY <1>21, <3>1, <3>2, Marking DEF ResumeFailed
    <3>3. CASE UNCHANGED <<table, dropping>>
      BY <1>21, <3>3 DEF ResumeFailed, ViewersOK
    <3> QED
      BY <1>21, <3>2, <3>3 DEF ResumeFailed
  <2>4. TableOK'
    <3>1. {gets[g].viewer} \in SUBSET Viewers
      BY <1>21 DEF ResumeFailed, FitsInv, RequestFitsEntry
    <3>2. CASE MarkStopped({gets[g].viewer}, "channel")
      BY <1>21, <3>1, <3>2, Marking DEF ResumeFailed
    <3>3. CASE UNCHANGED <<table, dropping>>
      BY <3>3 DEF TableOK
    <3> QED
      BY <1>21, <3>2, <3>3 DEF ResumeFailed
  <2>5. EntersOK'
    BY <1>21 DEF ResumeFailed, EntryPlaces, EntersOK
  <2>6. LeavingOK'
    BY <1>21 DEF ResumeFailed, LeavingOK, DepartureRecords, NoDeparture
  <2>7. GetsOK'
    BY <1>21, RequestGoesTo DEF ResumeFailed, GetsOK, RequestPlaces
  <2> QED
    BY <2>1, <2>2, <2>3, <2>4, <2>5, <2>6, <2>7 DEF TypesOK
<1>22. ASSUME NEW g \in Requests, NEW v \in Viewers, Begin(g, v) PROVE TypesOK'
  <2>1. PipesOK'
    BY <1>22 DEF Begin, PipesOK, Pipes, hlsRegistryVars, pipeVars, OutputsOver, DoneClosed
  <2>2. ChannelOK'
    BY <1>22 DEF Begin, ChannelOK, SweepsOwed, channelVars
  <2>3. ViewersOK'
    BY <1>22 DEF Begin, ViewersOK, Announce, GetsOK, RequestRecords
  <2>4. TableOK'
    BY <1>22 DEF Begin, TableOK, SessionRecords, NoSession
  <2>5. EntersOK'
    BY <1>22 DEF Begin, EntryPlaces, EntersOK
  <2>6. LeavingOK'
    BY <1>22 DEF Begin, LeavingOK, DepartureRecords, NoDeparture
  <2>7. GetsOK'
    BY <1>22 DEF Begin, GetsOK, RequestPlaces, RequestRecords, TableOK, SessionRecords
  <2> QED
    BY <2>1, <2>2, <2>3, <2>4, <2>5, <2>6, <2>7 DEF TypesOK
<1>23. ASSUME NEW p \in Pipes, PipeGoes(p) PROVE TypesOK'
  <2>1. PipesOK'
    BY <1>23 DEF PipeGoes, PipesOK, Pipes, hlsRegistryVars, pipeVars, OutputsOver, DoneClosed
  <2>2. ChannelOK'
    BY <1>23 DEF PipeGoes, ChannelOK, SweepsOwed, channelVars
  <2>3. ViewersOK'
    BY <1>23 DEF PipeGoes, ViewersOK, Announce, GetsOK, RequestRecords
  <2>4. TableOK'
    BY <1>23 DEF PipeGoes, TableOK, SessionRecords, NoSession
  <2>5. EntersOK'
    BY <1>23 DEF PipeGoes, EntryPlaces, EntersOK
  <2>6. LeavingOK'
    BY <1>23 DEF PipeGoes, LeavingOK, DepartureRecords, NoDeparture
  <2>7. GetsOK'
    BY <1>23 DEF PipeGoes, GetsOK, RequestPlaces
  <2> QED
    BY <2>1, <2>2, <2>3, <2>4, <2>5, <2>6, <2>7 DEF TypesOK
<1>24. ASSUME NEW p \in Pipes, Watch(p) PROVE TypesOK'
  <2>1. PipesOK'
    BY <1>24, Failing DEF Watch, PipesOK, EntersOK, EntryRecords, hlsRegistryVars, pipeVars
  <2>2. ChannelOK'
    BY <1>24 DEF Watch, ChannelOK, SweepsOwed, channelVars
  <2>3. ViewersOK'
    BY <1>24, Marking DEF Watch, ViewersOK, Announce, GetsOK, RequestRecords
  <2>4. TableOK'
    BY <1>24, Marking DEF Watch, TableOK, SessionRecords, NoSession
  <2>5. EntersOK'
    BY <1>24 DEF Watch, EntryPlaces, EntersOK
  <2>6. LeavingOK'
    BY <1>24 DEF Watch, LeavingOK, DepartureRecords, NoDeparture
  <2>7. GetsOK'
    BY <1>24 DEF Watch, GetsOK, RequestPlaces
  <2> QED
    BY <2>1, <2>2, <2>3, <2>4, <2>5, <2>6, <2>7 DEF TypesOK
<1>25. ASSUME LingerEnds PROVE TypesOK'
  <2>1. PipesOK'
    BY <1>25 DEF LingerEnds, StopPipe, PipesOK, Pipes, hlsRegistryVars, pipeVars, OutputsOver,
      DoneClosed
  <2>2. ChannelOK'
    BY <1>25 DEF LingerEnds, ChannelOK, SweepsOwed, channelVars
  <2>3. ViewersOK'
    BY <1>25 DEF LingerEnds, ViewersOK, Announce, GetsOK, RequestRecords
  <2>4. TableOK'
    BY <1>25 DEF LingerEnds, TableOK, SessionRecords, NoSession
  <2>5. EntersOK'
    BY <1>25 DEF LingerEnds, EntryPlaces, EntersOK
  <2>6. LeavingOK'
    BY <1>25 DEF LingerEnds, LeavingOK, DepartureRecords, NoDeparture
  <2>7. GetsOK'
    BY <1>25 DEF LingerEnds, GetsOK, RequestPlaces
  <2> QED
    BY <2>1, <2>2, <2>3, <2>4, <2>5, <2>6, <2>7 DEF TypesOK
<1>26. ASSUME Boundary PROVE TypesOK'
  <2>1. PipesOK'
    BY <1>26 DEF Boundary, PipesOK, Pipes, hlsRegistryVars, pipeVars, OutputsOver, DoneClosed
  <2>2. ChannelOK'
    BY <1>26 DEF Boundary, ChannelOK, SweepsOwed, channelVars
  <2>3. ViewersOK'
    BY <1>26 DEF Boundary, ViewersOK, Announce, GetsOK, RequestRecords
  <2>4. TableOK'
    BY <1>26 DEF Boundary, TableOK, SessionRecords, NoSession
  <2>5. EntersOK'
    BY <1>26 DEF Boundary, EntryPlaces, EntersOK
  <2>6. LeavingOK'
    BY <1>26 DEF Boundary, LeavingOK, DepartureRecords, NoDeparture
  <2>7. GetsOK'
    BY <1>26 DEF Boundary, GetsOK, RequestPlaces
  <2> QED
    BY <2>1, <2>2, <2>3, <2>4, <2>5, <2>6, <2>7 DEF TypesOK
<1>27. ASSUME StopChannel PROVE TypesOK'
  <2>1. PipesOK'
    BY <1>27 DEF StopChannel, PipesOK, Pipes, hlsRegistryVars, pipeVars, OutputsOver, DoneClosed
  <2>2. ChannelOK'
    BY <1>27 DEF StopChannel, ChannelOK, SweepsOwed, channelVars
  <2>3. ViewersOK'
    BY <1>27, Marking DEF StopChannel, ViewersOK, Announce, GetsOK, RequestRecords
  <2>4. TableOK'
    BY <1>27, Marking DEF StopChannel, TableOK, SessionRecords, NoSession
  <2>5. EntersOK'
    BY <1>27 DEF StopChannel, EntryPlaces, EntersOK
  <2>6. LeavingOK'
    BY <1>27 DEF StopChannel, LeavingOK, DepartureRecords, NoDeparture
  <2>7. GetsOK'
    BY <1>27 DEF StopChannel, GetsOK, RequestPlaces
  <2> QED
    BY <2>1, <2>2, <2>3, <2>4, <2>5, <2>6, <2>7 DEF TypesOK
<1>28. ASSUME DropStopped PROVE TypesOK'
  <2>1. PipesOK'
    BY <1>28 DEF DropStopped, DropsStopped, PipesOK, Pipes, hlsRegistryVars, pipeVars,
      OutputsOver, DoneClosed
  <2>2. ChannelOK'
    BY <1>28 DEF DropStopped, ChannelOK, SweepsOwed, channelVars
  <2>3. ViewersOK'
    BY <1>28 DEF DropStopped, ViewersOK, Announce, GetsOK, RequestRecords, DropsStopped
  <2>4. TableOK'
    BY <1>28 DEF DropStopped, TableOK, SessionRecords, NoSession
  <2>5. EntersOK'
    BY <1>28 DEF DropStopped, EntryPlaces, EntersOK
  <2>6. LeavingOK'
    BY <1>28 DEF DropStopped, LeavingOK, DepartureRecords, NoDeparture
  <2>7. GetsOK'
    BY <1>28 DEF DropStopped, GetsOK, RequestPlaces
  <2> QED
    BY <2>1, <2>2, <2>3, <2>4, <2>5, <2>6, <2>7 DEF TypesOK
<1>29. ASSUME Unlist PROVE TypesOK'
  <2>1. PipesOK'
    BY <1>29 DEF Unlist, PipesOK, Pipes, hlsRegistryVars, pipeVars, OutputsOver, DoneClosed
  <2>2. ChannelOK'
    <3>1. listed /\ listed' = FALSE /\ toSweep' = toSweep + 1 /\ UNCHANGED <<runAt, swept>>
      BY <1>29 DEF Unlist
    <3>2. toSweep + 1 + (IF runAt = "closed" THEN 0 ELSE 1) <= 2
      BY <3>1 DEF ChannelOK, SweepsOwed
    <3>3. ~listed' /\ toSweep' \in Nat
      BY <3>1 DEF ChannelOK
    <3>4. SweepsOwed'
      BY <3>1, <3>2, <3>3 DEF SweepsOwed
    <3> QED
      BY <3>1, <3>3, <3>4 DEF ChannelOK
  <2>3. ViewersOK'
    BY <1>29 DEF Unlist, ViewersOK, Announce, GetsOK, RequestRecords
  <2>4. TableOK'
    BY <1>29 DEF Unlist, TableOK, SessionRecords, NoSession
  <2>5. EntersOK'
    BY <1>29 DEF Unlist, EntryPlaces, EntersOK
  <2>6. LeavingOK'
    BY <1>29 DEF Unlist, LeavingOK, DepartureRecords, NoDeparture
  <2>7. GetsOK'
    BY <1>29 DEF Unlist, GetsOK, RequestPlaces
  <2> QED
    BY <2>1, <2>2, <2>3, <2>4, <2>5, <2>6, <2>7 DEF TypesOK
<1>30. ASSUME OutputsStop PROVE TypesOK'
  <2>1. PipesOK'
    BY <1>30 DEF OutputsStop, StopPipe, PipesOK, Pipes, hlsRegistryVars, pipeVars, OutputsOver,
      DoneClosed
  <2>2. ChannelOK'
    BY <1>30 DEF OutputsStop, ChannelOK, SweepsOwed, channelVars
  <2>3. ViewersOK'
    BY <1>30 DEF OutputsStop, ViewersOK, Announce, GetsOK, RequestRecords
  <2>4. TableOK'
    BY <1>30 DEF OutputsStop, TableOK, SessionRecords, NoSession
  <2>5. EntersOK'
    BY <1>30 DEF OutputsStop, EntryPlaces, EntersOK
  <2>6. LeavingOK'
    BY <1>30 DEF OutputsStop, LeavingOK, DepartureRecords, NoDeparture
  <2>7. GetsOK'
    BY <1>30 DEF OutputsStop, GetsOK, RequestPlaces
  <2> QED
    BY <2>1, <2>2, <2>3, <2>4, <2>5, <2>6, <2>7 DEF TypesOK
<1>31. ASSUME RingCloses PROVE TypesOK'
  <2>1. PipesOK'
    BY <1>31 DEF RingCloses, PipesOK, Pipes, hlsRegistryVars, pipeVars, OutputsOver, DoneClosed
  <2>2. ChannelOK'
    BY <1>31 DEF RingCloses, ChannelOK, SweepsOwed, channelVars
  <2>3. ViewersOK'
    BY <1>31 DEF RingCloses, ViewersOK, Announce, GetsOK, RequestRecords
  <2>4. TableOK'
    BY <1>31 DEF RingCloses, TableOK, SessionRecords, NoSession
  <2>5. EntersOK'
    BY <1>31 DEF RingCloses, EntryPlaces, EntersOK
  <2>6. LeavingOK'
    BY <1>31 DEF RingCloses, LeavingOK, DepartureRecords, NoDeparture
  <2>7. GetsOK'
    BY <1>31 DEF RingCloses, GetsOK, RequestPlaces
  <2> QED
    BY <2>1, <2>2, <2>3, <2>4, <2>5, <2>6, <2>7 DEF TypesOK
<1> QED
  BY <1>1, <1>2, <1>3, <1>4, <1>5, <1>6, <1>7, <1>8, <1>9, <1>10, <1>11, <1>12, <1>13, <1>14,
    <1>15, <1>16, <1>17, <1>18, <1>19, <1>20, <1>21, <1>22, <1>23, <1>24, <1>25, <1>26, <1>27,
    <1>28, <1>29, <1>30, <1>31
  DEF SessNext, EntryStep, DepartureStep, RequestStep, PipelineStep, MarkStep, ChannelEndStep

\* A mark keeps sessions, entries and requests in step.
LEMMA MarkedFits ==
  ASSUME TypesOK, FitsInv, NEW V \in SUBSET Viewers, NEW why \in {"client", "channel", "output"},
         MarkStopped(V, why), UNCHANGED <<registry, announced, enters, leaving>>,
         \A g \in Requests : gets'[g] = gets[g] \/ gets'[g].at = "idle"
  PROVE  FitsInv'
<1>0. MarkedBy(V, why)
  <2>1. TableOK /\ ViewersOK
    BY DEF TypesOK
  <2> QED
    BY <2>1, Marking
<1> USE DEF TypesOK, TableOK, SessionRecords, FitsInv, MarkedBy
<1>1. \A w \in Viewers : SessionFitsEntry(w)'
  <2> SUFFICES ASSUME NEW w \in Viewers PROVE SessionFitsEntry(w)'
    OBVIOUS
  <2>1. CASE table'[w] = table[w]
    BY <2>1 DEF SessionFitsEntry
  <2>2. CASE table'[w] = [table[w] EXCEPT !.state = "stopped", !.holds = FALSE, !.plays = 0,
                                          !.ended = why] /\ table[w].state # "none"
    BY <2>2 DEF SessionFitsEntry
  <2> QED
    BY <1>0, <2>1, <2>2
<1>2. \A w \in Viewers : DepartureFits(w)'
  BY DEF DepartureFits
<1>3. \A g \in Requests : RequestFitsEntry(g)'
  <2> SUFFICES ASSUME NEW g \in Requests, gets'[g] = gets[g], gets[g].at # "idle"
      PROVE RequestFitsEntry(g)'
    BY DEF RequestFitsEntry
  <2>1. gets[g].viewer \in Viewers
    BY DEF RequestFitsEntry
  <2>2. CASE table'[gets[g].viewer] = table[gets[g].viewer]
    BY <2>1, <2>2 DEF RequestFitsEntry
  <2>3. CASE table'[gets[g].viewer].state = "stopped"
    BY <2>1, <2>3 DEF RequestFitsEntry
  <2> QED
    BY <1>0, <2>1, <2>2, <2>3
<1> QED
  BY <1>1, <1>2, <1>3

\* Every step keeps sessions, entries and requests in step.
LEMMA StepFits ==
  ASSUME TypesOK, TypesOK', FitsInv, SessNext
  PROVE  FitsInv'
<1> USE DEF TypesOK, TableOK, EntersOK, LeavingOK, GetsOK, SessionRecords, EntryRecords,
        DepartureRecords, RequestRecords, FitsInv
<1>1. ASSUME NEW v \in Viewers, Enter(v) PROVE FitsInv'
  <2>1. \A w \in Viewers : w # v => table'[w] = table[w] /\ enters'[w] = enters[w]
            /\ leaving'[w] = leaving[w]
    BY <1>1, EntryGoesTo DEF Enter, EntryPlaces, NoDeparture
  <2>2. SessionFitsEntry(v)'
    BY <1>1, EntryGoesTo DEF Enter, EntryPlaces, SessionFitsEntry, NoSession
  <2>3. \A w \in Viewers : w # v => SessionFitsEntry(w)' /\ DepartureFits(w)'
    BY <2>1 DEF SessionFitsEntry, DepartureFits
  <2>4. DepartureFits(v)'
    BY <1>1 DEF Enter, EntryPlaces, NoDeparture, DepartureFits, SessionFitsEntry
  <2>5. UNCHANGED gets /\ enters[v].at # "in"
    BY <1>1 DEF Enter
  <2>6. \A h \in Requests : RequestFitsEntry(h)'
    BY <2>5, <2>1 DEF RequestFitsEntry
  <2> QED
    BY <2>2, <2>3, <2>4, <2>6
<1>2. ASSUME NEW v \in Viewers, AttachPipe(v) PROVE FitsInv'
  <2>1. \A w \in Viewers : w # v => table'[w] = table[w] /\ enters'[w] = enters[w]
            /\ leaving'[w] = leaving[w]
    BY <1>2, EntryGoesTo DEF AttachPipe, EntryPlaces, PipesOK, Join, StartPipe, NoDeparture
  <2>2. SessionFitsEntry(v)'
    <3>1. UNCHANGED table /\ enters[v].at = "attached"
      BY <1>2 DEF AttachPipe
    <3>2. CASE enters'[v].at = "unpiped"
      BY <3>1, <3>2 DEF SessionFitsEntry
    <3>3. CASE enters'[v].at = "piped" /\ enters'[v].pipe # 0
      BY <3>1, <3>3 DEF SessionFitsEntry
    <3>4. OutputsOver \/ failedMark => enters'[v].at = "unpiped"
      BY <1>2, EntryGoesTo DEF AttachPipe, EntryPlaces
    <3>5. ~(OutputsOver \/ failedMark) => enters'[v] = [at |-> "piped", pipe |-> pipeline']
      BY <1>2 DEF AttachPipe
    <3>6. ~(OutputsOver \/ failedMark) => pipeline' # 0
      BY <1>2, Starting, HlsSessionsAssumption DEF AttachPipe, Join, Pipes
    <3> QED
      BY <3>2, <3>3, <3>4, <3>5, <3>6
  <2>3. \A w \in Viewers : w # v => SessionFitsEntry(w)' /\ DepartureFits(w)'
    BY <2>1 DEF SessionFitsEntry, DepartureFits
  <2>4. DepartureFits(v)'
    BY <1>2 DEF AttachPipe, EntryPlaces, PipesOK, Join, StartPipe, NoDeparture, DepartureFits,
      SessionFitsEntry
  <2>5. UNCHANGED gets /\ enters[v].at # "in"
    BY <1>2 DEF AttachPipe
  <2>6. \A h \in Requests : RequestFitsEntry(h)'
    BY <2>5, <2>1 DEF RequestFitsEntry
  <2> QED
    BY <2>2, <2>3, <2>4, <2>6
<1>3. ASSUME NEW v \in Viewers, Add(v) PROVE FitsInv'
  <2>1. \A w \in Viewers : w # v => table'[w] = table[w] /\ enters'[w] = enters[w]
            /\ leaving'[w] = leaving[w]
    BY <1>3, EntryGoesTo DEF Add, EntryPlaces, NoDeparture
  <2>2. SessionFitsEntry(v)'
    <3>1. enters'[v] = [at |-> "added", pipe |-> enters[v].pipe] /\ enters[v].pipe # 0
      BY <1>3, EntryGoesTo DEF Add, EntryPlaces, SessionFitsEntry
    <3>2. table'[v] = [state |-> "arrived", inFlight |-> 1, settling |-> FALSE,
              connected |-> FALSE,
                       holds |-> TRUE, plays |-> enters[v].pipe, ended |-> "no"]
      BY <1>3 DEF Add, NoSession
    <3> QED
      BY <3>1, <3>2 DEF SessionFitsEntry
  <2>3. \A w \in Viewers : w # v => SessionFitsEntry(w)' /\ DepartureFits(w)'
    BY <2>1 DEF SessionFitsEntry, DepartureFits
  <2>4. DepartureFits(v)'
    BY <1>3 DEF Add, EntryPlaces, NoDeparture, DepartureFits, SessionFitsEntry
  <2>5. UNCHANGED gets /\ enters[v].at # "in"
    BY <1>3 DEF Add
  <2>6. \A h \in Requests : RequestFitsEntry(h)'
    BY <2>5, <2>1 DEF RequestFitsEntry
  <2> QED
    BY <2>2, <2>3, <2>4, <2>6
<1>4. ASSUME NEW v \in Viewers, ReCheck(v) PROVE FitsInv'
  <2>1. \A w \in Viewers : w # v => table'[w] = table[w] /\ enters'[w] = enters[w]
            /\ leaving'[w] = leaving[w]
    BY <1>4, EntryGoesTo, AbandonTo DEF ReCheck, EntryPlaces, NoDeparture
  <2>2. SessionFitsEntry(v)'
    BY <1>4, EntryGoesTo, AbandonTo DEF ReCheck, EntryPlaces, SessionFitsEntry, NoSession
  <2>3. \A w \in Viewers : w # v => SessionFitsEntry(w)' /\ DepartureFits(w)'
    BY <2>1 DEF SessionFitsEntry, DepartureFits
  <2>4. DepartureFits(v)'
    BY <1>4 DEF ReCheck, EntryPlaces, NoDeparture, DepartureFits, SessionFitsEntry
  <2>5. UNCHANGED gets /\ enters[v].at # "in"
    BY <1>4 DEF ReCheck
  <2>6. \A h \in Requests : RequestFitsEntry(h)'
    BY <2>5, <2>1 DEF RequestFitsEntry
  <2> QED
    BY <2>2, <2>3, <2>4, <2>6
<1>5. ASSUME NEW v \in Viewers, WaitReady(v) PROVE FitsInv'
  <2>1. \A w \in Viewers : w # v => table'[w] = table[w] /\ enters'[w] = enters[w]
            /\ leaving'[w] = leaving[w]
    BY <1>5, EntryGoesTo, AbandonTo DEF WaitReady, EntryPlaces, NoDeparture
  <2>2. SessionFitsEntry(v)'
    <3>1. CASE Abandon(v, "gone")
      BY <3>1, <1>5, AbandonTo DEF WaitReady, SessionFitsEntry, NoSession
    <3>2. CASE EntryGoes(v, "ready") /\ UNCHANGED table
      <4>1. enters[v].at = "waiting"
        BY <1>5 DEF WaitReady
      <4>2. enters'[v] = [at |-> "ready", pipe |-> enters[v].pipe]
        BY <3>2, EntryGoesTo DEF EntryPlaces
      <4>3. UNCHANGED table
        BY <3>2
      <4>4. enters[v].pipe # 0 /\ table[v].state \in {"arrived", "stopped"}
        BY <4>1 DEF SessionFitsEntry
      <4> QED
        BY <4>1, <4>2, <4>3, <4>4 DEF SessionFitsEntry
    <3> QED
      BY <3>1, <3>2, <1>5 DEF WaitReady
  <2>3. \A w \in Viewers : w # v => SessionFitsEntry(w)' /\ DepartureFits(w)'
    BY <2>1 DEF SessionFitsEntry, DepartureFits
  <2>4. DepartureFits(v)'
    BY <1>5 DEF WaitReady, EntryPlaces, NoDeparture, DepartureFits, SessionFitsEntry
  <2>5. UNCHANGED gets /\ enters[v].at # "in"
    BY <1>5 DEF WaitReady
  <2>6. \A h \in Requests : RequestFitsEntry(h)'
    BY <2>5, <2>1 DEF RequestFitsEntry
  <2> QED
    BY <2>2, <2>3, <2>4, <2>6
<1>6. ASSUME NEW v \in Viewers, Connect(v) PROVE FitsInv'
  <2>1. \A w \in Viewers : w # v => table'[w] = table[w] /\ enters'[w] = enters[w]
            /\ leaving'[w] = leaving[w]
    BY <1>6, EntryGoesTo, AbandonTo DEF Connect, EntryPlaces, NoDeparture
  <2>2. SessionFitsEntry(v)'
    <3>1. CASE DoneClosed(enters[v].pipe)
      <4>1. table'[v] = NoSession
        BY <1>6, <3>1, AbandonTo DEF Connect
      <4>2. \/ enters'[v] = [at |-> "refused", pipe |-> enters[v].pipe]
            \/ enters'[v].at = "gone"
        BY <1>6, <3>1, AbandonTo DEF Connect
      <4>3. enters[v].pipe # 0
        BY <1>6 DEF Connect, SessionFitsEntry
      <4> QED
        BY <4>1, <4>2, <4>3 DEF SessionFitsEntry, NoSession
    <3>2. CASE ~DoneClosed(enters[v].pipe)
      <4>1. enters[v].at = "ready" /\ EntryGoes(v, "announced") /\ UNCHANGED table
        BY <1>6, <3>2 DEF Connect
      <4>2. enters'[v] = [at |-> "announced", pipe |-> enters[v].pipe]
        BY <4>1, EntryGoesTo DEF EntryPlaces
      <4>3. table'[v] = table[v] /\ enters[v].at = "ready" /\ SessionFitsEntry(v)
        BY <4>1
      <4>4. enters'[v].at = "announced" /\ enters'[v].pipe = enters[v].pipe
        BY <4>2
      <4> QED
        BY <4>3, <4>4 DEF SessionFitsEntry
    <3> QED
      BY <3>1, <3>2
  <2>3. \A w \in Viewers : w # v => SessionFitsEntry(w)' /\ DepartureFits(w)'
    BY <2>1 DEF SessionFitsEntry, DepartureFits
  <2>4. DepartureFits(v)'
    BY <1>6 DEF Connect, EntryPlaces, NoDeparture, DepartureFits, SessionFitsEntry
  <2>5. UNCHANGED gets /\ enters[v].at # "in"
    BY <1>6 DEF Connect
  <2>6. \A h \in Requests : RequestFitsEntry(h)'
    BY <2>5, <2>1 DEF RequestFitsEntry
  <2> QED
    BY <2>2, <2>3, <2>4, <2>6
<1>7. ASSUME NEW v \in Viewers, ActivateSession(v) PROVE FitsInv'
  <2>1. \A w \in Viewers : w # v => table'[w] = table[w] /\ enters'[w] = enters[w]
            /\ leaving'[w] = leaving[w]
    BY <1>7, EntryGoesTo, AbandonTo DEF ActivateSession, EntryPlaces, NoDeparture
  <2>2. SessionFitsEntry(v)'
    <3>1. CASE Abandon(v, "unannounced")
      BY <3>1, <1>7, AbandonTo DEF ActivateSession, SessionFitsEntry, NoSession
    <3>2. CASE EntryGoes(v, "in") /\ table[v].state = "arrived"
      <4>1. table'[v] = [table[v] EXCEPT !.state = "active", !.connected = TRUE,
                                         !.inFlight = table[v].inFlight - 1]
        <5>1. table' = [table EXCEPT ![v] = [@ EXCEPT !.state = "active", !.connected = TRUE,
                                                      !.inFlight = table[v].inFlight - 1]]
          BY <3>2, <1>7, Zenon DEF ActivateSession
        <5> QED
          BY <5>1
      <4>2. table'[v].state = "active" /\ table'[v].holds /\ table'[v].connected
            /\ ~table'[v].settling /\ table'[v].plays # 0
        BY <3>2, <4>1 DEF SessionFitsEntry
      <4>3. enters'[v].at = "in"
        BY <3>2, EntryGoesTo DEF EntryPlaces
      <4> QED
        BY <4>2, <4>3 DEF SessionFitsEntry
    <3> QED
      BY <3>1, <3>2, <1>7 DEF ActivateSession
  <2>3. \A w \in Viewers : w # v => SessionFitsEntry(w)' /\ DepartureFits(w)'
    BY <2>1 DEF SessionFitsEntry, DepartureFits
  <2>4. DepartureFits(v)'
    BY <1>7 DEF ActivateSession, EntryPlaces, NoDeparture, DepartureFits, SessionFitsEntry
  <2>5. UNCHANGED gets /\ enters[v].at # "in"
    BY <1>7 DEF ActivateSession
  <2>6. \A h \in Requests : RequestFitsEntry(h)'
    BY <2>5, <2>1 DEF RequestFitsEntry
  <2> QED
    BY <2>2, <2>3, <2>4, <2>6
<1>8. ASSUME NEW v \in Viewers, UndoEntry(v) PROVE FitsInv'
  <2>1. \A w \in Viewers : w # v => table'[w] = table[w] /\ enters'[w] = enters[w]
            /\ leaving'[w] = leaving[w]
    BY <1>8, EntryGoesTo DEF UndoEntry, EntryPlaces, NoDeparture
  <2>2. SessionFitsEntry(v)'
    BY <1>8, EntryGoesTo DEF UndoEntry, EntryPlaces, SessionFitsEntry, NoSession
  <2>3. \A w \in Viewers : w # v => SessionFitsEntry(w)' /\ DepartureFits(w)'
    BY <2>1 DEF SessionFitsEntry, DepartureFits
  <2>4. DepartureFits(v)'
    BY <1>8 DEF UndoEntry, EntryPlaces, NoDeparture, DepartureFits, SessionFitsEntry
  <2>5. UNCHANGED gets /\ enters[v].at # "in"
    BY <1>8 DEF UndoEntry
  <2>6. \A h \in Requests : RequestFitsEntry(h)'
    BY <2>5, <2>1 DEF RequestFitsEntry
  <2> QED
    BY <2>2, <2>3, <2>4, <2>6
<1>9. ASSUME NEW v \in Viewers, DepartIdle(v) PROVE FitsInv'
  <2>1. \A w \in Viewers : w # v => table'[w] = table[w] /\ enters'[w] = enters[w]
            /\ leaving'[w] = leaving[w]
    BY <1>9 DEF DepartIdle, TakesLeave, NoDeparture
  <2>2. SessionFitsEntry(v)'
    BY <1>9 DEF DepartIdle, SessionFitsEntry, NoSession
  <2>3. \A w \in Viewers : w # v => SessionFitsEntry(w)' /\ DepartureFits(w)'
    BY <2>1 DEF SessionFitsEntry, DepartureFits
  <2>4. DepartureFits(v)'
    BY <1>9 DEF DepartIdle, TakesLeave, NoDeparture, DepartureFits, SessionFitsEntry
  <2>5. \A h \in Requests : RequestFitsEntry(h)'
    BY <1>9, <2>1 DEF DepartIdle, RequestFitsEntry, NoSession
  <2> QED
    BY <2>2, <2>3, <2>4, <2>5
<1>10. ASSUME NEW v \in Viewers, Forget(v) PROVE FitsInv'
  <2>1. \A w \in Viewers : w # v => table'[w] = table[w] /\ enters'[w] = enters[w]
            /\ leaving'[w] = leaving[w]
    BY <1>10 DEF Forget, NoDeparture
  <2>2. SessionFitsEntry(v)'
    BY <1>10 DEF Forget, SessionFitsEntry, NoSession
  <2>3. \A w \in Viewers : w # v => SessionFitsEntry(w)' /\ DepartureFits(w)'
    BY <2>1 DEF SessionFitsEntry, DepartureFits
  <2>4. DepartureFits(v)'
    BY <1>10 DEF Forget, NoDeparture, DepartureFits, SessionFitsEntry
  <2>5. \A h \in Requests : RequestFitsEntry(h)'
    BY <1>10, <2>1 DEF Forget, RequestFitsEntry, NoSession
  <2> QED
    BY <2>2, <2>3, <2>4, <2>5
<1>11. ASSUME NEW v \in Viewers, Leave(v) PROVE FitsInv'
  <2>1. \A w \in Viewers : w # v => table'[w] = table[w] /\ enters'[w] = enters[w]
            /\ leaving'[w] = leaving[w]
    BY <1>11 DEF Leave, TakesLeave, NoDeparture
  <2>2. SessionFitsEntry(v)'
    BY <1>11 DEF Leave, SessionFitsEntry, NoSession
  <2>3. \A w \in Viewers : w # v => SessionFitsEntry(w)' /\ DepartureFits(w)'
    BY <2>1 DEF SessionFitsEntry, DepartureFits
  <2>4. DepartureFits(v)'
    BY <1>11 DEF Leave, TakesLeave, NoDeparture, DepartureFits, SessionFitsEntry
  <2>5. \A h \in Requests : RequestFitsEntry(h)'
    BY <1>11, <2>1 DEF Leave, RequestFitsEntry, NoSession
  <2> QED
    BY <2>2, <2>3, <2>4, <2>5
<1>12. ASSUME NEW v \in Viewers, EndClient(v) PROVE FitsInv'
  <2>1. \A w \in Viewers : w # v => table'[w] = table[w] /\ enters'[w] = enters[w]
            /\ leaving'[w] = leaving[w]
    BY <1>12 DEF EndClient, TakesLeave, NoDeparture
  <2>2. SessionFitsEntry(v)'
    BY <1>12 DEF EndClient, SessionFitsEntry, NoSession
  <2>3. \A w \in Viewers : w # v => SessionFitsEntry(w)' /\ DepartureFits(w)'
    BY <2>1 DEF SessionFitsEntry, DepartureFits
  <2>4. DepartureFits(v)'
    BY <1>12 DEF EndClient, TakesLeave, NoDeparture, DepartureFits, SessionFitsEntry
  <2>5. \A h \in Requests : RequestFitsEntry(h)'
    BY <1>12, <2>1 DEF EndClient, RequestFitsEntry, NoSession
  <2> QED
    BY <2>2, <2>3, <2>4, <2>5
<1>13. ASSUME NEW v \in Viewers, RunDeparture(v) PROVE FitsInv'
  <2>1. \A w \in Viewers : w # v => table'[w] = table[w] /\ enters'[w] = enters[w]
            /\ leaving'[w] = leaving[w]
    BY <1>13 DEF RunDeparture, NoDeparture
  <2>2. SessionFitsEntry(v)'
    BY <1>13 DEF RunDeparture, SessionFitsEntry, NoSession
  <2>3. \A w \in Viewers : w # v => SessionFitsEntry(w)' /\ DepartureFits(w)'
    BY <2>1 DEF SessionFitsEntry, DepartureFits
  <2>4. DepartureFits(v)'
    BY <1>13 DEF RunDeparture, NoDeparture, DepartureFits, SessionFitsEntry
  <2>5. \A h \in Requests : RequestFitsEntry(h)'
    BY <1>13, <2>1 DEF RunDeparture, RequestFitsEntry, NoSession
  <2> QED
    BY <2>2, <2>3, <2>4, <2>5
<1>14. ASSUME NEW v \in Viewers, Settle(v) PROVE FitsInv'
  <2>1. \A w \in Viewers : w # v => table'[w] = table[w] /\ enters'[w] = enters[w]
            /\ leaving'[w] = leaving[w]
    BY <1>14 DEF Settle, SettleSession, NoDeparture
  <2>2. SessionFitsEntry(v)'
    BY <1>14 DEF Settle, SettleSession, SessionFitsEntry, NoSession
  <2>3. \A w \in Viewers : w # v => SessionFitsEntry(w)' /\ DepartureFits(w)'
    BY <2>1 DEF SessionFitsEntry, DepartureFits
  <2>4. DepartureFits(v)'
    BY <1>14 DEF Settle, SettleSession, NoDeparture, DepartureFits, SessionFitsEntry
  <2>5. \A h \in Requests : RequestFitsEntry(h)'
    BY <1>14, <2>1 DEF Settle, RequestFitsEntry, SettleSession, NoSession
  <2> QED
    BY <2>2, <2>3, <2>4, <2>5
<1>15. ASSUME NEW g \in Requests, End(g) PROVE FitsInv'
  <2>1. gets[g].at = "serving" /\ gets[g].viewer \in Viewers
    BY <1>15 DEF End, RequestFitsEntry
  <2>2. PICK u \in Viewers : u = gets[g].viewer
    BY <2>1
  <2>3. PICK n : table' = [table EXCEPT ![u] = [table[u] EXCEPT !.inFlight = n]]
    <3> HIDE DEF TypesOK, TableOK, FitsInv
    <3>1. table' = [table EXCEPT ![u].inFlight = IF @ > 0 THEN @ - 1 ELSE @]
      BY <1>15, <2>2 DEF End
    <3> QED
      BY <3>1
  <2>4. table[u] \in SessionRecords /\ table'[u] = [table[u] EXCEPT !.inFlight = n]
    BY <2>3 DEF TypesOK, TableOK
  <2>5. /\ table'[u].state = table[u].state /\ table'[u].settling = table[u].settling
        /\ table'[u].connected = table[u].connected /\ table'[u].holds = table[u].holds
        /\ table'[u].plays = table[u].plays
    BY <2>4 DEF SessionRecords
  <2>6. \A w \in Viewers : w # u => table'[w] = table[w]
    BY <2>3 DEF TypesOK, TableOK
  <2>7. UNCHANGED <<enters, leaving>>
    BY <1>15 DEF End
  <2>8. enters[u].at = "in"
    BY <2>1, <2>2 DEF RequestFitsEntry
  <2>9. \A w \in Viewers : SessionFitsEntry(w)'
    <3>1. SessionFitsEntry(u) /\ table[u].state # "arrived"
      BY <2>8 DEF SessionFitsEntry
    <3>2. SessionFitsEntry(u)'
      BY <2>5, <2>7, <2>8, <3>1 DEF SessionFitsEntry
    <3>3. \A w \in Viewers : w # u => SessionFitsEntry(w)'
      BY <2>6, <2>7 DEF SessionFitsEntry
    <3> QED
      BY <3>2, <3>3
  <2>10. \A w \in Viewers : DepartureFits(w)'
    BY <2>7 DEF DepartureFits
  <2>11. gets'[g] = NoRequest /\ \A k \in Requests : k # g => gets'[k] = gets[k]
    BY <1>15, RequestGoesTo DEF End, RequestPlaces
  <2>12. \A w \in Viewers : table'[w].plays = table[w].plays /\ table'[w].state = table[w].state
    BY <2>5, <2>6
  <2>13. \A k \in Requests : k # g => RequestFitsEntry(k)'
    BY <2>7, <2>11, <2>12 DEF RequestFitsEntry
  <2>14. RequestFitsEntry(g)'
    BY <2>11 DEF RequestFitsEntry, NoRequest
  <2> QED
    BY <2>9, <2>10, <2>13, <2>14
<1>16. ASSUME NEW g \in Requests, ResumeClient(g) PROVE FitsInv'
  <2>1. \A w \in Viewers : SessionFitsEntry(w)'
    BY <1>16 DEF ResumeClient, SessionFitsEntry, RequestFitsEntry
  <2>2. \A w \in Viewers : DepartureFits(w)'
    BY <1>16 DEF ResumeClient, NoDeparture, DepartureFits
  <2>3. \A k \in Requests : k # g => gets'[k] = gets[k]
    BY <1>16, RequestGoesTo DEF ResumeClient, RequestPlaces, Resumable
  <2>4. UNCHANGED enters /\ \A w \in Viewers : table'[w].plays = table[w].plays
            /\ (table'[w].state = table[w].state \/ table[w].state = "departed")
    BY <1>16 DEF ResumeClient, Resumable
  <2>5. RequestFitsEntry(g)'
    BY <1>16, RequestGoesTo DEF ResumeClient, RequestPlaces, RequestFitsEntry, NoRequest,
      Resumable
  <2>6. \A k \in Requests : k # g => RequestFitsEntry(k)'
    BY <2>3, <2>4 DEF RequestFitsEntry
  <2> QED
    BY <2>1, <2>2, <2>5, <2>6
<1>17. ASSUME NEW g \in Requests, ResumePipe(g) PROVE FitsInv'
  <2>1. \A w \in Viewers : SessionFitsEntry(w)'
    BY <1>17 DEF ResumePipe, SessionFitsEntry, RequestFitsEntry
  <2>2. \A w \in Viewers : DepartureFits(w)'
    BY <1>17 DEF ResumePipe, NoDeparture, DepartureFits
  <2>3. \A k \in Requests : k # g => gets'[k] = gets[k]
    BY <1>17, RequestGoesTo DEF ResumePipe, RequestPlaces, Resumable
  <2>4. UNCHANGED enters /\ \A w \in Viewers : table'[w].plays = table[w].plays
            /\ (table'[w].state = table[w].state \/ table[w].state = "departed")
    BY <1>17 DEF ResumePipe, Resumable
  <2>5. RequestFitsEntry(g)'
    <3>1. UNCHANGED <<table, enters>> /\ gets[g].at = "client"
      BY <1>17 DEF ResumePipe
    <3>2. /\ gets'[g].at \in {"output", "undo"} /\ gets'[g].viewer = gets[g].viewer
          /\ gets'[g].pipe = gets[g].pipe /\ (gets'[g].at = "output" => gets[g].pipe # 0)
      BY <1>17, RequestGoesTo DEF ResumePipe, RequestPlaces
    <3> QED
      BY <3>1, <3>2 DEF RequestFitsEntry
  <2>6. \A k \in Requests : k # g => RequestFitsEntry(k)'
    BY <2>3, <2>4 DEF RequestFitsEntry
  <2> QED
    BY <2>1, <2>2, <2>5, <2>6
<1>18. ASSUME NEW g \in Requests, CommitResume(g) PROVE FitsInv'
  <2>1. \A w \in Viewers : SessionFitsEntry(w)'
    <3> DEFINE u == gets[g].viewer
    <3>1. UNCHANGED enters /\ u \in Viewers /\ enters[u].at = "in"
      BY <1>18 DEF CommitResume, RequestFitsEntry
    <3>2. CASE UNCHANGED table
      BY <3>1, <3>2 DEF SessionFitsEntry
    <3>3. CASE /\ Resumable(u)
               /\ table' = [table EXCEPT ![u] = [@ EXCEPT !.state = "active", !.inFlight = 1,
                                                          !.connected = TRUE, !.holds = TRUE]]
      <4>1. /\ table'[u].state = "active" /\ table'[u].connected /\ table'[u].holds
            /\ ~table'[u].settling /\ table'[u].plays = table[u].plays
        BY <3>1, <3>3 DEF Resumable
      <4>2. table[u].plays # 0
        BY <3>1, <3>3 DEF Resumable, SessionFitsEntry
      <4>3. \A w \in Viewers : w # u => table'[w] = table[w]
        BY <3>3
      <4>4. PICK x \in Viewers : x = u
        BY <3>1
      <4>5. SessionFitsEntry(x)'
        BY <3>1, <4>1, <4>2, <4>4 DEF SessionFitsEntry
      <4>6. \A w \in Viewers : w # x => SessionFitsEntry(w)'
        BY <3>1, <4>3, <4>4 DEF SessionFitsEntry
      <4> QED
        BY <4>5, <4>6
    <3> QED
      BY <3>2, <3>3, <1>18 DEF CommitResume
  <2>2. \A w \in Viewers : DepartureFits(w)'
    BY <1>18 DEF CommitResume, Resumable, NoDeparture, DepartureFits
  <2>3. \A k \in Requests : k # g => gets'[k] = gets[k]
    BY <1>18, RequestGoesTo DEF CommitResume, RequestPlaces, Resumable
  <2>4. UNCHANGED enters /\ \A w \in Viewers : table'[w].plays = table[w].plays
            /\ (table'[w].state = table[w].state \/ table[w].state = "departed")
    <3>1. UNCHANGED enters /\ gets[g].viewer \in Viewers
      BY <1>18 DEF CommitResume, RequestFitsEntry
    <3>2. CASE UNCHANGED table
      BY <3>1, <3>2
    <3>3. CASE /\ Resumable(gets[g].viewer)
               /\ table' = [table EXCEPT ![gets[g].viewer] = [@ EXCEPT !.state = "active",
                                         !.inFlight = 1,
                                                          !.connected = TRUE, !.holds = TRUE]]
      BY <3>1, <3>3 DEF Resumable
    <3> QED
      BY <3>1, <3>2, <3>3, <1>18 DEF CommitResume
  <2>5. RequestFitsEntry(g)'
    <3>1. gets[g].at = "output" /\ UNCHANGED enters /\ RequestFitsEntry(g)
      BY <1>18 DEF CommitResume
    <3>2. PICK place \in {"committed", "unpipe"} : RequestGoes(g, place)
      BY <1>18 DEF CommitResume
    <3>3. gets' = [gets EXCEPT ![g] = [gets[g] EXCEPT !.at = place]]
      BY <3>2 DEF RequestGoes
    <3>4. gets'[g] = [gets[g] EXCEPT !.at = place] /\ gets[g] \in RequestRecords
      BY <3>3 DEF GetsOK
    <3>5. gets'[g].at = place /\ gets'[g].viewer = gets[g].viewer /\ gets'[g].pipe = gets[g].pipe
      BY <3>4 DEF RequestRecords
    <3> QED
      BY <3>1, <3>5 DEF RequestFitsEntry
  <2>6. \A k \in Requests : k # g => RequestFitsEntry(k)'
    BY <2>3, <2>4 DEF RequestFitsEntry
  <2> QED
    BY <2>1, <2>2, <2>5, <2>6
<1>19. ASSUME NEW g \in Requests, ResumeConnect(g) PROVE FitsInv'
  <2>1. \A w \in Viewers : SessionFitsEntry(w)'
    BY <1>19 DEF ResumeConnect, SessionFitsEntry, RequestFitsEntry
  <2>2. \A w \in Viewers : DepartureFits(w)'
    BY <1>19 DEF ResumeConnect, NoDeparture, DepartureFits
  <2>3. \A k \in Requests : k # g => gets'[k] = gets[k]
    BY <1>19, RequestGoesTo DEF ResumeConnect, RequestPlaces, Resumable
  <2>4. UNCHANGED enters /\ \A w \in Viewers : table'[w].plays = table[w].plays
            /\ (table'[w].state = table[w].state \/ table[w].state = "departed")
    BY <1>19 DEF ResumeConnect, Resumable
  <2>5. RequestFitsEntry(g)'
    <3>1. UNCHANGED <<table, enters>> /\ gets[g].at = "committed"
      BY <1>19 DEF ResumeConnect
    <3>2. /\ gets'[g].at \in {"serving"} /\ gets'[g].viewer = gets[g].viewer
          /\ gets'[g].pipe = gets[g].pipe /\ (gets'[g].at = "output" => gets[g].pipe # 0)
      BY <1>19, RequestGoesTo DEF ResumeConnect, RequestPlaces
    <3> QED
      BY <3>1, <3>2 DEF RequestFitsEntry
  <2>6. \A k \in Requests : k # g => RequestFitsEntry(k)'
    BY <2>3, <2>4 DEF RequestFitsEntry
  <2> QED
    BY <2>1, <2>2, <2>5, <2>6
<1>20. ASSUME NEW g \in Requests, UndoResume(g) PROVE FitsInv'
  <2>1. \A w \in Viewers : SessionFitsEntry(w)'
    BY <1>20 DEF UndoResume, SessionFitsEntry, RequestFitsEntry
  <2>2. \A w \in Viewers : DepartureFits(w)'
    BY <1>20 DEF UndoResume, NoDeparture, DepartureFits
  <2>3. \A k \in Requests : k # g => gets'[k] = gets[k]
    BY <1>20, RequestGoesTo DEF UndoResume, RequestPlaces, Resumable
  <2>4. UNCHANGED enters /\ \A w \in Viewers : table'[w].plays = table[w].plays
            /\ (table'[w].state = table[w].state \/ table[w].state = "departed")
    BY <1>20 DEF UndoResume, Resumable
  <2>5. RequestFitsEntry(g)'
    BY <1>20, RequestGoesTo DEF UndoResume, RequestPlaces, RequestFitsEntry, NoRequest, Resumable
  <2>6. \A k \in Requests : k # g => RequestFitsEntry(k)'
    BY <2>3, <2>4 DEF RequestFitsEntry
  <2> QED
    BY <2>1, <2>2, <2>5, <2>6
<1>21. ASSUME NEW g \in Requests, ResumeFailed(g) PROVE FitsInv'
  <2>1. UNCHANGED <<enters, leaving, registry, announced>> /\ gets'[g].at = "idle"
            /\ \A h \in Requests : h # g => gets'[h] = gets[h]
    BY <1>21, RequestGoesTo DEF ResumeFailed, RequestPlaces, NoRequest
  <2>2. CASE UNCHANGED table
    BY <2>1, <2>2 DEF SessionFitsEntry, DepartureFits, RequestFitsEntry
  <2>3. CASE MarkStopped({gets[g].viewer}, "channel")
    <3>1. gets[g].viewer \in Viewers
      BY <1>21 DEF ResumeFailed, RequestFitsEntry
    <3> QED
      BY <2>1, <2>3, <3>1, MarkedFits
  <2> QED
    BY <1>21, <2>2, <2>3 DEF ResumeFailed
<1>22. ASSUME NEW g \in Requests, NEW v \in Viewers, Begin(g, v) PROVE FitsInv'
  <2>1. \A w \in Viewers : w # v => table'[w] = table[w] /\ enters'[w] = enters[w]
            /\ leaving'[w] = leaving[w]
    BY <1>22 DEF Begin, NoDeparture
  <2>2. SessionFitsEntry(v)'
    BY <1>22 DEF Begin, SessionFitsEntry, NoSession
  <2>3. \A w \in Viewers : w # v => SessionFitsEntry(w)' /\ DepartureFits(w)'
    BY <2>1 DEF SessionFitsEntry, DepartureFits
  <2>4. DepartureFits(v)'
    BY <1>22 DEF Begin, NoDeparture, DepartureFits, SessionFitsEntry
  <2>5. \A h \in Requests : h # g => gets'[h] = gets[h]
    BY <1>22 DEF Begin
  <2>6. UNCHANGED enters /\ enters[v].at = "in"
    BY <1>22 DEF Begin
  <2>7. table'[v].plays = table[v].plays /\ table'[v].state = table[v].state
    BY <1>22 DEF Begin
  <2>8. RequestFitsEntry(g)'
    BY <1>22, <2>6, <2>7 DEF Begin, RequestFitsEntry
  <2>9. \A h \in Requests : h # g => RequestFitsEntry(h)'
    <3>1. \A w \in Viewers : table'[w].plays = table[w].plays /\ table'[w].state = table[w].state
      BY <2>1, <2>7
    <3> QED
      BY <2>5, <2>6, <3>1 DEF RequestFitsEntry
  <2> QED
    BY <2>2, <2>3, <2>4, <2>8, <2>9
<1>23. ASSUME NEW p \in Pipes, PipeGoes(p) PROVE FitsInv'
  <2>1. \A w \in Viewers : SessionFitsEntry(w)'
    BY <1>23 DEF PipeGoes, SessionFitsEntry
  <2>2. \A w \in Viewers : DepartureFits(w)'
    BY <1>23 DEF PipeGoes, NoDeparture, DepartureFits
  <2>3. UNCHANGED <<gets, enters, table>>
    BY <1>23 DEF PipeGoes, DropsStopped
  <2>4. \A h \in Requests : RequestFitsEntry(h)'
    BY <2>3 DEF RequestFitsEntry
  <2> QED
    BY <2>1, <2>2, <2>4
<1>24. ASSUME NEW p \in Pipes, Watch(p) PROVE FitsInv'
  <2>1. CASE phaseOf[p] = "failed"
    <3>1. UNCHANGED <<table, enters, leaving, gets>>
      BY <1>24, <2>1 DEF Watch
    <3> QED
      BY <3>1 DEF SessionFitsEntry, DepartureFits, RequestFitsEntry
  <2>2. CASE phaseOf[p] = "marked"
    BY <1>24, <2>2, MarkedFits DEF Watch
  <2> QED
    BY <1>24, <2>1, <2>2 DEF Watch
<1>25. ASSUME LingerEnds PROVE FitsInv'
  <2>1. \A w \in Viewers : SessionFitsEntry(w)'
    BY <1>25 DEF LingerEnds, SessionFitsEntry
  <2>2. \A w \in Viewers : DepartureFits(w)'
    BY <1>25 DEF LingerEnds, NoDeparture, DepartureFits
  <2>3. UNCHANGED <<gets, enters, table>>
    BY <1>25 DEF LingerEnds, DropsStopped
  <2>4. \A h \in Requests : RequestFitsEntry(h)'
    BY <2>3 DEF RequestFitsEntry
  <2> QED
    BY <2>1, <2>2, <2>4
<1>26. ASSUME Boundary PROVE FitsInv'
  <2>1. \A w \in Viewers : SessionFitsEntry(w)'
    BY <1>26 DEF Boundary, SessionFitsEntry
  <2>2. \A w \in Viewers : DepartureFits(w)'
    BY <1>26 DEF Boundary, NoDeparture, DepartureFits
  <2>3. UNCHANGED <<gets, enters, table>>
    BY <1>26 DEF Boundary, DropsStopped
  <2>4. \A h \in Requests : RequestFitsEntry(h)'
    BY <2>3 DEF RequestFitsEntry
  <2> QED
    BY <2>1, <2>2, <2>4
<1>27. ASSUME StopChannel PROVE FitsInv'
  BY <1>27, MarkedFits DEF StopChannel
<1>28. ASSUME DropStopped PROVE FitsInv'
  <2>1. \A w \in Viewers : SessionFitsEntry(w)'
    BY <1>28 DEF DropStopped, SessionFitsEntry
  <2>2. \A w \in Viewers : DepartureFits(w)'
    BY <1>28 DEF DropStopped, NoDeparture, DepartureFits
  <2>3. UNCHANGED <<gets, enters, table>>
    BY <1>28 DEF DropStopped, DropsStopped
  <2>4. \A h \in Requests : RequestFitsEntry(h)'
    BY <2>3 DEF RequestFitsEntry
  <2> QED
    BY <2>1, <2>2, <2>4
<1>29. ASSUME Unlist PROVE FitsInv'
  <2>1. \A w \in Viewers : SessionFitsEntry(w)'
    BY <1>29 DEF Unlist, SessionFitsEntry
  <2>2. \A w \in Viewers : DepartureFits(w)'
    BY <1>29 DEF Unlist, NoDeparture, DepartureFits
  <2>3. UNCHANGED <<gets, enters, table>>
    BY <1>29 DEF Unlist, DropsStopped
  <2>4. \A h \in Requests : RequestFitsEntry(h)'
    BY <2>3 DEF RequestFitsEntry
  <2> QED
    BY <2>1, <2>2, <2>4
<1>30. ASSUME OutputsStop PROVE FitsInv'
  <2>1. \A w \in Viewers : SessionFitsEntry(w)'
    BY <1>30 DEF OutputsStop, SessionFitsEntry
  <2>2. \A w \in Viewers : DepartureFits(w)'
    BY <1>30 DEF OutputsStop, NoDeparture, DepartureFits
  <2>3. UNCHANGED <<gets, enters, table>>
    BY <1>30 DEF OutputsStop, DropsStopped
  <2>4. \A h \in Requests : RequestFitsEntry(h)'
    BY <2>3 DEF RequestFitsEntry
  <2> QED
    BY <2>1, <2>2, <2>4
<1>31. ASSUME RingCloses PROVE FitsInv'
  <2>1. \A w \in Viewers : SessionFitsEntry(w)'
    BY <1>31 DEF RingCloses, SessionFitsEntry
  <2>2. \A w \in Viewers : DepartureFits(w)'
    BY <1>31 DEF RingCloses, NoDeparture, DepartureFits
  <2>3. UNCHANGED <<gets, enters, table>>
    BY <1>31 DEF RingCloses, DropsStopped
  <2>4. \A h \in Requests : RequestFitsEntry(h)'
    BY <2>3 DEF RequestFitsEntry
  <2> QED
    BY <2>1, <2>2, <2>4
<1> QED
  BY <1>1, <1>2, <1>3, <1>4, <1>5, <1>6, <1>7, <1>8, <1>9, <1>10, <1>11, <1>12, <1>13, <1>14,
    <1>15, <1>16, <1>17, <1>18, <1>19, <1>20, <1>21, <1>22, <1>23, <1>24, <1>25, <1>26, <1>27,
    <1>28, <1>29, <1>30, <1>31
  DEF SessNext, EntryStep, DepartureStep, RequestStep, PipelineStep, MarkStep, ChannelEndStep

----------------------------------------------------------------------------
\* What the custody of w depends on.
SameEntry(w)     == /\ EntryKeeps(w)' <=> EntryKeeps(w)
                    /\ enters'[w].at = "out" => enters[w].at = "out"
SameSession(w)   == /\ table'[w].holds <=> table[w].holds
                    /\ table'[w].state = "departed" /\ ~table'[w].settling =>
                         table[w].state = "departed" /\ ~table[w].settling
SameDeparture(w) == /\ DepartureKeeps(w)' <=> DepartureKeeps(w)
                    /\ leaving'[w].at = "none" <=> leaving[w].at = "none"
SameDrops(w)     == \A b \in BOOLEAN : <<w, b>> \in dropping' <=> <<w, b>> \in dropping
SameResumes(w)   == \A g \in Requests : ResumeKeeps(g, w)' <=> ResumeKeeps(g, w)
SameFor(w) ==
  /\ w \in registry' <=> w \in registry
  /\ SameEntry(w) /\ SameSession(w) /\ SameDeparture(w) /\ SameDrops(w) /\ SameResumes(w)

\* A client none of whose keepers changes keeps its custody.
LEMMA CustodyFrame ==
  ASSUME NEW w \in Viewers, Custody(w), SameFor(w)
  PROVE  Custody(w)'
BY DEF Custody, SameFor, SameEntry, SameSession, SameDeparture, SameDrops, SameResumes, DropKeeps

\* An abandoned entry takes back the client that its session held.
LEMMA AbandonCustody ==
  ASSUME TypesOK, FitsInv, NEW v \in Viewers, Custody(v),
         NEW otherwise \in {"gone", "unannounced"},
         Abandon(v, otherwise), enters[v].at \in {"added", "waiting", "ready", "announced"},
         UNCHANGED <<registry, leaving, dropping, gets>>
  PROVE  Custody(v)' /\ \A w \in Viewers : w # v => SameFor(w)
<1>1. /\ table'[v] = NoSession
      /\ \A w \in Viewers : w # v => table'[w] = table[w] /\ enters'[w] = enters[w]
      /\ table[v].holds => enters'[v] = [at |-> "refused", pipe |-> enters[v].pipe]
      /\ ~table[v].holds => enters'[v].at = otherwise
  BY AbandonTo DEF TypesOK
<1>2. /\ ~EntryKeeps(v) /\ (EntryKeeps(v)' <=> table[v].holds) /\ enters'[v].at # "out"
      /\ ~table'[v].holds /\ table'[v].state # "departed"
  BY <1>1 DEF EntryKeeps, NoSession, TypesOK, TableOK, SessionRecords
<1>3. SameDeparture(v) /\ SameDrops(v) /\ SameResumes(v)
  BY DEF SameDeparture, SameDrops, SameResumes, DepartureKeeps, ResumeKeeps
<1>4. Custody(v)'
  BY <1>2, <1>3 DEF Custody, SameDeparture, SameDrops, SameResumes, DropKeeps
<1>5. \A w \in Viewers : w # v => SameFor(w)
  BY <1>1 DEF SameFor, SameEntry, SameSession, SameDeparture, SameDrops, SameResumes, EntryKeeps,
              DepartureKeeps, ResumeKeeps
<1> QED
  BY <1>4, <1>5

\* EntryGoes, from the invariant: the one place that changes.
LEMMA EntryAt ==
  ASSUME TypesOK, NEW v \in Viewers, NEW place \in EntryPlaces, EntryGoes(v, place)
  PROVE  enters'[v].at = place /\ \A w \in Viewers : w # v => enters'[w] = enters[w]
<1>1. EntersOK
  BY DEF TypesOK
<1>2. /\ enters'[v] = [at |-> place, pipe |-> IF place \in {"in",
             "gone"} THEN 0 ELSE enters[v].pipe]
      /\ \A w \in Viewers : w # v => enters'[w] = enters[w]
  BY <1>1, EntryGoesTo
<1>3. enters'[v].at = place
  BY <1>2
<1> QED
  BY <1>2, <1>3

\* RequestGoes, from the invariant: the one place that changes.
LEMMA RequestAt ==
  ASSUME TypesOK, NEW g \in Requests, NEW place \in RequestPlaces, RequestGoes(g, place)
  PROVE  /\ gets'[g].at = place
         /\ place # "idle" => gets'[g].viewer = gets[g].viewer
         /\ \A h \in Requests : h # g => gets'[h] = gets[h]
<1>1. gets[g] \in RequestRecords
  BY DEF TypesOK, GetsOK
<1>2. GetsOK
  BY DEF TypesOK
<1>3. /\ gets'[g] = IF place = "idle" THEN NoRequest ELSE [gets[g] EXCEPT !.at = place]
      /\ \A h \in Requests : h # g => gets'[h] = gets[h]
  BY <1>2, RequestGoesTo
<1>4. gets'[g].at = place /\ (place # "idle" => gets'[g].viewer = gets[g].viewer)
  BY <1>1, <1>3 DEF NoRequest, RequestRecords
<1> QED
  BY <1>3, <1>4

\* A step that changes no keeper keeps the custody of all.
LEMMA CustodyKept ==
  ASSUME CustodyInv, \A w \in Viewers : SameFor(w)
  PROVE  CustodyInv'
BY CustodyFrame DEF CustodyInv

\* A step that changes one client's keepers keeps the custody of the others.
LEMMA CustodyButOne ==
  ASSUME CustodyInv, NEW v \in Viewers, Custody(v)', \A w \in Viewers : w # v => SameFor(w)
  PROVE  CustodyInv'
BY CustodyFrame DEF CustodyInv

\* takeLocked moves the client from its session to a departure.
LEMMA LeaveCustody ==
  ASSUME TypesOK, NEW v \in Viewers, Custody(v), NEW idle, TakesLeave(v, idle),
         ~table'[v].holds, ~(table'[v].state = "departed" /\ ~table'[v].settling),
         UNCHANGED <<registry, enters, dropping, gets>>
  PROVE  Custody(v)' /\ \A w \in Viewers : w # v => leaving'[w] = leaving[w]
<1>1. \/ table[v].holds /\ leaving'[v].at = "disconnect"
      \/ ~table[v].holds /\ UNCHANGED leaving
  BY DEF TakesLeave, TypesOK, LeavingOK
<1>2. SameEntry(v) /\ SameDrops(v) /\ SameResumes(v)
  BY DEF SameEntry, SameDrops, SameResumes, EntryKeeps, ResumeKeeps
<1>5. \A w \in Viewers : w # v => leaving'[w] = leaving[w]
  BY DEF TakesLeave, TypesOK, LeavingOK
<1>3. CASE table[v].holds
  <2>1. /\ v \in registry' /\ enters'[v].at # "out" /\ ~EntryKeeps(v) /\ ~DropKeeps(v)
        /\ \A g \in Requests : ~ResumeKeeps(g, v)
    BY <1>3 DEF Custody
  <2>2. DepartureKeeps(v)' /\ ~EntryKeeps(v)' /\ ~DropKeeps(v)'
            /\ \A g \in Requests : ~ResumeKeeps(g, v)'
    BY <1>1, <1>2, <1>3, <2>1 DEF DepartureKeeps, SameEntry, SameDrops, SameResumes, DropKeeps
  <2>3. <<v, TRUE>> \notin dropping' /\ <<v, FALSE>> \notin dropping'
    BY <2>2 DEF DropKeeps
  <2>4. ~table'[v].holds /\ ~(table'[v].state = "departed" /\ ~table'[v].settling)
    OBVIOUS
  <2>5. Custody(v)'
    BY <2>1, <2>2, <2>3, <2>4 DEF Custody
  <2> QED
    BY <1>5, <2>5
<1>4. CASE ~table[v].holds
  <2>1. SameSession(v) /\ SameDeparture(v)
    BY <1>1, <1>4 DEF SameSession, SameDeparture, DepartureKeeps
  <2>2. SameFor(v)
    BY <1>2, <2>1 DEF SameFor
  <2>3. leaving' = leaving /\ Custody(v)'
    BY <1>1, <1>4, <2>2, CustodyFrame
  <2> QED
    BY <2>3
<1> QED
  BY <1>3, <1>4, <1>5

\* A mark moves the clients of the sessions it ends to those to be dropped.
LEMMA MarkedCustody ==
  ASSUME TypesOK, FitsInv, CustodyInv, NEW V \in SUBSET Viewers,
         NEW why \in {"client", "channel", "output"},
         MarkStopped(V, why), UNCHANGED <<registry, announced, enters, leaving>>,
         \A w \in Viewers : SameResumes(w)
  PROVE  CustodyInv'
<1>1. MarkedBy(V, why) /\ DropsBy(V)
  <2>1. TableOK /\ ViewersOK
    BY DEF TypesOK
  <2> QED
    BY <2>1, Marking
<1> SUFFICES ASSUME NEW w \in Viewers PROVE Custody(w)'
  BY DEF CustodyInv
<1>2. SameEntry(w) /\ SameDeparture(w) /\ SameResumes(w)
  BY DEF SameEntry, SameDeparture, EntryKeeps, DepartureKeeps
<1>3. table[w] \in SessionRecords /\ SessionFitsEntry(w) /\ Custody(w)
  BY DEF TypesOK, TableOK, FitsInv, CustodyInv
<1>4. CASE table[w].holds /\ w \in V
  <2>1. table[w].state \in {"arrived", "active"} /\ ~table[w].settling
    BY <1>3, <1>4 DEF SessionFitsEntry, SessionRecords
  <2>2. ~table'[w].holds /\ table'[w].state = "stopped"
    BY <1>1, <1>3, <1>4, <2>1 DEF SessionRecords, MarkedBy
  <2>3. \A b \in BOOLEAN : <<w, b>> \in dropping' <=> <<w, b>> \in dropping
            \/ b = table[w].connected
    BY <1>1, <1>4, <2>1 DEF DropsBy
  <2>4. table[w].connected \in BOOLEAN
    BY <1>3 DEF SessionRecords
  <2>a. /\ ~EntryKeeps(w) /\ leaving[w].at = "none" /\ ~DropKeeps(w) /\ w \in registry
        /\ enters[w].at # "out" /\ \A g \in Requests : ~ResumeKeeps(g, w)
    BY <1>3, <1>4 DEF Custody
  <2>5. /\ ~EntryKeeps(w) /\ ~EntryKeeps(w)' /\ ~DepartureKeeps(w)' /\ leaving'[w].at = "none"
        /\ ~DropKeeps(w) /\ w \in registry' /\ enters'[w].at # "out"
        /\ \A g \in Requests : ~ResumeKeeps(g, w)'
    BY <1>2, <2>a DEF SameEntry, SameResumes, DepartureKeeps
  <2>6. <<w, TRUE>> \in dropping' <=> ~(<<w, FALSE>> \in dropping')
    BY <2>3, <2>4, <2>5 DEF DropKeeps
  <2> QED
    BY <2>2, <2>5, <2>6 DEF Custody, DropKeeps
<1>5. CASE ~(table[w].holds /\ w \in V)
  <2>1. SameSession(w)
    BY <1>1, <1>3, <1>5 DEF SameSession, SessionRecords, SessionFitsEntry, MarkedBy
  <2>2. SameDrops(w)
    BY <1>1, <1>5 DEF SameDrops, DropsBy
  <2> QED
    BY <1>2, <1>3, <2>1, <2>2, CustodyFrame DEF SameFor
<1> QED
  BY <1>4, <1>5

\* Every step keeps one keeper to every registered client.
LEMMA StepCustody ==
  ASSUME TypesOK, FitsInv, CustodyInv, SessNext
  PROVE  CustodyInv'
<1>1. ASSUME NEW v \in Viewers, Enter(v) PROVE CustodyInv'
  <2>1. /\ enters[v].at = "out" /\ enters'[v].at = "attached"
        /\ \A w \in Viewers : w # v => enters'[w] = enters[w]
    BY <1>1, EntryAt DEF Enter, EntryPlaces, TypesOK
  <2>2. registry' = registry \cup {v} /\ UNCHANGED <<table, leaving, dropping, gets>>
    BY <1>1 DEF Enter
  <2>3. enters[v].at \notin {"added", "waiting", "ready", "announced", "in"} /\ ~table[v].holds
    BY <2>1 DEF FitsInv, SessionFitsEntry
  <2>4. SameSession(v) /\ SameDeparture(v) /\ SameDrops(v) /\ SameResumes(v) /\ Custody(v)
    BY <2>2 DEF CustodyInv, SameEntry, SameSession, SameDeparture, SameDrops, SameResumes,
      EntryKeeps, DepartureKeeps, ResumeKeeps
  <2>5. EntryKeeps(v)' /\ v \in registry' /\ ~EntryKeeps(v) /\ enters'[v].at # "out"
    BY <2>1, <2>2 DEF EntryKeeps
  <2>8. Custody(v)'
    BY <2>1, <2>3, <2>4, <2>5 DEF Custody, SameEntry, SameSession, SameDeparture, SameDrops,
      SameResumes, DropKeeps
  <2>9. \A w \in Viewers : w # v => SameFor(w)
    BY <2>1, <2>2 DEF SameFor, SameEntry, SameSession, SameDeparture, SameDrops, SameResumes,
      EntryKeeps, DepartureKeeps, ResumeKeeps
  <2> QED
    BY <2>8, <2>9, CustodyButOne
<1>2. ASSUME NEW v \in Viewers, AttachPipe(v) PROVE CustodyInv'
  <2>1. EntersOK /\ EntersOK' /\ enters[v].at = "attached"
    BY <1>2, StepTypes DEF AttachPipe, TypesOK
  <2>2. OutputsOver \/ failedMark => enters'[v].at = "unpiped" /\ \A w \in Viewers : w # v
            => enters'[w] = enters[w]
    BY <1>2, EntryAt DEF AttachPipe, EntryPlaces, TypesOK
  <2>3. ~(OutputsOver \/ failedMark) => enters'[v].at = "piped" /\ \A w \in Viewers : w # v
            => enters'[w] = enters[w]
    BY <1>2, <2>1 DEF AttachPipe, EntersOK
  <2>4. UNCHANGED <<registry, table, leaving, dropping, gets>>
    BY <1>2 DEF AttachPipe
  <2>5. \A w \in Viewers : SameEntry(w)
    BY <2>1, <2>2, <2>3 DEF SameEntry, EntryKeeps
  <2>9. \A w \in Viewers : SameFor(w)
    BY <2>4, <2>5 DEF SameFor, SameSession, SameDeparture, SameDrops, SameResumes,
      DepartureKeeps, ResumeKeeps
  <2> QED
    BY <2>9, CustodyKept
<1>3. ASSUME NEW v \in Viewers, Add(v) PROVE CustodyInv'
  <2>1. /\ enters[v].at = "piped" /\ enters'[v].at = "added"
        /\ \A w \in Viewers : w # v => enters'[w] = enters[w]
    BY <1>3, EntryAt DEF Add, EntryPlaces, TypesOK
  <2>2. UNCHANGED <<registry, leaving, dropping, gets>>
    BY <1>3 DEF Add
  <2>3. /\ table'[v].holds /\ table'[v].state = "arrived"
        /\ \A w \in Viewers : w # v => table'[w] = table[w]
    BY <1>3 DEF Add, NoSession, TypesOK, TableOK
  <2>4. SameDeparture(v) /\ SameDrops(v) /\ SameResumes(v) /\ Custody(v)
    BY <2>2 DEF CustodyInv, SameEntry, SameSession, SameDeparture, SameDrops, SameResumes,
      EntryKeeps, DepartureKeeps, ResumeKeeps
  <2>5. EntryKeeps(v) /\ ~EntryKeeps(v)' /\ enters'[v].at # "out"
    BY <2>1 DEF EntryKeeps
  <2>8. Custody(v)'
    BY <2>2, <2>3, <2>4, <2>5 DEF Custody, SameEntry, SameSession, SameDeparture, SameDrops,
      SameResumes, DropKeeps
  <2>9. \A w \in Viewers : w # v => SameFor(w)
    BY <2>1, <2>2, <2>3 DEF SameFor, SameEntry, SameSession, SameDeparture, SameDrops,
      SameResumes, EntryKeeps, DepartureKeeps, ResumeKeeps
  <2> QED
    BY <2>8, <2>9, CustodyButOne
<1>4. ASSUME NEW v \in Viewers, ReCheck(v) PROVE CustodyInv'
  <2>0. enters[v].at = "added" /\ UNCHANGED <<registry, leaving, dropping, gets>> /\ Custody(v)
    BY <1>4 DEF ReCheck, CustodyInv
  <2>1. CASE Abandon(v, "gone")
    <3>1. Custody(v)' /\ \A w \in Viewers : w # v => SameFor(w)
      BY <2>0, <2>1, AbandonCustody
    <3> QED
      BY <3>1, CustodyButOne
  <2>2. CASE ~Abandon(v, "gone")
    <3>1. enters'[v].at = "waiting" /\ \A w \in Viewers : w # v => enters'[w] = enters[w]
      BY <1>4, <2>2, EntryAt DEF ReCheck, EntryPlaces, TypesOK
    <3>2. UNCHANGED table
      BY <1>4, <2>2 DEF ReCheck
    <3>3. \A w \in Viewers : SameSession(w)
      BY <3>2 DEF SameSession
    <3>4. \A w \in Viewers : SameFor(w)
      BY <2>0, <3>1, <3>3 DEF SameFor, SameEntry, SameDeparture, SameDrops, SameResumes,
        EntryKeeps,
                              DepartureKeeps, ResumeKeeps
    <3> QED
      BY <3>4, CustodyKept
  <2> QED
    BY <2>1, <2>2
<1>5. ASSUME NEW v \in Viewers, WaitReady(v) PROVE CustodyInv'
  <2>0. enters[v].at = "waiting" /\ UNCHANGED <<registry, leaving, dropping, gets>> /\ Custody(v)
    BY <1>5 DEF WaitReady, CustodyInv
  <2>1. CASE Abandon(v, "gone")
    <3>1. Custody(v)' /\ \A w \in Viewers : w # v => SameFor(w)
      BY <2>0, <2>1, AbandonCustody
    <3> QED
      BY <3>1, CustodyButOne
  <2>2. CASE ~Abandon(v, "gone")
    <3>1. enters'[v].at = "ready" /\ \A w \in Viewers : w # v => enters'[w] = enters[w]
      BY <1>5, <2>2, EntryAt DEF WaitReady, EntryPlaces, TypesOK
    <3>2. UNCHANGED table
      BY <1>5, <2>2 DEF WaitReady
    <3>3. \A w \in Viewers : SameSession(w)
      BY <3>2 DEF SameSession
    <3>4. \A w \in Viewers : SameFor(w)
      BY <2>0, <3>1, <3>3 DEF SameFor, SameEntry, SameDeparture, SameDrops, SameResumes,
        EntryKeeps,
                              DepartureKeeps, ResumeKeeps
    <3> QED
      BY <3>4, CustodyKept
  <2> QED
    BY <2>1, <2>2
<1>6. ASSUME NEW v \in Viewers, Connect(v) PROVE CustodyInv'
  <2>0. enters[v].at = "ready" /\ UNCHANGED <<registry, leaving, dropping, gets>> /\ Custody(v)
    BY <1>6 DEF Connect, CustodyInv
  <2>1. CASE Abandon(v, "gone")
    <3>1. Custody(v)' /\ \A w \in Viewers : w # v => SameFor(w)
      BY <2>0, <2>1, AbandonCustody
    <3> QED
      BY <3>1, CustodyButOne
  <2>2. CASE ~Abandon(v, "gone")
    <3>1. enters'[v].at = "announced" /\ \A w \in Viewers : w # v => enters'[w] = enters[w]
      BY <1>6, <2>2, EntryAt DEF Connect, EntryPlaces, TypesOK
    <3>2. UNCHANGED table
      BY <1>6, <2>2 DEF Connect
    <3>3. \A w \in Viewers : SameSession(w)
      BY <3>2 DEF SameSession
    <3>4. \A w \in Viewers : SameFor(w)
      BY <2>0, <3>1, <3>3 DEF SameFor, SameEntry, SameDeparture, SameDrops, SameResumes,
        EntryKeeps,
                              DepartureKeeps, ResumeKeeps
    <3> QED
      BY <3>4, CustodyKept
  <2> QED
    BY <2>1, <2>2
<1>7. ASSUME NEW v \in Viewers, ActivateSession(v) PROVE CustodyInv'
  <2>0. enters[v].at = "announced" /\ UNCHANGED <<registry, leaving, dropping, gets>>
            /\ Custody(v)
    BY <1>7 DEF ActivateSession, CustodyInv
  <2>1. CASE Abandon(v, "unannounced")
    <3>1. Custody(v)' /\ \A w \in Viewers : w # v => SameFor(w)
      BY <2>0, <2>1, AbandonCustody
    <3> QED
      BY <3>1, CustodyButOne
  <2>2. CASE ~Abandon(v, "unannounced")
    <3>1. enters'[v].at = "in" /\ \A w \in Viewers : w # v => enters'[w] = enters[w]
      BY <1>7, <2>2, EntryAt DEF ActivateSession, EntryPlaces, TypesOK
    <3>2. table[v].state = "arrived"
              /\ table' = [table EXCEPT ![v] = [@ EXCEPT !.state = "active", !.connected = TRUE,
                                                     !.inFlight = table[v].inFlight - 1]]
      BY <1>7, <2>2 DEF ActivateSession
    <3>3. \A w \in Viewers : SameSession(w)
      BY <3>2 DEF SameSession, TypesOK, TableOK, SessionRecords
    <3>4. \A w \in Viewers : SameFor(w)
      BY <2>0, <3>1, <3>3 DEF SameFor, SameEntry, SameDeparture, SameDrops, SameResumes,
        EntryKeeps,
                              DepartureKeeps, ResumeKeeps
    <3> QED
      BY <3>4, CustodyKept
  <2> QED
    BY <2>1, <2>2
<1>8. ASSUME NEW v \in Viewers, UndoEntry(v) PROVE CustodyInv'
  <2>1. /\ UNCHANGED <<table, leaving, dropping, gets>>
        /\ \A w \in Viewers : w # v => enters'[w] = enters[w]
        /\ \A w \in Viewers : w # v => (w \in registry' <=> w \in registry)
    BY <1>8, EntryAt DEF UndoEntry, EntryPlaces, TypesOK
  <2>2. \/ enters[v].at = "refused" /\ enters'[v].at = "unpiped" /\ UNCHANGED registry
        \/ enters[v].at = "unannounced" /\ enters'[v].at = "gone" /\ UNCHANGED registry
        \/ enters[v].at = "unpiped" /\ enters'[v].at = "gone" /\ registry' = registry \ {v}
    BY <1>8, EntryAt DEF UndoEntry, EntryPlaces, TypesOK
  <2>3. \A w \in Viewers : SameSession(w) /\ SameDeparture(w) /\ SameDrops(w) /\ SameResumes(w)
    BY <2>1 DEF SameEntry, SameSession, SameDeparture, SameDrops, SameResumes, EntryKeeps,
      DepartureKeeps, ResumeKeeps
  <2>4. Custody(v)
    BY DEF CustodyInv
  <2>5. ASSUME enters[v].at # "unpiped" PROVE Custody(v)'
    <3>1. SameFor(v)
      BY <2>2, <2>3, <2>5 DEF SameFor, SameEntry, EntryKeeps
    <3> QED
      BY <1>8, <2>4, <3>1, CustodyFrame
  <2>6. ASSUME enters[v].at = "unpiped" PROVE Custody(v)'
    <3>1. EntryKeeps(v) /\ ~EntryKeeps(v)' /\ enters'[v].at # "out" /\ v \notin registry'
      BY <2>2, <2>6 DEF EntryKeeps
    <3>2. SameSession(v) /\ SameDeparture(v) /\ SameDrops(v) /\ SameResumes(v)
      BY <1>8, <2>3
    <3>3. ~DepartureKeeps(v)
      BY <2>4, <3>1 DEF Custody, DepartureKeeps
    <3> QED
      BY <2>4, <3>1, <3>2, <3>3 DEF Custody, SameEntry, SameSession, SameDeparture, SameDrops,
        SameResumes, DropKeeps
  <2>8. Custody(v)'
    BY <2>5, <2>6
  <2>9. \A w \in Viewers : w # v => SameFor(w)
    BY <2>1, <2>3 DEF SameFor, SameEntry, EntryKeeps
  <2> QED
    BY <2>8, <2>9, CustodyButOne
<1>9. ASSUME NEW v \in Viewers, DepartIdle(v) PROVE CustodyInv'
  <2>1. UNCHANGED <<registry, enters, dropping, gets>> /\ Custody(v)
    BY <1>9 DEF DepartIdle, CustodyInv
  <2>2. ~table'[v].holds /\ ~(table'[v].state = "departed" /\ ~table'[v].settling)
    BY <1>9 DEF DepartIdle, TypesOK, TableOK, SessionRecords
  <2>3. \A w \in Viewers : w # v => table'[w] = table[w]
    BY <1>9 DEF DepartIdle, TypesOK, TableOK
  <2>8. Custody(v)' /\ \A w \in Viewers : w # v => leaving'[w] = leaving[w]
    BY <1>9, <2>1, <2>2, LeaveCustody DEF DepartIdle
  <2>9. \A w \in Viewers : w # v => SameFor(w)
    BY <2>1, <2>3, <2>8 DEF SameFor, SameEntry, SameSession, SameDeparture, SameDrops,
      SameResumes, EntryKeeps, DepartureKeeps, ResumeKeeps
  <2> QED
    BY <2>8, <2>9, CustodyButOne
<1>10. ASSUME NEW v \in Viewers, Forget(v) PROVE CustodyInv'
  <2>1. UNCHANGED <<registry, enters, leaving, dropping, gets>>
    BY <1>10 DEF Forget
  <2>2. /\ table[v].state \in {"departed", "stopped"} /\ ~table'[v].holds
               /\ table'[v].state = "none"
        /\ \A w \in Viewers : w # v => table'[w] = table[w]
    BY <1>10 DEF Forget, NoSession, TypesOK, TableOK
  <2>3. ~table[v].holds
    BY <2>2 DEF FitsInv, SessionFitsEntry
  <2>9. \A w \in Viewers : SameFor(w)
    BY <2>1, <2>2, <2>3 DEF SameFor, SameEntry, SameSession, SameDeparture, SameDrops,
      SameResumes, EntryKeeps, DepartureKeeps, ResumeKeeps
  <2> QED
    BY <2>9, CustodyKept
<1>11. ASSUME NEW v \in Viewers, Leave(v) PROVE CustodyInv'
  <2>1. UNCHANGED <<registry, enters, dropping, gets>> /\ Custody(v)
    BY <1>11 DEF Leave, CustodyInv
  <2>2. ~table'[v].holds /\ ~(table'[v].state = "departed" /\ ~table'[v].settling)
    BY <1>11 DEF Leave, NoSession, TypesOK, TableOK, SessionRecords
  <2>3. \A w \in Viewers : w # v => table'[w] = table[w]
    BY <1>11 DEF Leave, TypesOK, TableOK
  <2>8. Custody(v)' /\ \A w \in Viewers : w # v => leaving'[w] = leaving[w]
    BY <1>11, <2>1, <2>2, LeaveCustody DEF Leave
  <2>9. \A w \in Viewers : w # v => SameFor(w)
    BY <2>1, <2>3, <2>8 DEF SameFor, SameEntry, SameSession, SameDeparture, SameDrops,
      SameResumes, EntryKeeps, DepartureKeeps, ResumeKeeps
  <2> QED
    BY <2>8, <2>9, CustodyButOne
<1>12. ASSUME NEW v \in Viewers, EndClient(v) PROVE CustodyInv'
  <2>1. UNCHANGED <<registry, enters, dropping, gets>> /\ Custody(v)
    BY <1>12 DEF EndClient, CustodyInv
  <2>2. ~table'[v].holds /\ ~(table'[v].state = "departed" /\ ~table'[v].settling)
    BY <1>12 DEF EndClient, TypesOK, TableOK, SessionRecords
  <2>3. \A w \in Viewers : w # v => table'[w] = table[w]
    BY <1>12 DEF EndClient, TypesOK, TableOK
  <2>8. Custody(v)' /\ \A w \in Viewers : w # v => leaving'[w] = leaving[w]
    BY <1>12, <2>1, <2>2, LeaveCustody DEF EndClient
  <2>9. \A w \in Viewers : w # v => SameFor(w)
    BY <2>1, <2>3, <2>8 DEF SameFor, SameEntry, SameSession, SameDeparture, SameDrops,
      SameResumes, EntryKeeps, DepartureKeeps, ResumeKeeps
  <2> QED
    BY <2>8, <2>9, CustodyButOne
<1>13. ASSUME NEW v \in Viewers, RunDeparture(v) PROVE CustodyInv'
  <2>1. /\ UNCHANGED <<table, enters, dropping, gets>>
        /\ \A w \in Viewers : w # v => leaving'[w] = leaving[w]
        /\ \A w \in Viewers : w # v => (w \in registry' <=> w \in registry)
    BY <1>13 DEF RunDeparture, TypesOK, LeavingOK
  <2>2. \/ leaving[v].at = "disconnect" /\ leaving'[v].at = "output" /\ UNCHANGED registry
        \/ leaving[v].at = "output" /\ leaving'[v].at = "client" /\ UNCHANGED registry
        \/ leaving[v].at = "client" /\ leaving'[v].at \in {"settle", "none"}
               /\ registry' = registry \ {v}
    <3>1. CASE leaving[v].at = "client"
      BY <1>13, <3>1 DEF RunDeparture, NoDeparture, TypesOK, LeavingOK, DepartureRecords
    <3>2. CASE leaving[v].at # "client"
      BY <1>13, <3>2 DEF RunDeparture, TypesOK, LeavingOK, DepartureRecords
    <3> QED
      BY <3>1, <3>2
  <2>3. \A w \in Viewers : SameEntry(w) /\ SameSession(w) /\ SameDrops(w) /\ SameResumes(w)
    BY <2>1 DEF SameEntry, SameSession, SameDeparture, SameDrops, SameResumes, EntryKeeps,
      DepartureKeeps, ResumeKeeps
  <2>4. Custody(v)
    BY DEF CustodyInv
  <2>5. ASSUME leaving[v].at # "client" PROVE Custody(v)'
    <3>1. SameFor(v)
      BY <2>2, <2>3, <2>5 DEF SameFor, SameDeparture, DepartureKeeps
    <3> QED
      BY <1>13, <2>4, <3>1, CustodyFrame
  <2>6. ASSUME leaving[v].at = "client" PROVE Custody(v)'
    <3>1. DepartureKeeps(v) /\ ~DepartureKeeps(v)' /\ leaving[v].at # "none" /\ v \notin registry'
      BY <2>2, <2>6 DEF DepartureKeeps
    <3> QED
      BY <2>3, <2>4, <3>1 DEF Custody, SameEntry, SameSession, SameDeparture, SameDrops,
        SameResumes, DropKeeps
  <2>8. Custody(v)'
    BY <2>5, <2>6
  <2>9. \A w \in Viewers : w # v => SameFor(w)
    BY <2>1, <2>3 DEF SameFor, SameDeparture, DepartureKeeps
  <2> QED
    BY <2>8, <2>9, CustodyButOne
<1>14. ASSUME NEW v \in Viewers, Settle(v) PROVE CustodyInv'
  <2>1. UNCHANGED <<registry, enters, dropping, gets>>
    BY <1>14 DEF Settle
  <2>2. /\ leaving[v].at = "settle" /\ leaving'[v].at = "none"
        /\ \A w \in Viewers : w # v => leaving'[w] = leaving[w]
    BY <1>14 DEF Settle, NoDeparture, TypesOK, LeavingOK
  <2>3. /\ table'[v].holds = table[v].holds
        /\ \A w \in Viewers : w # v => table'[w] = table[w]
    BY <1>14 DEF Settle, SettleSession, TypesOK, TableOK, SessionRecords
  <2>4. SameEntry(v) /\ SameDrops(v) /\ SameResumes(v) /\ Custody(v)
    BY <2>1 DEF CustodyInv, SameEntry, SameSession, SameDeparture, SameDrops, SameResumes,
      EntryKeeps, DepartureKeeps, ResumeKeeps
  <2>5. ~DepartureKeeps(v) /\ ~DepartureKeeps(v)'
    BY <2>2 DEF DepartureKeeps
  <2>8. Custody(v)'
    BY <2>1, <2>2, <2>3, <2>4, <2>5 DEF Custody, SameEntry, SameSession, SameDeparture,
      SameDrops, SameResumes, DropKeeps
  <2>9. \A w \in Viewers : w # v => SameFor(w)
    BY <2>1, <2>2, <2>3 DEF SameFor, SameEntry, SameSession, SameDeparture, SameDrops,
      SameResumes, EntryKeeps, DepartureKeeps, ResumeKeeps
  <2> QED
    BY <2>8, <2>9, CustodyButOne
<1>15. ASSUME NEW g \in Requests, End(g) PROVE CustodyInv'
  <2>0. PICK u \in Viewers : u = gets[g].viewer
    BY <1>15 DEF End, FitsInv, RequestFitsEntry
  <2>1. /\ gets[g].at \in {"serving"} /\ gets'[g].at \in {"idle"}
        /\ \A h \in Requests : h # g => gets'[h] = gets[h]
    BY <1>15, RequestAt DEF End, RequestPlaces
  <2>2. UNCHANGED <<registry, enters, leaving, dropping>>
    BY <1>15 DEF End
  <2>3. \A w \in Viewers : SameSession(w)
    BY <1>15, <2>0 DEF End, SameSession, TypesOK, TableOK, SessionRecords
  <2>4. \A w \in Viewers : SameResumes(w)
    BY <2>1 DEF SameResumes, ResumeKeeps
  <2>9. \A w \in Viewers : SameFor(w)
    BY <2>2, <2>3, <2>4 DEF SameFor, SameEntry, SameDeparture, SameDrops, EntryKeeps,
      DepartureKeeps
  <2> QED
    BY <2>9, CustodyKept
<1>16. ASSUME NEW g \in Requests, ResumeClient(g) PROVE CustodyInv'
  <2>0. PICK u \in Viewers : u = gets[g].viewer
    BY <1>16 DEF ResumeClient, FitsInv, RequestFitsEntry
  <2>1. /\ gets[g].at \in {"found"} /\ gets'[g].at \in {"failed", "idle", "client"}
        /\ (gets'[g].at # "idle" => gets'[g].viewer = gets[g].viewer)
        /\ \A h \in Requests : h # g => gets'[h] = gets[h]
    BY <1>16, RequestAt DEF ResumeClient, RequestPlaces
  <2>2. /\ UNCHANGED <<table, enters, leaving, dropping>>
        /\ \A w \in Viewers : w # u => (w \in registry' <=> w \in registry)
        /\ IF gets'[g].at = "client" THEN u \notin registry /\ u \in registry'
               ELSE UNCHANGED registry
    BY <1>16, <2>0, RequestAt DEF ResumeClient, RequestPlaces
  <2>3. \A w \in Viewers : SameEntry(w) /\ SameSession(w) /\ SameDeparture(w) /\ SameDrops(w)
    BY <2>2 DEF SameEntry, SameSession, SameDeparture, SameDrops, SameResumes, EntryKeeps,
      DepartureKeeps, ResumeKeeps
  <2>4. Custody(u)
    BY <2>0 DEF CustodyInv
  <2>5. ASSUME gets'[g].at # "client" PROVE Custody(u)'
    <3>1. SameResumes(u)
      BY <2>0, <2>1, <2>5 DEF SameResumes, ResumeKeeps
    <3>2. SameFor(u)
      BY <2>0, <2>2, <2>3, <2>5, <3>1 DEF SameFor
    <3> QED
      BY <2>0, <2>4, <3>2, CustodyFrame
  <2>6. ASSUME gets'[g].at = "client" PROVE Custody(u)'
    <3>1. ResumeKeeps(g, u)' /\ \A h \in Requests : h # g => (ResumeKeeps(h, u)'
              <=> ResumeKeeps(h, u))
      BY <2>0, <2>1, <2>6 DEF ResumeKeeps
    <3>2. u \notin registry /\ u \in registry'
      BY <2>2, <2>6
    <3>3. /\ ~EntryKeeps(u) /\ ~table[u].holds /\ ~DepartureKeeps(u) /\ ~DropKeeps(u)
          /\ \A h \in Requests : ~ResumeKeeps(h, u)
      BY <2>4, <3>2 DEF Custody
    <3>4. enters[u].at # "out"
      BY <1>16, <2>0, <2>1 DEF FitsInv, RequestFitsEntry
    <3>5. SameEntry(u) /\ SameSession(u) /\ SameDeparture(u) /\ SameDrops(u)
      BY <2>0, <2>3
    <3> QED
      BY <2>4, <3>1, <3>2, <3>3, <3>4, <3>5 DEF Custody, SameEntry, SameSession, SameDeparture,
        SameDrops, SameResumes, DropKeeps
  <2>8. Custody(u)'
    BY <2>5, <2>6
  <2>9. \A w \in Viewers : w # u => SameFor(w)
    <3>1. \A w \in Viewers : w # u => SameResumes(w)
      BY <2>0, <2>1 DEF SameResumes, ResumeKeeps
    <3> QED
      BY <2>2, <2>3, <3>1 DEF SameFor
  <2> QED
    BY <2>0, <2>8, <2>9, CustodyButOne
<1>17. ASSUME NEW g \in Requests, ResumePipe(g) PROVE CustodyInv'
  <2>0. gets[g].at # "idle"
    BY <1>17 DEF ResumePipe
  <2>1. /\ gets[g].at \in {"client"} /\ gets'[g].at \in {"output", "undo"}
        /\ gets'[g].viewer = gets[g].viewer
        /\ \A h \in Requests : h # g => gets'[h] = gets[h]
    BY <1>17, RequestAt DEF ResumePipe, RequestPlaces
  <2>2. UNCHANGED <<registry, table, enters, leaving, dropping>>
    BY <1>17 DEF ResumePipe
  <2>3. \A w \in Viewers : SameResumes(w)
    BY <2>1 DEF SameResumes, ResumeKeeps
  <2>9. \A w \in Viewers : SameFor(w)
    BY <2>2, <2>3 DEF SameFor, SameEntry, SameSession, SameDeparture, SameDrops, EntryKeeps,
                      DepartureKeeps
  <2> QED
    BY <2>9, CustodyKept
<1>18. ASSUME NEW g \in Requests, CommitResume(g) PROVE CustodyInv'
  <2>0. PICK u \in Viewers : u = gets[g].viewer
    BY <1>18 DEF CommitResume, FitsInv, RequestFitsEntry
  <2>1. /\ gets[g].at \in {"output"} /\ gets'[g].at \in {"committed", "unpipe"}
        /\ gets'[g].viewer = gets[g].viewer
        /\ \A h \in Requests : h # g => gets'[h] = gets[h]
    BY <1>18, RequestAt DEF CommitResume, RequestPlaces
  <2>2. UNCHANGED <<registry, enters, leaving, dropping>>
    BY <1>18 DEF CommitResume
  <2>3. \A w \in Viewers : w # u => table'[w] = table[w]
    BY <1>18, <2>0 DEF CommitResume, TypesOK, TableOK
  <2>4. Custody(u) /\ SameEntry(u) /\ SameDeparture(u) /\ SameDrops(u) /\ (u \in registry'
            <=> u \in registry)
    BY <2>0, <2>2 DEF CustodyInv, SameEntry, SameSession, SameDeparture, SameDrops, SameResumes,
      EntryKeeps, DepartureKeeps, ResumeKeeps
  <2>5. ASSUME ~Resumable(u) PROVE Custody(u)'
    <3>1. gets'[g].at = "unpipe" /\ UNCHANGED table
      BY <1>18, <2>0, <2>5, RequestAt DEF CommitResume, RequestPlaces
    <3>2. SameResumes(u) /\ SameSession(u)
      BY <2>0, <2>1, <3>1 DEF SameResumes, ResumeKeeps, SameSession
    <3>3. SameFor(u)
      BY <2>4, <3>2 DEF SameFor
    <3> QED
      BY <2>0, <2>4, <3>3, CustodyFrame
  <2>6. ASSUME Resumable(u) PROVE Custody(u)'
    <3>1. gets[g].at = "output" /\ gets'[g].at = "committed"
      BY <1>18, <2>0, <2>6, RequestAt DEF CommitResume, RequestPlaces
    <3>2. ResumeKeeps(g, u) /\ ~ResumeKeeps(g, u)' /\ \A h \in Requests : h # g
              => (ResumeKeeps(h, u)' <=> ResumeKeeps(h, u))
      BY <2>0, <2>1, <3>1 DEF ResumeKeeps
    <3>3. table'[u].holds /\ table'[u].state = "active"
      <4>1. table' = [table EXCEPT ![u] = [@ EXCEPT !.state = "active", !.inFlight = 1,
                                                    !.connected = TRUE, !.holds = TRUE]]
        BY <1>18, <2>0, <2>6 DEF CommitResume
      <4> QED
        BY <4>1 DEF TypesOK, TableOK, SessionRecords
    <3>4. leaving[u].at = "none"
      BY <2>4, <2>6 DEF Resumable, Custody
    <3> QED
      BY <2>4, <3>2, <3>3, <3>4 DEF Custody, SameEntry, SameSession, SameDeparture, SameDrops,
        SameResumes, DropKeeps
  <2>8. Custody(u)'
    BY <2>5, <2>6
  <2>9. \A w \in Viewers : w # u => SameFor(w)
    <3>1. \A w \in Viewers : w # u => SameResumes(w)
      BY <2>0, <2>1 DEF SameResumes, ResumeKeeps
    <3> QED
      BY <2>2, <2>3, <3>1 DEF SameFor, SameEntry, SameSession, SameDeparture, SameDrops,
        SameResumes, EntryKeeps, DepartureKeeps, ResumeKeeps
  <2> QED
    BY <2>0, <2>8, <2>9, CustodyButOne
<1>19. ASSUME NEW g \in Requests, ResumeConnect(g) PROVE CustodyInv'
  <2>0. gets[g].at # "idle"
    BY <1>19 DEF ResumeConnect
  <2>1. /\ gets[g].at \in {"committed"} /\ gets'[g].at \in {"serving"}
        /\ gets'[g].viewer = gets[g].viewer
        /\ \A h \in Requests : h # g => gets'[h] = gets[h]
    BY <1>19, RequestAt DEF ResumeConnect, RequestPlaces
  <2>2. UNCHANGED <<registry, table, enters, leaving, dropping>>
    BY <1>19 DEF ResumeConnect
  <2>3. \A w \in Viewers : SameResumes(w)
    BY <2>1 DEF SameResumes, ResumeKeeps
  <2>9. \A w \in Viewers : SameFor(w)
    BY <2>2, <2>3 DEF SameFor, SameEntry, SameSession, SameDeparture, SameDrops, EntryKeeps,
                      DepartureKeeps
  <2> QED
    BY <2>9, CustodyKept
<1>20. ASSUME NEW g \in Requests, UndoResume(g) PROVE CustodyInv'
  <2>0. PICK u \in Viewers : u = gets[g].viewer
    BY <1>20 DEF UndoResume, FitsInv, RequestFitsEntry
  <2>1. /\ gets[g].at \in {"unpipe", "unclient", "undo"}
               /\ gets'[g].at \in {"unclient", "failed", "idle"}
        /\ (gets'[g].at # "idle" => gets'[g].viewer = gets[g].viewer)
        /\ \A h \in Requests : h # g => gets'[h] = gets[h]
    BY <1>20, RequestAt DEF UndoResume, RequestPlaces
  <2>2. /\ UNCHANGED <<table, enters, leaving, dropping>>
        /\ \A w \in Viewers : w # u => (w \in registry' <=> w \in registry)
        /\ IF gets[g].at = "unpipe" THEN gets'[g].at = "unclient" /\ UNCHANGED registry
           ELSE gets'[g].at \in {"failed", "idle"} /\ u \notin registry'
    BY <1>20, <2>0, RequestAt DEF UndoResume, RequestPlaces
  <2>3. \A w \in Viewers : SameEntry(w) /\ SameSession(w) /\ SameDeparture(w) /\ SameDrops(w)
    BY <2>2 DEF SameEntry, SameSession, SameDeparture, SameDrops, SameResumes, EntryKeeps,
      DepartureKeeps, ResumeKeeps
  <2>4. Custody(u)
    BY <2>0 DEF CustodyInv
  <2>5. ASSUME gets[g].at = "unpipe" PROVE Custody(u)'
    <3>1. SameResumes(u)
      BY <2>0, <2>1, <2>2, <2>5 DEF SameResumes, ResumeKeeps
    <3>2. SameFor(u)
      BY <2>0, <2>2, <2>3, <2>5, <3>1 DEF SameFor
    <3> QED
      BY <2>0, <2>4, <3>2, CustodyFrame
  <2>6. ASSUME gets[g].at # "unpipe" PROVE Custody(u)'
    <3>1. ResumeKeeps(g, u) /\ ~ResumeKeeps(g, u)' /\ \A h \in Requests : h # g
              => (ResumeKeeps(h, u)' <=> ResumeKeeps(h, u))
      BY <2>0, <2>1, <2>2, <2>6 DEF ResumeKeeps
    <3>2. SameEntry(u) /\ SameSession(u) /\ SameDeparture(u) /\ SameDrops(u) /\ u \notin registry'
      BY <2>0, <2>2, <2>3, <2>6
    <3> QED
      BY <2>4, <3>1, <3>2 DEF Custody, SameEntry, SameSession, SameDeparture, SameDrops,
        SameResumes, DropKeeps
  <2>8. Custody(u)'
    BY <2>5, <2>6
  <2>9. \A w \in Viewers : w # u => SameFor(w)
    <3>1. \A w \in Viewers : w # u => SameResumes(w)
      BY <2>0, <2>1 DEF SameResumes, ResumeKeeps
    <3> QED
      BY <2>2, <2>3, <3>1 DEF SameFor
  <2> QED
    BY <2>0, <2>8, <2>9, CustodyButOne
<1>21. ASSUME NEW g \in Requests, ResumeFailed(g) PROVE CustodyInv'
  <2>0. PICK u \in Viewers : u = gets[g].viewer
    BY <1>21 DEF ResumeFailed, FitsInv, RequestFitsEntry
  <2>1. /\ gets[g].at \in {"failed"} /\ gets'[g].at \in {"idle"}
        /\ \A h \in Requests : h # g => gets'[h] = gets[h]
    BY <1>21, RequestAt DEF ResumeFailed, RequestPlaces
  <2>2. UNCHANGED <<registry, announced, enters, leaving>> /\ \A w \in Viewers : SameResumes(w)
    BY <1>21, <2>1 DEF ResumeFailed, SameResumes, ResumeKeeps
  <2>3. CASE MarkStopped({u}, "channel")
    BY <2>0, <2>2, <2>3, MarkedCustody
  <2>4. CASE UNCHANGED <<table, dropping>>
    <3>1. \A w \in Viewers : SameFor(w)
      BY <2>2, <2>4 DEF SameFor, SameEntry, SameSession, SameDeparture, SameDrops, EntryKeeps,
        DepartureKeeps
    <3> QED
      BY <3>1, CustodyKept
  <2> QED
    BY <1>21, <2>0, <2>3, <2>4 DEF ResumeFailed
<1>22. ASSUME NEW g \in Requests, NEW v \in Viewers, Begin(g, v) PROVE CustodyInv'
  <2>1. UNCHANGED <<registry, enters, leaving, dropping>>
    BY <1>22 DEF Begin
  <2>2. \A w \in Viewers : SameSession(w)
    BY <1>22 DEF Begin, SameSession, TypesOK, TableOK, SessionRecords
  <2>3. /\ gets[g].at = "idle" /\ gets'[g].at \in {"serving", "found"}
        /\ \A h \in Requests : h # g => gets'[h] = gets[h]
    BY <1>22 DEF Begin, TypesOK, GetsOK
  <2>4. \A w \in Viewers : SameResumes(w)
    BY <2>3 DEF SameResumes, ResumeKeeps
  <2>9. \A w \in Viewers : SameFor(w)
    BY <2>1, <2>2, <2>4 DEF SameFor, SameEntry, SameDeparture, SameDrops, EntryKeeps,
      DepartureKeeps
  <2> QED
    BY <2>9, CustodyKept
<1>23. ASSUME NEW p \in Pipes, PipeGoes(p) PROVE CustodyInv'
  <2>1. UNCHANGED <<registry, table, enters, leaving, dropping, gets>>
    BY <1>23 DEF PipeGoes
  <2>9. \A w \in Viewers : SameFor(w)
    BY <2>1 DEF SameFor, SameEntry, SameSession, SameDeparture, SameDrops, SameResumes,
      EntryKeeps, DepartureKeeps, ResumeKeeps
  <2> QED
    BY <2>9, CustodyKept
<1>24. ASSUME NEW p \in Pipes, Watch(p) PROVE CustodyInv'
  <2>1. UNCHANGED <<registry, announced, enters, leaving>> /\ \A w \in Viewers : SameResumes(w)
    BY <1>24 DEF Watch, SameResumes, ResumeKeeps
  <2>2. CASE MarkStopped({v \in Viewers : table[v].plays = p}, "output")
    BY <2>1, <2>2, MarkedCustody
  <2>3. CASE UNCHANGED <<table, dropping>>
    <3>1. \A w \in Viewers : SameFor(w)
      BY <2>1, <2>3 DEF SameFor, SameEntry, SameSession, SameDeparture, SameDrops, EntryKeeps,
        DepartureKeeps
    <3> QED
      BY <3>1, CustodyKept
  <2> QED
    BY <1>24, <2>2, <2>3 DEF Watch
<1>25. ASSUME LingerEnds PROVE CustodyInv'
  <2>1. UNCHANGED <<registry, table, enters, leaving, dropping, gets>>
    BY <1>25 DEF LingerEnds
  <2>9. \A w \in Viewers : SameFor(w)
    BY <2>1 DEF SameFor, SameEntry, SameSession, SameDeparture, SameDrops, SameResumes,
      EntryKeeps, DepartureKeeps, ResumeKeeps
  <2> QED
    BY <2>9, CustodyKept
<1>26. ASSUME Boundary PROVE CustodyInv'
  <2>1. UNCHANGED <<registry, table, enters, leaving, dropping, gets>>
    BY <1>26 DEF Boundary
  <2>9. \A w \in Viewers : SameFor(w)
    BY <2>1 DEF SameFor, SameEntry, SameSession, SameDeparture, SameDrops, SameResumes,
      EntryKeeps, DepartureKeeps, ResumeKeeps
  <2> QED
    BY <2>9, CustodyKept
<1>27. ASSUME StopChannel PROVE CustodyInv'
  <2>1. UNCHANGED <<registry, announced, enters, leaving>> /\ \A w \in Viewers : SameResumes(w)
    BY <1>27 DEF StopChannel, SameResumes, ResumeKeeps
  <2> QED
    BY <1>27, <2>1, MarkedCustody DEF StopChannel
<1>28. ASSUME DropStopped PROVE CustodyInv'
  <2>1. PICK d \in dropping : dropping' = dropping \ {d} /\ registry' = registry \ {d[1]}
    BY <1>28 DEF DropStopped, DropsStopped
  <2>2. PICK v \in Viewers, b \in BOOLEAN : d = <<v, b>>
    BY DEF TypesOK, ViewersOK
  <2>3. UNCHANGED <<table, enters, leaving, gets>>
    BY <1>28 DEF DropStopped
  <2>4. \A w \in Viewers : SameEntry(w) /\ SameSession(w) /\ SameDeparture(w) /\ SameResumes(w)
    BY <2>3 DEF SameEntry, SameSession, SameDeparture, SameDrops, SameResumes, EntryKeeps,
      DepartureKeeps, ResumeKeeps
  <2>8. Custody(v)'
    <3>1. Custody(v)
      BY DEF CustodyInv
    <3>2. DropKeeps(v) /\ v \notin registry' /\ ~DropKeeps(v)'
      BY <2>1, <2>2, <3>1 DEF DropKeeps, Custody
    <3> QED
      BY <2>4, <3>1, <3>2 DEF Custody, SameEntry, SameSession, SameDeparture, SameResumes,
        DropKeeps
  <2>9. \A w \in Viewers : w # v => SameFor(w)
    BY <2>1, <2>2, <2>4 DEF SameFor, SameDrops
  <2> QED
    BY <2>8, <2>9, CustodyButOne
<1>29. ASSUME Unlist PROVE CustodyInv'
  <2>1. UNCHANGED <<registry, table, enters, leaving, dropping, gets>>
    BY <1>29 DEF Unlist
  <2>9. \A w \in Viewers : SameFor(w)
    BY <2>1 DEF SameFor, SameEntry, SameSession, SameDeparture, SameDrops, SameResumes,
      EntryKeeps, DepartureKeeps, ResumeKeeps
  <2> QED
    BY <2>9, CustodyKept
<1>30. ASSUME OutputsStop PROVE CustodyInv'
  <2>1. UNCHANGED <<registry, table, enters, leaving, dropping, gets>>
    BY <1>30 DEF OutputsStop
  <2>9. \A w \in Viewers : SameFor(w)
    BY <2>1 DEF SameFor, SameEntry, SameSession, SameDeparture, SameDrops, SameResumes,
      EntryKeeps, DepartureKeeps, ResumeKeeps
  <2> QED
    BY <2>9, CustodyKept
<1>31. ASSUME RingCloses PROVE CustodyInv'
  <2>1. UNCHANGED <<registry, table, enters, leaving, dropping, gets>>
    BY <1>31 DEF RingCloses
  <2>9. \A w \in Viewers : SameFor(w)
    BY <2>1 DEF SameFor, SameEntry, SameSession, SameDeparture, SameDrops, SameResumes,
      EntryKeeps, DepartureKeeps, ResumeKeeps
  <2> QED
    BY <2>9, CustodyKept
<1> QED
  BY <1>1, <1>2, <1>3, <1>4, <1>5, <1>6, <1>7, <1>8, <1>9, <1>10, <1>11, <1>12, <1>13, <1>14,
    <1>15, <1>16, <1>17, <1>18, <1>19, <1>20, <1>21, <1>22, <1>23, <1>24, <1>25, <1>26, <1>27,
    <1>28, <1>29, <1>30, <1>31
  DEF SessNext, EntryStep, DepartureStep, RequestStep, PipelineStep, MarkStep, ChannelEndStep

----------------------------------------------------------------------------
\* Who owes the disconnect of a connected viewer: its entry, its session, its
\* departure, or whoever drops its client.
EntryOwes(v)     == One(enters[v].at \in {"announced", "unannounced"})
LiveOwes(v)      == One(table[v].state = "active")
DepartureOwes(v) == One(leaving[v].at = "disconnect" /\ leaving[v].connected)
DropOwes(v)      == One(<<v, TRUE>> \in dropping)
\* What the account of w depends on.
SameEvents(w) ==
  /\ announced'[w] = announced[w] /\ Committed(w)' = Committed(w)
  /\ EntryOwes(w)' = EntryOwes(w) /\ LiveOwes(w)' = LiveOwes(w)
  /\ DepartureOwes(w)' = DepartureOwes(w) /\ DropOwes(w)' = DropOwes(w)

\* The account of a viewer's events, by who owes the disconnect.
LEMMA AnnouncedIs ==
  ASSUME NEW v \in Viewers
  PROVE  Announced(v) <=>
           announced[v] + Cardinality(Committed(v))
             = EntryOwes(v) + LiveOwes(v) + DepartureOwes(v) + DropOwes(v)
BY DEF Announced, EntryOwes, LiveOwes, DepartureOwes, DropOwes

\* A viewer none of whose debts changes keeps its account.
LEMMA AnnouncedFrame ==
  ASSUME NEW w \in Viewers, Announced(w), SameEvents(w)
  PROVE  Announced(w)'
BY DEF Announced, SameEvents, EntryOwes, LiveOwes, DepartureOwes, DropOwes

\* A step that changes no debt keeps all accounts.
LEMMA AnnouncedKept ==
  ASSUME AnnouncedInv, \A w \in Viewers : SameEvents(w)
  PROVE  AnnouncedInv'
BY AnnouncedFrame DEF AnnouncedInv

\* A step that changes one viewer's debts keeps the others' accounts.
LEMMA AnnouncedButOne ==
  ASSUME AnnouncedInv, NEW v \in Viewers, Announced(v)', \A w \in Viewers : w # v => SameEvents(w)
  PROVE  AnnouncedInv'
BY AnnouncedFrame DEF AnnouncedInv

\* A viewer's committed resumes are finitely many.
LEMMA CommittedCount ==
  ASSUME NEW v \in Viewers
  PROVE  IsFiniteSet(Committed(v)) /\ Cardinality(Committed(v)) \in Nat
<1>1. Committed(v) \subseteq Requests /\ IsFiniteSet(Requests)
  BY HlsSessionsAssumption DEF Committed, HlsSessionsAssumption
<1> QED
  BY <1>1, FS_Subset, FS_CardinalityType

\* An abandoned entry owes the disconnect exactly if it has connected.
LEMMA AbandonEvents ==
  ASSUME TypesOK, FitsInv, NEW v \in Viewers, NEW otherwise \in {"gone", "unannounced"},
         Abandon(v, otherwise), enters[v].at \in {"added", "waiting", "ready", "announced"},
         enters[v].at = "announced" => otherwise = "unannounced" /\ table[v].state # "arrived",
         enters[v].at # "announced" => otherwise = "gone",
         UNCHANGED <<leaving, dropping, gets, announced>>
  PROVE  \A w \in Viewers : SameEvents(w)
<1>1. /\ table'[v] = NoSession
      /\ \A w \in Viewers : w # v => table'[w] = table[w] /\ enters'[w] = enters[w]
      /\ table[v].holds => enters'[v] = [at |-> "refused", pipe |-> enters[v].pipe]
      /\ ~table[v].holds => enters'[v].at = otherwise
  BY AbandonTo DEF TypesOK
<1>2. table[v].state \in {"arrived", "stopped"} /\ (table[v].state = "stopped" => ~table[v].holds)
  BY DEF FitsInv, SessionFitsEntry
<1>3. table'[v].state = "none"
  BY <1>1 DEF NoSession
<1>4. /\ enters'[v].at \in {"gone", "refused", "unannounced"}
      /\ enters[v].at = "announced" <=> enters'[v].at = "unannounced"
  BY <1>1, <1>2
<1>5. EntryOwes(v)' = EntryOwes(v) /\ LiveOwes(v)' = LiveOwes(v)
  BY <1>2, <1>3, <1>4 DEF EntryOwes, LiveOwes, One
<1>6. \A w \in Viewers : EntryOwes(w)' = EntryOwes(w) /\ LiveOwes(w)' = LiveOwes(w)
  BY <1>1, <1>5 DEF EntryOwes, LiveOwes
<1> QED
  BY <1>6 DEF SameEvents, Committed, DepartureOwes, DropOwes

\* takeLocked moves the disconnect owed from the session to its departure.
LEMMA LeaveEvents ==
  ASSUME TypesOK, FitsInv, NEW v \in Viewers, Custody(v), Announced(v), NEW idle,
         TakesLeave(v, idle),
         table'[v].state # "active", \A w \in Viewers : w # v => table'[w] = table[w],
         UNCHANGED <<enters, dropping, gets, announced>>
  PROVE  Announced(v)' /\ \A w \in Viewers : w # v => SameEvents(w)
<1>1. \A w \in Viewers : w # v => leaving'[w] = leaving[w]
  BY DEF TakesLeave, TypesOK, LeavingOK
<1>2. \A w \in Viewers : w # v => SameEvents(w)
  BY <1>1 DEF SameEvents, Committed, EntryOwes, LiveOwes, DepartureOwes, DropOwes
<1>3. UNCHANGED <<announced[v], Committed(v), EntryOwes(v), DropOwes(v)>> /\ LiveOwes(v)' = 0
  BY DEF Committed, EntryOwes, LiveOwes, DropOwes, One
<1>4. CASE table[v].holds
  <2>1. leaving'[v].at = "disconnect" /\ leaving'[v].connected = table[v].connected
    BY <1>4 DEF TakesLeave, TypesOK, LeavingOK
  <2>2. leaving[v].at = "none" /\ table[v].state \in {"arrived", "active"}
    BY <1>4 DEF Custody, FitsInv, SessionFitsEntry, TypesOK, TableOK, SessionRecords
  <2>3. DepartureOwes(v) = 0
    BY <2>2 DEF DepartureOwes, One
  <2>4. DepartureOwes(v)' = LiveOwes(v)
    <3>1. CASE table[v].state = "arrived"
      BY <2>1, <3>1 DEF FitsInv, SessionFitsEntry, DepartureOwes, LiveOwes, One
    <3>2. CASE table[v].state = "active"
      BY <2>1, <3>2 DEF FitsInv, SessionFitsEntry, DepartureOwes, LiveOwes, One
    <3> QED
      BY <2>2, <3>1, <3>2
  <2>5. LiveOwes(v) \in Nat /\ EntryOwes(v) \in Nat /\ DropOwes(v) \in Nat
    BY DEF LiveOwes, EntryOwes, DropOwes, One
  <2>6. announced'[v] + Cardinality(Committed(v)') = announced[v] + Cardinality(Committed(v))
    BY <1>3
  <2>7. Announced(v)'
    BY <1>3, <2>3, <2>4, <2>5, <2>6 DEF Announced, EntryOwes, LiveOwes, DepartureOwes, DropOwes
  <2> QED
    BY <1>2, <2>7
<1>5. CASE ~table[v].holds
  <2>1. leaving' = leaving /\ table[v].state # "active"
    BY <1>5 DEF TakesLeave, FitsInv, SessionFitsEntry
  <2>2. SameEvents(v)
    BY <1>3, <2>1 DEF SameEvents, LiveOwes, DepartureOwes, One
  <2>3. Announced(v)'
    BY <2>2, AnnouncedFrame
  <2> QED
    BY <1>2, <2>3
<1> QED
  BY <1>4, <1>5

\* A mark moves the disconnects owed to the clients to be dropped.
LEMMA MarkedEvents ==
  ASSUME TypesOK, FitsInv, CustodyInv, AnnouncedInv, NEW V \in SUBSET Viewers,
         NEW why \in {"client", "channel", "output"}, MarkStopped(V, why),
         UNCHANGED <<registry, announced, enters, leaving>>,
         \A w \in Viewers : Committed(w)' = Committed(w)
  PROVE  AnnouncedInv'
<1>1. MarkedBy(V, why) /\ DropsBy(V)
  <2>1. TableOK /\ ViewersOK
    BY DEF TypesOK
  <2> QED
    BY <2>1, Marking
<1> SUFFICES ASSUME NEW w \in Viewers PROVE Announced(w)'
  BY DEF AnnouncedInv
<1>2. announced'[w] = announced[w] /\ Committed(w)' = Committed(w)
      /\ EntryOwes(w)' = EntryOwes(w) /\ DepartureOwes(w)' = DepartureOwes(w)
  BY DEF EntryOwes, DepartureOwes
<1>3. table[w] \in SessionRecords /\ SessionFitsEntry(w) /\ Custody(w) /\ Announced(w)
  BY DEF TypesOK, TableOK, FitsInv, CustodyInv, AnnouncedInv
<1>4. CASE table[w].state = "active" /\ w \in V
  <2>1. table[w].holds /\ ~table[w].settling /\ table[w].connected = TRUE
    BY <1>3, <1>4 DEF SessionFitsEntry, SessionRecords
  <2>2. table'[w].state = "stopped"
    BY <1>1, <1>3, <1>4 DEF SessionRecords, MarkedBy
  <2>3. <<w, TRUE>> \in dropping' /\ <<w, TRUE>> \notin dropping
    <3>1. <<w, TRUE>> \notin dropping
      BY <1>3, <2>1 DEF Custody, DropKeeps
    <3> QED
      BY <1>1, <1>4, <2>1, <3>1 DEF DropsBy
  <2>4. LiveOwes(w) = 1 /\ LiveOwes(w)' = 0 /\ DropOwes(w) = 0 /\ DropOwes(w)' = 1
    BY <1>4, <2>2, <2>3 DEF LiveOwes, DropOwes, One
  <2>5. EntryOwes(w) \in Nat /\ DepartureOwes(w) \in Nat
    BY DEF EntryOwes, DepartureOwes, One
  <2> QED
    BY <1>2, <1>3, <2>4, <2>5 DEF Announced, EntryOwes, LiveOwes, DepartureOwes, DropOwes
<1>5. CASE ~(table[w].state = "active" /\ w \in V)
  <2>1. LiveOwes(w)' = LiveOwes(w)
    BY <1>1, <1>3, <1>5 DEF LiveOwes, SessionRecords, MarkedBy
  <2>2. <<w, TRUE>> \in dropping' <=> <<w, TRUE>> \in dropping
    BY <1>1, <1>3, <1>5 DEF SessionFitsEntry, MarkedBy, DropsBy
  <2>3. SameEvents(w)
    BY <1>2, <2>1, <2>2 DEF SameEvents, DropOwes
  <2> QED
    BY <1>3, <2>3, AnnouncedFrame
<1> QED
  BY <1>4, <1>5

\* Every step keeps the viewers' accounts.
LEMMA StepEvents ==
  ASSUME TypesOK, FitsInv, CustodyInv, AnnouncedInv, SessNext
  PROVE  AnnouncedInv'
<1>1. ASSUME NEW v \in Viewers, Enter(v) PROVE AnnouncedInv'
  <2>1. /\ enters[v].at = "out" /\ enters'[v].at = "attached"
        /\ \A w \in Viewers : w # v => enters'[w] = enters[w]
    BY <1>1, EntryAt DEF Enter, EntryPlaces, TypesOK
  <2>2. UNCHANGED <<table, leaving, dropping, gets, announced>>
    BY <1>1 DEF Enter
  <2>9. \A w \in Viewers : SameEvents(w)
    BY <2>1, <2>2 DEF SameEvents, Committed, EntryOwes, LiveOwes, DepartureOwes, DropOwes, One
  <2> QED
    BY <2>9, AnnouncedKept
<1>2. ASSUME NEW v \in Viewers, AttachPipe(v) PROVE AnnouncedInv'
  <2>1. EntersOK /\ EntersOK' /\ enters[v].at = "attached"
    BY <1>2, StepTypes DEF AttachPipe, TypesOK
  <2>2. OutputsOver \/ failedMark => enters'[v].at = "unpiped" /\ \A w \in Viewers : w # v
            => enters'[w] = enters[w]
    BY <1>2, EntryAt DEF AttachPipe, EntryPlaces, TypesOK
  <2>3. ~(OutputsOver \/ failedMark) => enters'[v].at = "piped" /\ \A w \in Viewers : w # v
            => enters'[w] = enters[w]
    BY <1>2, <2>1 DEF AttachPipe, EntersOK
  <2>4. UNCHANGED <<registry, table, leaving, dropping, gets, announced>>
    BY <1>2 DEF AttachPipe
  <2>5. \A w \in Viewers : EntryOwes(w)' = EntryOwes(w)
    BY <2>1, <2>2, <2>3 DEF EntryOwes, One
  <2>9. \A w \in Viewers : SameEvents(w)
    BY <2>4, <2>5 DEF SameEvents, Committed, LiveOwes, DepartureOwes, DropOwes
  <2> QED
    BY <2>9, AnnouncedKept
<1>3. ASSUME NEW v \in Viewers, Add(v) PROVE AnnouncedInv'
  <2>1. /\ enters[v].at = "piped" /\ enters'[v].at = "added"
        /\ \A w \in Viewers : w # v => enters'[w] = enters[w]
    BY <1>3, EntryAt DEF Add, EntryPlaces, TypesOK
  <2>2. UNCHANGED <<leaving, dropping, gets, announced>>
    BY <1>3 DEF Add
  <2>3. /\ table'[v].state = "arrived" /\ \A w \in Viewers : w # v => table'[w] = table[w]
    BY <1>3 DEF Add, NoSession, TypesOK, TableOK
  <2>4. table[v].state = "none"
    BY <2>1 DEF FitsInv, SessionFitsEntry
  <2>9. \A w \in Viewers : SameEvents(w)
    BY <2>1, <2>2, <2>3, <2>4 DEF SameEvents, Committed, EntryOwes, LiveOwes, DepartureOwes,
      DropOwes, One
  <2> QED
    BY <2>9, AnnouncedKept
<1>4. ASSUME NEW v \in Viewers, ReCheck(v) PROVE AnnouncedInv'
  <2>1. enters[v].at = "added" /\ UNCHANGED <<leaving, dropping, gets, announced>>
    BY <1>4 DEF ReCheck
  <2>2. ASSUME Abandon(v, "gone") PROVE \A w \in Viewers : SameEvents(w)
    BY <2>1, <2>2, AbandonEvents
  <2>3. ASSUME ~Abandon(v, "gone") PROVE \A w \in Viewers : SameEvents(w)
    <3>1. /\ enters'[v].at = "waiting" /\ \A w \in Viewers : w # v => enters'[w] = enters[w]
          /\ UNCHANGED table
      BY <1>4, <2>3, EntryAt DEF ReCheck, EntryPlaces, TypesOK
    <3> QED
      BY <2>1, <3>1 DEF SameEvents, Committed, EntryOwes, LiveOwes, DepartureOwes, DropOwes, One
  <2>9. \A w \in Viewers : SameEvents(w)
    BY <2>2, <2>3
  <2> QED
    BY <2>9, AnnouncedKept
<1>5. ASSUME NEW v \in Viewers, WaitReady(v) PROVE AnnouncedInv'
  <2>1. enters[v].at = "waiting" /\ UNCHANGED <<leaving, dropping, gets, announced>>
    BY <1>5 DEF WaitReady
  <2>2. ASSUME Abandon(v, "gone") PROVE \A w \in Viewers : SameEvents(w)
    BY <2>1, <2>2, AbandonEvents
  <2>3. ASSUME ~Abandon(v, "gone") PROVE \A w \in Viewers : SameEvents(w)
    <3>1. /\ enters'[v].at = "ready" /\ \A w \in Viewers : w # v => enters'[w] = enters[w]
          /\ UNCHANGED table
      BY <1>5, <2>3, EntryAt DEF WaitReady, EntryPlaces, TypesOK
    <3> QED
      BY <2>1, <3>1 DEF SameEvents, Committed, EntryOwes, LiveOwes, DepartureOwes, DropOwes, One
  <2>9. \A w \in Viewers : SameEvents(w)
    BY <2>2, <2>3
  <2> QED
    BY <2>9, AnnouncedKept
<1>6. ASSUME NEW v \in Viewers, Connect(v) PROVE AnnouncedInv'
  <2>1. enters[v].at = "ready" /\ UNCHANGED <<leaving, dropping, gets>>
    BY <1>6 DEF Connect
  <2>2. CASE DoneClosed(enters[v].pipe)
    <3>1. Abandon(v, "gone") /\ UNCHANGED announced
      BY <1>6, <2>2 DEF Connect
    <3>2. \A w \in Viewers : SameEvents(w)
      BY <2>1, <3>1, AbandonEvents
    <3> QED
      BY <3>2, AnnouncedKept
  <2>3. CASE ~DoneClosed(enters[v].pipe)
    <3>1. /\ enters'[v].at = "announced" /\ \A w \in Viewers : w # v => enters'[w] = enters[w]
          /\ UNCHANGED table
      BY <1>6, <2>3, EntryAt DEF Connect, EntryPlaces, TypesOK
    <3>2. /\ announced[v] \in Int /\ announced'[v] = announced[v] + 1
          /\ \A w \in Viewers : w # v => announced'[w] = announced[w]
      BY <1>6, <2>3 DEF Connect, Announce, TypesOK, ViewersOK
    <3>3. \A w \in Viewers : w # v => SameEvents(w)
      BY <2>1, <3>1, <3>2 DEF SameEvents, Committed, EntryOwes, LiveOwes, DepartureOwes, DropOwes
    <3>4. EntryOwes(v) = 0 /\ EntryOwes(v)' = 1
      BY <2>1, <3>1 DEF EntryOwes, One
    <3>5. UNCHANGED <<LiveOwes(v), DepartureOwes(v), DropOwes(v), Committed(v)>>
      BY <2>1, <3>1 DEF Committed, LiveOwes, DepartureOwes, DropOwes
    <3>6. LiveOwes(v) \in Nat /\ DepartureOwes(v) \in Nat /\ DropOwes(v) \in Nat
          /\ Cardinality(Committed(v)) \in Nat /\ Announced(v)
      BY <1>6, CommittedCount DEF LiveOwes, DepartureOwes, DropOwes, One, AnnouncedInv
    <3>7. Announced(v)'
      BY <3>2, <3>4, <3>5, <3>6 DEF Announced, EntryOwes, LiveOwes, DepartureOwes, DropOwes
    <3> QED
      BY <3>3, <3>7, AnnouncedButOne
  <2> QED
    BY <2>2, <2>3
<1>7. ASSUME NEW v \in Viewers, ActivateSession(v) PROVE AnnouncedInv'
  <2>1. enters[v].at = "announced" /\ UNCHANGED <<leaving, dropping, gets, announced>>
    BY <1>7 DEF ActivateSession
  <2>2. CASE table[v].state # "arrived"
    <3>1. Abandon(v, "unannounced")
      BY <1>7, <2>2 DEF ActivateSession
    <3>2. \A w \in Viewers : SameEvents(w)
      BY <2>1, <2>2, <3>1, AbandonEvents
    <3> QED
      BY <3>2, AnnouncedKept
  <2>3. CASE table[v].state = "arrived"
    <3>1. /\ enters'[v].at = "in" /\ \A w \in Viewers : w # v => enters'[w] = enters[w]
      BY <1>7, <2>3, EntryAt DEF ActivateSession, EntryPlaces, TypesOK
    <3>2. table' = [table EXCEPT ![v] = [@ EXCEPT !.state = "active", !.connected = TRUE,
                                                     !.inFlight = table[v].inFlight - 1]]
      BY <1>7, <2>3 DEF ActivateSession
    <3>3. table'[v].state = "active" /\ \A w \in Viewers : w # v => table'[w] = table[w]
      BY <3>2 DEF TypesOK, TableOK, SessionRecords
    <3>4. \A w \in Viewers : w # v => SameEvents(w)
      BY <2>1, <3>1, <3>3 DEF SameEvents, Committed, EntryOwes, LiveOwes, DepartureOwes, DropOwes
    <3>5. EntryOwes(v) = 1 /\ EntryOwes(v)' = 0 /\ LiveOwes(v) = 0 /\ LiveOwes(v)' = 1
      BY <2>1, <2>3, <3>1, <3>3 DEF EntryOwes, LiveOwes, One
    <3>6. UNCHANGED <<DepartureOwes(v), DropOwes(v), Committed(v), announced[v]>>
      BY <2>1 DEF Committed, DepartureOwes, DropOwes
    <3>7. DepartureOwes(v) \in Nat /\ DropOwes(v) \in Nat /\ Announced(v)
      BY <1>7 DEF DepartureOwes, DropOwes, One, AnnouncedInv
    <3>8. Announced(v)'
      BY <3>5, <3>6, <3>7 DEF Announced, EntryOwes, LiveOwes, DepartureOwes, DropOwes
    <3> QED
      BY <3>4, <3>8, AnnouncedButOne
  <2> QED
    BY <2>2, <2>3
<1>8. ASSUME NEW v \in Viewers, UndoEntry(v) PROVE AnnouncedInv'
  <2>1. UNCHANGED <<table, leaving, dropping, gets>> /\ \A w \in Viewers : w # v
            => enters'[w] = enters[w]
    BY <1>8, EntryAt DEF UndoEntry, EntryPlaces, TypesOK
  <2>2. CASE enters[v].at # "unannounced"
    <3>1. enters[v].at \in {"refused", "unpiped"} /\ enters'[v].at \in {"unpiped", "gone"}
              /\ UNCHANGED announced
      BY <1>8, <2>2, EntryAt DEF UndoEntry, EntryPlaces, TypesOK
    <3>2. \A w \in Viewers : SameEvents(w)
      BY <2>1, <3>1 DEF SameEvents, Committed, EntryOwes, LiveOwes, DepartureOwes, DropOwes, One
    <3> QED
      BY <3>2, AnnouncedKept
  <2>3. CASE enters[v].at = "unannounced"
    <3>1. enters'[v].at = "gone" /\ Announce(v, -1)
      BY <1>8, <2>3, EntryAt DEF UndoEntry, EntryPlaces, TypesOK
    <3>2. /\ announced[v] \in Int /\ announced'[v] = announced[v] - 1
          /\ \A w \in Viewers : w # v => announced'[w] = announced[w]
      BY <3>1 DEF Announce, TypesOK, ViewersOK
    <3>3. \A w \in Viewers : w # v => SameEvents(w)
      BY <2>1, <3>2 DEF SameEvents, Committed, EntryOwes, LiveOwes, DepartureOwes, DropOwes
    <3>4. EntryOwes(v) = 1 /\ EntryOwes(v)' = 0
      BY <2>3, <3>1 DEF EntryOwes, One
    <3>5. UNCHANGED <<LiveOwes(v), DepartureOwes(v), DropOwes(v), Committed(v)>>
      BY <2>1 DEF Committed, LiveOwes, DepartureOwes, DropOwes
    <3>6. LiveOwes(v) \in Nat /\ DepartureOwes(v) \in Nat /\ DropOwes(v) \in Nat
          /\ Cardinality(Committed(v)) \in Nat /\ Announced(v)
      BY <1>8, CommittedCount DEF LiveOwes, DepartureOwes, DropOwes, One, AnnouncedInv
    <3>7. Announced(v)'
      BY <3>2, <3>4, <3>5, <3>6 DEF Announced, EntryOwes, LiveOwes, DepartureOwes, DropOwes
    <3> QED
      BY <3>3, <3>7, AnnouncedButOne
  <2> QED
    BY <2>2, <2>3
<1>9. ASSUME NEW v \in Viewers, DepartIdle(v) PROVE AnnouncedInv'
  <2>1. UNCHANGED <<enters, dropping, gets, announced>> /\ Custody(v) /\ Announced(v)
    BY <1>9 DEF DepartIdle, CustodyInv, AnnouncedInv
  <2>2. table'[v].state # "active" /\ \A w \in Viewers : w # v => table'[w] = table[w]
    BY <1>9 DEF DepartIdle, TypesOK, TableOK, SessionRecords
  <2>8. Announced(v)' /\ \A w \in Viewers : w # v => SameEvents(w)
    BY <1>9, <2>1, <2>2, LeaveEvents DEF DepartIdle
  <2> QED
    BY <1>9, <2>8, AnnouncedButOne
<1>10. ASSUME NEW v \in Viewers, Forget(v) PROVE AnnouncedInv'
  <2>1. UNCHANGED <<enters, leaving, dropping, gets, announced>>
    BY <1>10 DEF Forget
  <2>2. /\ table[v].state \in {"departed", "stopped"} /\ table'[v].state = "none"
        /\ \A w \in Viewers : w # v => table'[w] = table[w]
    BY <1>10 DEF Forget, NoSession, TypesOK, TableOK
  <2>9. \A w \in Viewers : SameEvents(w)
    BY <2>1, <2>2 DEF SameEvents, Committed, EntryOwes, LiveOwes, DepartureOwes, DropOwes, One
  <2> QED
    BY <2>9, AnnouncedKept
<1>11. ASSUME NEW v \in Viewers, Leave(v) PROVE AnnouncedInv'
  <2>1. UNCHANGED <<enters, dropping, gets, announced>> /\ Custody(v) /\ Announced(v)
    BY <1>11 DEF Leave, CustodyInv, AnnouncedInv
  <2>2. table'[v].state # "active" /\ \A w \in Viewers : w # v => table'[w] = table[w]
    BY <1>11 DEF Leave, NoSession, TypesOK, TableOK, SessionRecords
  <2>8. Announced(v)' /\ \A w \in Viewers : w # v => SameEvents(w)
    BY <1>11, <2>1, <2>2, LeaveEvents DEF Leave
  <2> QED
    BY <1>11, <2>8, AnnouncedButOne
<1>12. ASSUME NEW v \in Viewers, EndClient(v) PROVE AnnouncedInv'
  <2>1. UNCHANGED <<enters, dropping, gets, announced>> /\ Custody(v) /\ Announced(v)
    BY <1>12 DEF EndClient, CustodyInv, AnnouncedInv
  <2>2. table'[v].state # "active" /\ \A w \in Viewers : w # v => table'[w] = table[w]
    BY <1>12 DEF EndClient, TypesOK, TableOK, SessionRecords
  <2>8. Announced(v)' /\ \A w \in Viewers : w # v => SameEvents(w)
    BY <1>12, <2>1, <2>2, LeaveEvents DEF EndClient
  <2> QED
    BY <1>12, <2>8, AnnouncedButOne
<1>13. ASSUME NEW v \in Viewers, RunDeparture(v) PROVE AnnouncedInv'
  <2>1. /\ UNCHANGED <<table, enters, dropping, gets>>
        /\ \A w \in Viewers : w # v => leaving'[w] = leaving[w]
    BY <1>13 DEF RunDeparture, TypesOK, LeavingOK
  <2>2. leaving'[v].at # "disconnect"
    <3>1. leaving[v] \in DepartureRecords
      BY <1>13 DEF TypesOK, LeavingOK
    <3> QED
      BY <1>13, <3>1 DEF RunDeparture, NoDeparture, TypesOK, LeavingOK, DepartureRecords
  <2>3. DepartureOwes(v)' = 0
    BY <2>2 DEF DepartureOwes, One
  <2>4. CASE leaving[v].at = "disconnect" /\ leaving[v].connected
    <3>1. Announce(v, -1)
      BY <1>13, <2>4 DEF RunDeparture
    <3>2. /\ announced[v] \in Int /\ announced'[v] = announced[v] - 1
          /\ \A w \in Viewers : w # v => announced'[w] = announced[w]
      BY <3>1 DEF Announce, TypesOK, ViewersOK
    <3>3. \A w \in Viewers : w # v => SameEvents(w)
      BY <2>1, <3>2 DEF SameEvents, Committed, EntryOwes, LiveOwes, DepartureOwes, DropOwes
    <3>4. DepartureOwes(v) = 1
      BY <2>4 DEF DepartureOwes, One
    <3>5. UNCHANGED <<LiveOwes(v), EntryOwes(v), DropOwes(v), Committed(v)>>
      BY <2>1 DEF Committed, LiveOwes, EntryOwes, DropOwes
    <3>6. LiveOwes(v) \in Nat /\ EntryOwes(v) \in Nat /\ DropOwes(v) \in Nat
          /\ Cardinality(Committed(v)) \in Nat /\ Announced(v)
      BY <1>13, CommittedCount DEF LiveOwes, EntryOwes, DropOwes, One, AnnouncedInv
    <3>7. Announced(v)'
      BY <2>3, <3>2, <3>4, <3>5, <3>6 DEF Announced, EntryOwes, LiveOwes, DepartureOwes, DropOwes
    <3> QED
      BY <1>13, <3>3, <3>7, AnnouncedButOne
  <2>5. CASE ~(leaving[v].at = "disconnect" /\ leaving[v].connected)
    <3>1. UNCHANGED announced
      BY <1>13, <2>5 DEF RunDeparture
    <3>2. DepartureOwes(v) = 0
      BY <2>5 DEF DepartureOwes, One
    <3>3. \A w \in Viewers : DepartureOwes(w)' = DepartureOwes(w)
      BY <2>1, <2>3, <3>2 DEF DepartureOwes
    <3>4. \A w \in Viewers : SameEvents(w)
      BY <2>1, <3>1, <3>3 DEF SameEvents, Committed, EntryOwes, LiveOwes, DropOwes
    <3> QED
      BY <3>4, AnnouncedKept
  <2> QED
    BY <2>4, <2>5
<1>14. ASSUME NEW v \in Viewers, Settle(v) PROVE AnnouncedInv'
  <2>1. UNCHANGED <<enters, dropping, gets, announced>>
    BY <1>14 DEF Settle
  <2>2. /\ leaving[v].at = "settle" /\ leaving'[v].at = "none"
        /\ \A w \in Viewers : w # v => leaving'[w] = leaving[w]
    BY <1>14 DEF Settle, NoDeparture, TypesOK, LeavingOK
  <2>3. /\ table'[v].state = table[v].state
        /\ \A w \in Viewers : w # v => table'[w] = table[w]
    BY <1>14 DEF Settle, SettleSession, TypesOK, TableOK, SessionRecords
  <2>9. \A w \in Viewers : SameEvents(w)
    BY <2>1, <2>2, <2>3 DEF SameEvents, Committed, EntryOwes, LiveOwes, DepartureOwes, DropOwes,
      One
  <2> QED
    BY <2>9, AnnouncedKept
<1>15. ASSUME NEW g \in Requests, End(g) PROVE AnnouncedInv'
  <2>1. /\ gets[g].at \in {"serving"} /\ gets'[g].at \in {"idle"}
        /\ \A h \in Requests : h # g => gets'[h] = gets[h]
    BY <1>15, RequestAt DEF End, RequestPlaces
  <2>2. UNCHANGED <<enters, leaving, dropping, announced>>
    BY <1>15 DEF End
  <2>3. \A w \in Viewers : Committed(w)' = Committed(w)
    BY <2>1 DEF Committed
  <2>4. \A w \in Viewers : table'[w].state = table[w].state
    <3>1. gets[g].viewer \in Viewers
      BY <1>15 DEF End, FitsInv, RequestFitsEntry
    <3> QED
      BY <1>15, <3>1 DEF End, TypesOK, TableOK, SessionRecords
  <2>9. \A w \in Viewers : SameEvents(w)
    BY <2>2, <2>3, <2>4 DEF SameEvents, EntryOwes, LiveOwes, DepartureOwes, DropOwes
  <2> QED
    BY <2>9, AnnouncedKept
<1>16. ASSUME NEW g \in Requests, ResumeClient(g) PROVE AnnouncedInv'
  <2>1. /\ gets[g].at \in {"found"} /\ gets'[g].at \in {"failed", "idle", "client"}
        /\ \A h \in Requests : h # g => gets'[h] = gets[h]
    BY <1>16, RequestAt DEF ResumeClient, RequestPlaces
  <2>2. UNCHANGED <<table, enters, leaving, dropping, announced>>
    BY <1>16 DEF ResumeClient
  <2>3. \A w \in Viewers : Committed(w)' = Committed(w)
    BY <2>1 DEF Committed
  <2>9. \A w \in Viewers : SameEvents(w)
    BY <2>2, <2>3 DEF SameEvents, EntryOwes, LiveOwes, DepartureOwes, DropOwes
  <2> QED
    BY <2>9, AnnouncedKept
<1>17. ASSUME NEW g \in Requests, ResumePipe(g) PROVE AnnouncedInv'
  <2>1. /\ gets[g].at \in {"client"} /\ gets'[g].at \in {"output", "undo"}
        /\ \A h \in Requests : h # g => gets'[h] = gets[h]
    BY <1>17, RequestAt DEF ResumePipe, RequestPlaces
  <2>2. UNCHANGED <<table, enters, leaving, dropping, announced>>
    BY <1>17 DEF ResumePipe
  <2>3. \A w \in Viewers : Committed(w)' = Committed(w)
    BY <2>1 DEF Committed
  <2>9. \A w \in Viewers : SameEvents(w)
    BY <2>2, <2>3 DEF SameEvents, EntryOwes, LiveOwes, DepartureOwes, DropOwes
  <2> QED
    BY <2>9, AnnouncedKept
<1>18. ASSUME NEW g \in Requests, CommitResume(g) PROVE AnnouncedInv'
  <2>0. PICK u \in Viewers : u = gets[g].viewer
    BY <1>18 DEF CommitResume, FitsInv, RequestFitsEntry
  <2>1. /\ gets[g].at = "output" /\ gets'[g].viewer = u
        /\ \A h \in Requests : h # g => gets'[h] = gets[h]
    BY <1>18, <2>0, RequestAt DEF CommitResume, RequestPlaces
  <2>2. UNCHANGED <<enters, leaving, dropping, announced>>
    BY <1>18 DEF CommitResume
  <2>3. \A w \in Viewers : w # u => table'[w] = table[w]
    BY <1>18, <2>0 DEF CommitResume, TypesOK, TableOK
  <2>4. \A w \in Viewers : w # u => Committed(w)' = Committed(w)
    BY <2>0, <2>1 DEF Committed
  <2>5. \A w \in Viewers : w # u => SameEvents(w)
    BY <2>2, <2>3, <2>4 DEF SameEvents, EntryOwes, LiveOwes, DepartureOwes, DropOwes
  <2>6. CASE ~Resumable(u)
    <3>1. gets'[g].at = "unpipe" /\ UNCHANGED table
      BY <1>18, <2>0, <2>6, RequestAt DEF CommitResume, RequestPlaces
    <3>2. Committed(u)' = Committed(u)
      BY <2>1, <3>1 DEF Committed
    <3>3. SameEvents(u)
      BY <2>2, <3>1, <3>2 DEF SameEvents, EntryOwes, LiveOwes, DepartureOwes, DropOwes
    <3>4. \A w \in Viewers : SameEvents(w)
      BY <2>5, <3>3
    <3> QED
      BY <3>4, AnnouncedKept
  <2>7. CASE Resumable(u)
    <3>1. gets'[g].at = "committed"
      BY <1>18, <2>0, <2>7, RequestAt DEF CommitResume, RequestPlaces
    <3>2. Committed(u)' = Committed(u) \cup {g} /\ g \notin Committed(u)
      BY <1>18, <2>1, <3>1 DEF Committed
    <3>3. Cardinality(Committed(u)') = Cardinality(Committed(u)) + 1
              /\ Cardinality(Committed(u)) \in Nat
      BY <3>2, CommittedCount, FS_AddElement
    <3>4. table'[u].state = "active" /\ table[u].state = "departed"
      <4>1. table' = [table EXCEPT ![u] = [@ EXCEPT !.state = "active", !.inFlight = 1,
                                                    !.connected = TRUE, !.holds = TRUE]]
        BY <1>18, <2>0, <2>7 DEF CommitResume
      <4> QED
        BY <2>7, <4>1 DEF TypesOK, TableOK, SessionRecords, Resumable
    <3>5. LiveOwes(u) = 0 /\ LiveOwes(u)' = 1
      BY <3>4 DEF LiveOwes, One
    <3>6. UNCHANGED <<EntryOwes(u), DepartureOwes(u), DropOwes(u), announced[u]>>
      BY <2>2 DEF EntryOwes, DepartureOwes, DropOwes
    <3>7. EntryOwes(u) \in Nat /\ DepartureOwes(u) \in Nat /\ DropOwes(u) \in Nat /\ Announced(u)
          /\ announced[u] \in Int
      BY DEF EntryOwes, DepartureOwes, DropOwes, One, AnnouncedInv, TypesOK, ViewersOK
    <3>8. Announced(u)'
      BY <3>3, <3>5, <3>6, <3>7 DEF Announced, EntryOwes, LiveOwes, DepartureOwes, DropOwes
    <3> QED
      BY <2>5, <3>8, AnnouncedButOne
  <2> QED
    BY <2>6, <2>7
<1>19. ASSUME NEW g \in Requests, ResumeConnect(g) PROVE AnnouncedInv'
  <2>0. PICK u \in Viewers : u = gets[g].viewer
    BY <1>19 DEF ResumeConnect, FitsInv, RequestFitsEntry
  <2>1. /\ gets[g].at = "committed" /\ gets'[g].at = "serving" /\ gets'[g].viewer = u
        /\ \A h \in Requests : h # g => gets'[h] = gets[h]
    BY <1>19, <2>0, RequestAt DEF ResumeConnect, RequestPlaces
  <2>2. UNCHANGED <<table, enters, leaving, dropping>>
    BY <1>19 DEF ResumeConnect
  <2>3. /\ announced[u] \in Int /\ announced'[u] = announced[u] + 1
        /\ \A w \in Viewers : w # u => announced'[w] = announced[w]
    BY <1>19, <2>0 DEF ResumeConnect, Announce, TypesOK, ViewersOK
  <2>4. \A w \in Viewers : w # u => Committed(w)' = Committed(w)
    BY <2>0, <2>1 DEF Committed
  <2>9. \A w \in Viewers : w # u => SameEvents(w)
    BY <2>2, <2>3, <2>4 DEF SameEvents, EntryOwes, LiveOwes, DepartureOwes, DropOwes
  <2>5. Committed(u)' = Committed(u) \ {g} /\ g \in Committed(u)
    BY <1>19, <2>0, <2>1 DEF Committed
  <2>6. /\ Cardinality(Committed(u)') = Cardinality(Committed(u)) - 1
        /\ Cardinality(Committed(u)) \in Nat
    BY <2>5, CommittedCount, FS_RemoveElement
  <2>7. UNCHANGED <<EntryOwes(u), LiveOwes(u), DepartureOwes(u), DropOwes(u)>>
    BY <2>2 DEF EntryOwes, LiveOwes, DepartureOwes, DropOwes
  <2>8. Announced(u)'
    <3>1. EntryOwes(u) \in Nat /\ LiveOwes(u) \in Nat /\ DepartureOwes(u) \in Nat
          /\ DropOwes(u) \in Nat /\ Announced(u)
      BY DEF EntryOwes, LiveOwes, DepartureOwes, DropOwes, One, AnnouncedInv
    <3> QED
      BY <2>3, <2>6, <2>7, <3>1 DEF Announced, EntryOwes, LiveOwes, DepartureOwes, DropOwes
  <2> QED
    BY <2>8, <2>9, AnnouncedButOne
<1>20. ASSUME NEW g \in Requests, UndoResume(g) PROVE AnnouncedInv'
  <2>1. /\ gets[g].at \in {"unpipe", "unclient", "undo"}
               /\ gets'[g].at \in {"unclient", "failed", "idle"}
        /\ \A h \in Requests : h # g => gets'[h] = gets[h]
    BY <1>20, RequestAt DEF UndoResume, RequestPlaces
  <2>2. UNCHANGED <<table, enters, leaving, dropping, announced>>
    BY <1>20 DEF UndoResume
  <2>3. \A w \in Viewers : Committed(w)' = Committed(w)
    BY <2>1 DEF Committed
  <2>9. \A w \in Viewers : SameEvents(w)
    BY <2>2, <2>3 DEF SameEvents, EntryOwes, LiveOwes, DepartureOwes, DropOwes
  <2> QED
    BY <2>9, AnnouncedKept
<1>21. ASSUME NEW g \in Requests, ResumeFailed(g) PROVE AnnouncedInv'
  <2>0. PICK u \in Viewers : u = gets[g].viewer
    BY <1>21 DEF ResumeFailed, FitsInv, RequestFitsEntry
  <2>1. /\ gets[g].at \in {"failed"} /\ gets'[g].at \in {"idle"}
        /\ \A h \in Requests : h # g => gets'[h] = gets[h]
    BY <1>21, RequestAt DEF ResumeFailed, RequestPlaces
  <2>2. UNCHANGED <<registry, announced, enters, leaving>>
    BY <1>21 DEF ResumeFailed
  <2>3. \A w \in Viewers : Committed(w)' = Committed(w)
    BY <2>1 DEF Committed
  <2>4. CASE MarkStopped({u}, "channel")
    BY <2>2, <2>3, <2>4, MarkedEvents
  <2>5. CASE UNCHANGED <<table, dropping>>
    <3>1. \A w \in Viewers : SameEvents(w)
      BY <2>2, <2>3, <2>5 DEF SameEvents, EntryOwes, LiveOwes, DepartureOwes, DropOwes
    <3> QED
      BY <3>1, AnnouncedKept
  <2> QED
    BY <1>21, <2>0, <2>4, <2>5 DEF ResumeFailed
<1>22. ASSUME NEW g \in Requests, NEW v \in Viewers, Begin(g, v) PROVE AnnouncedInv'
  <2>1. UNCHANGED <<enters, leaving, dropping, announced>>
    BY <1>22 DEF Begin
  <2>2. \A w \in Viewers : table'[w].state = table[w].state
    BY <1>22 DEF Begin, TypesOK, TableOK, SessionRecords
  <2>3. /\ gets[g].at = "idle" /\ gets'[g].at \in {"serving", "found"}
        /\ \A h \in Requests : h # g => gets'[h] = gets[h]
    BY <1>22 DEF Begin, TypesOK, GetsOK
  <2>4. \A w \in Viewers : Committed(w)' = Committed(w)
    BY <2>3 DEF Committed
  <2>9. \A w \in Viewers : SameEvents(w)
    BY <2>1, <2>2, <2>4 DEF SameEvents, EntryOwes, LiveOwes, DepartureOwes, DropOwes
  <2> QED
    BY <2>9, AnnouncedKept
<1>23. ASSUME NEW p \in Pipes, PipeGoes(p) PROVE AnnouncedInv'
  <2>1. UNCHANGED <<table, enters, leaving, dropping, gets, announced>>
    BY <1>23 DEF PipeGoes
  <2>9. \A w \in Viewers : SameEvents(w)
    BY <2>1 DEF SameEvents, Committed, EntryOwes, LiveOwes, DepartureOwes, DropOwes
  <2> QED
    BY <2>9, AnnouncedKept
<1>24. ASSUME NEW p \in Pipes, Watch(p) PROVE AnnouncedInv'
  <2>1. UNCHANGED <<registry, announced, enters, leaving>>
            /\ \A w \in Viewers : Committed(w)' = Committed(w)
    BY <1>24 DEF Watch, Committed
  <2>2. CASE MarkStopped({v \in Viewers : table[v].plays = p}, "output")
    BY <2>1, <2>2, MarkedEvents
  <2>3. CASE UNCHANGED <<table, dropping>>
    <3>1. \A w \in Viewers : SameEvents(w)
      BY <2>1, <2>3 DEF SameEvents, EntryOwes, LiveOwes, DepartureOwes, DropOwes
    <3> QED
      BY <3>1, AnnouncedKept
  <2> QED
    BY <1>24, <2>2, <2>3 DEF Watch
<1>25. ASSUME LingerEnds PROVE AnnouncedInv'
  <2>1. UNCHANGED <<table, enters, leaving, dropping, gets, announced>>
    BY <1>25 DEF LingerEnds
  <2>9. \A w \in Viewers : SameEvents(w)
    BY <2>1 DEF SameEvents, Committed, EntryOwes, LiveOwes, DepartureOwes, DropOwes
  <2> QED
    BY <2>9, AnnouncedKept
<1>26. ASSUME Boundary PROVE AnnouncedInv'
  <2>1. UNCHANGED <<table, enters, leaving, dropping, gets, announced>>
    BY <1>26 DEF Boundary
  <2>9. \A w \in Viewers : SameEvents(w)
    BY <2>1 DEF SameEvents, Committed, EntryOwes, LiveOwes, DepartureOwes, DropOwes
  <2> QED
    BY <2>9, AnnouncedKept
<1>27. ASSUME StopChannel PROVE AnnouncedInv'
  <2>1. UNCHANGED <<registry, announced, enters, leaving>>
            /\ \A w \in Viewers : Committed(w)' = Committed(w)
    BY <1>27 DEF StopChannel, Committed
  <2> QED
    BY <1>27, <2>1, MarkedEvents DEF StopChannel
<1>28. ASSUME DropStopped PROVE AnnouncedInv'
  <2>1. PICK d \in dropping :
          /\ dropping' = dropping \ {d}
          /\ IF d[1] \in registry /\ d[2] THEN Announce(d[1], -1) ELSE UNCHANGED announced
    BY <1>28 DEF DropStopped, DropsStopped
  <2>2. PICK v \in Viewers, b \in BOOLEAN : d = <<v, b>>
    BY DEF TypesOK, ViewersOK
  <2>3. UNCHANGED <<table, enters, leaving, gets>>
    BY <1>28 DEF DropStopped
  <2>4. v \in registry /\ <<v, b>> \in dropping
    BY <2>1, <2>2 DEF CustodyInv, Custody, DropKeeps
  <2>5. \A w \in Viewers : EntryOwes(w)' = EntryOwes(w) /\ LiveOwes(w)' = LiveOwes(w)
                        /\ DepartureOwes(w)' = DepartureOwes(w) /\ Committed(w)' = Committed(w)
    BY <2>3 DEF EntryOwes, LiveOwes, DepartureOwes, Committed
  <2>6. CASE b = FALSE
    <3>1. UNCHANGED announced /\ \A w \in Viewers : <<w, TRUE>> \in dropping'
              <=> <<w, TRUE>> \in dropping
      BY <2>1, <2>2, <2>6
    <3>2. \A w \in Viewers : SameEvents(w)
      BY <2>5, <3>1 DEF SameEvents, DropOwes, One
    <3> QED
      BY <3>2, AnnouncedKept
  <2>7. CASE b = TRUE
    <3>1. Announce(v, -1)
      BY <2>1, <2>2, <2>4, <2>7
    <3>2. /\ announced[v] \in Int /\ announced'[v] = announced[v] - 1
          /\ \A w \in Viewers : w # v => announced'[w] = announced[w]
      BY <3>1 DEF Announce, TypesOK, ViewersOK
    <3>3. \A w \in Viewers : w # v => SameEvents(w)
      <4>1. \A w \in Viewers : w # v => (<<w, TRUE>> \in dropping' <=> <<w, TRUE>> \in dropping)
        BY <2>1, <2>2
      <4> QED
        BY <2>5, <3>2, <4>1 DEF SameEvents, DropOwes, One
    <3>4. DropOwes(v) = 1 /\ DropOwes(v)' = 0
      BY <2>1, <2>2, <2>4, <2>7 DEF DropOwes, One
    <3>5. EntryOwes(v) \in Nat /\ LiveOwes(v) \in Nat /\ DepartureOwes(v) \in Nat
          /\ Cardinality(Committed(v)) \in Nat /\ Announced(v)
      BY CommittedCount DEF EntryOwes, LiveOwes, DepartureOwes, One, AnnouncedInv
    <3>6. Announced(v)'
      BY <2>5, <3>2, <3>4, <3>5 DEF Announced, EntryOwes, LiveOwes, DepartureOwes, DropOwes
    <3> QED
      BY <3>3, <3>6, AnnouncedButOne
  <2> QED
    BY <2>6, <2>7
<1>29. ASSUME Unlist PROVE AnnouncedInv'
  <2>1. UNCHANGED <<table, enters, leaving, dropping, gets, announced>>
    BY <1>29 DEF Unlist
  <2>9. \A w \in Viewers : SameEvents(w)
    BY <2>1 DEF SameEvents, Committed, EntryOwes, LiveOwes, DepartureOwes, DropOwes
  <2> QED
    BY <2>9, AnnouncedKept
<1>30. ASSUME OutputsStop PROVE AnnouncedInv'
  <2>1. UNCHANGED <<table, enters, leaving, dropping, gets, announced>>
    BY <1>30 DEF OutputsStop
  <2>9. \A w \in Viewers : SameEvents(w)
    BY <2>1 DEF SameEvents, Committed, EntryOwes, LiveOwes, DepartureOwes, DropOwes
  <2> QED
    BY <2>9, AnnouncedKept
<1>31. ASSUME RingCloses PROVE AnnouncedInv'
  <2>1. UNCHANGED <<table, enters, leaving, dropping, gets, announced>>
    BY <1>31 DEF RingCloses
  <2>9. \A w \in Viewers : SameEvents(w)
    BY <2>1 DEF SameEvents, Committed, EntryOwes, LiveOwes, DepartureOwes, DropOwes
  <2> QED
    BY <2>9, AnnouncedKept
<1> QED
  BY <1>1, <1>2, <1>3, <1>4, <1>5, <1>6, <1>7, <1>8, <1>9, <1>10, <1>11, <1>12, <1>13, <1>14,
    <1>15, <1>16, <1>17, <1>18, <1>19, <1>20, <1>21, <1>22, <1>23, <1>24, <1>25, <1>26, <1>27,
    <1>28, <1>29, <1>30, <1>31
  DEF SessNext, EntryStep, DepartureStep, RequestStep, PipelineStep, MarkStep, ChannelEndStep

----------------------------------------------------------------------------

\* The initial state has the types, and nobody anywhere.
LEMMA InitTypes == SessInit => TypesOK /\ FitsInv
<1> SUFFICES ASSUME SessInit PROVE TypesOK /\ FitsInv
  OBVIOUS
<1> USE HlsSessionsAssumption DEF HlsSessionsAssumption, SessInit
<1>1. PipesOK /\ ViewersOK
  <2>1. phaseOf \in [Pipes -> {"none", "live", "stopping", "failing", "failed", "marked",
            "ended"}]
    BY Zenon
  <2>2. announced \in [Viewers -> Int]
    OBVIOUS
  <2>3. failedMark \in BOOLEAN /\ readied \subseteq Pipes /\ registry \subseteq Viewers
    BY Zenon
  <2>4. dropping \subseteq Viewers \X BOOLEAN
    BY Zenon
  <2>5. pipeline = 0 /\ lingering = 0 /\ started = 0 /\ sessionRefs \in Int
    OBVIOUS
  <2>6. pipeline \in {0} \cup Pipes /\ lingering \in {0} \cup Pipes /\ started \in {0} \cup Pipes
    BY <2>5, Zenon
  <2> QED
    BY <2>1, <2>2, <2>3, <2>4, <2>5, <2>6, Zenon DEF PipesOK, ViewersOK
<1>5. ChannelOK
  <2>1. toSweep = 0 /\ listed /\ runAt = "running"
    OBVIOUS
  <2>2. SweepsOwed /\ toSweep \in Nat /\ runAt \in {"running", "stopped", "closed"}
    BY <2>1 DEF SweepsOwed
  <2>3. listed \in BOOLEAN /\ swept \in BOOLEAN
    BY Zenon
  <2> QED
    BY <2>2, <2>3 DEF ChannelOK
<1>2. TableOK /\ LeavingOK
  BY DEF TableOK, SessionRecords, NoSession, LeavingOK, DepartureRecords, NoDeparture
<1>3. EntersOK /\ GetsOK
  BY DEF EntersOK, EntryRecords, GetsOK, RequestRecords, NoRequest
<1>4. FitsInv
  BY DEF FitsInv, SessionFitsEntry, DepartureFits, RequestFitsEntry, NoSession, NoDeparture,
    NoRequest
<1> QED
  BY <1>1, <1>2, <1>3, <1>4, <1>5 DEF TypesOK

\* Nobody is registered at first.
LEMMA InitCustody == SessInit => CustodyInv
BY DEF SessInit, CustodyInv, Custody, EntryKeeps, DepartureKeeps, ResumeKeeps, DropKeeps,
       NoSession, NoDeparture, NoRequest

\* Nobody is announced at first.
LEMMA InitAnnounced == SessInit => AnnouncedInv
<1> SUFFICES ASSUME SessInit, NEW v \in Viewers PROVE Announced(v)
  BY DEF AnnouncedInv
<1>1. Committed(v) = {}
  BY DEF SessInit, Committed, NoRequest
<1>2. Cardinality(Committed(v)) = 0
  BY <1>1, FS_EmptySet
<1> QED
  BY <1>2 DEF Announced, SessInit, One, NoSession, NoDeparture

SessCustodyInv == TypesOK /\ FitsInv /\ CustodyInv /\ AnnouncedInv

\* A stuttering step keeps it.
LEMMA CustodyStutters == SessCustodyInv /\ UNCHANGED sessVars => SessCustodyInv'
<1> SUFFICES ASSUME SessCustodyInv, UNCHANGED sessVars PROVE SessCustodyInv'
  OBVIOUS
<1> USE DEF sessVars, pipeVars, hlsRegistryVars, channelVars
<1>1. TypesOK'
  BY DEF SessCustodyInv, TypesOK, PipesOK, ChannelOK, ViewersOK, TableOK, EntersOK, LeavingOK,
         GetsOK, SweepsOwed
<1>2. FitsInv'
  BY DEF SessCustodyInv, FitsInv, SessionFitsEntry, DepartureFits, RequestFitsEntry
<1>3. CustodyInv'
  <2>1. \A w \in Viewers : SameFor(w)
    BY DEF SameFor, SameEntry, SameSession, SameDeparture, SameDrops, SameResumes, EntryKeeps,
           DepartureKeeps, ResumeKeeps
  <2> QED
    BY <2>1, CustodyKept DEF SessCustodyInv
<1>4. AnnouncedInv'
  <2>1. \A w \in Viewers : SameEvents(w)
    BY DEF SameEvents, EntryOwes, LiveOwes, DepartureOwes, DropOwes, Committed
  <2> QED
    BY <2>1, AnnouncedKept DEF SessCustodyInv
<1> QED
  BY <1>1, <1>2, <1>3, <1>4 DEF SessCustodyInv

\* The invariant of the session table: types, fit, custody and accounts.
THEOREM CustodyHolds == SessSpec => []SessCustodyInv
<1>1. SessInit => SessCustodyInv
  BY InitTypes, InitCustody, InitAnnounced DEF SessCustodyInv
<1>2. SessCustodyInv /\ [SessNext]_sessVars => SessCustodyInv'
  <2>1. ASSUME SessCustodyInv, SessNext PROVE SessCustodyInv'
    <3>1. TypesOK'
      BY <2>1, StepTypes DEF SessCustodyInv
    <3>2. FitsInv'
      BY <2>1, <3>1, StepFits DEF SessCustodyInv
    <3>3. CustodyInv'
      BY <2>1, StepCustody DEF SessCustodyInv
    <3>4. AnnouncedInv'
      BY <2>1, StepEvents DEF SessCustodyInv
    <3> QED
      BY <3>1, <3>2, <3>3, <3>4 DEF SessCustodyInv
  <2> QED
    BY <2>1, CustodyStutters
<1> QED
  BY <1>1, <1>2, PTL DEF SessSpec

\* ClientsAreHeld: a registered client, which keeps its channel alive, always has
\* somebody who will drop it, and a session that holds its releases has its
\* client registered (Custody; table.go, hlsoutput.go).
THEOREM ClientsHeld == SessSpec => []ClientsAreHeld
<1>1. SessCustodyInv => ClientsAreHeld
  <2> SUFFICES ASSUME SessCustodyInv, NEW v \in Viewers
      PROVE  (v \in registry => WillDrop(v)) /\ (table[v].holds => v \in registry)
    BY DEF ClientsAreHeld
  <2>1. Custody(v)
    BY DEF SessCustodyInv, CustodyInv
  <2>2. DropKeeps(v) => v \in {d[1] : d \in dropping}
    BY DEF DropKeeps
  <2>3. ASSUME NEW g \in Requests, ResumeKeeps(g, v)
        PROVE  gets[g] \in [at : {"client", "output", "unpipe", "unclient", "undo"}, viewer : {v},
                            pipe : {0} \cup Pipes]
    BY <2>3 DEF ResumeKeeps, SessCustodyInv, TypesOK, GetsOK, RequestRecords
  <2> QED
    BY <2>1, <2>2, <2>3 DEF Custody, WillDrop, EntryKeeps, DepartureKeeps
<1> QED
  BY <1>1, CustodyHolds, PTL

\* ConnectsAreClosed: with nothing in progress for a viewer, it has one
\* client_connect more than client_disconnects if its session is live, and
\* otherwise as many (Announced; hls.go).
THEOREM ConnectsClosed == SessSpec => []ConnectsAreClosed
<1>1. SessCustodyInv => ConnectsAreClosed
  <2> SUFFICES ASSUME SessCustodyInv, NEW v \in Viewers, ~InProgress(v)
      PROVE  announced[v] = IF table[v].state = "active" THEN 1 ELSE 0
    BY DEF ConnectsAreClosed
  <2>1. Committed(v) = {}
    BY DEF InProgress, Committed
  <2>2. Cardinality(Committed(v)) = 0
    BY <2>1, FS_EmptySet
  <2>3. <<v, TRUE>> \notin dropping
    BY DEF InProgress
  <2>4. announced[v] \in Int /\ Announced(v)
    BY DEF SessCustodyInv, TypesOK, ViewersOK, AnnouncedInv
  <2>5. enters[v].at \notin {"announced", "unannounced"} /\ leaving[v].at = "none"
    BY DEF InProgress
  <2> QED
    BY <2>2, <2>3, <2>4, <2>5 DEF Announced, One
<1> QED
  BY <1>1, CustodyHolds, PTL

----------------------------------------------------------------------------
\* Whatever a step does, a stopped session stands as it ended, or is forgotten.
EndStands(v) ==
  table[v].state = "stopped" => \/ table'[v] = NoSession
                                \/ table'[v].state = "stopped" /\ table'[v].ended = table[v].ended
EndsStand == \A v \in Viewers : EndStands(v)

\* A step that writes one session that has not been stopped, or writes it
\* without touching its state and reason, leaves the stopped ones stopped.
LEMMA StandsButOne ==
  ASSUME TableOK, NEW v \in Viewers, NEW r, table' = [table EXCEPT ![v] = r],
         table[v].state = "stopped" => \/ r = NoSession
                                       \/ r.state = "stopped" /\ r.ended = table[v].ended
  PROVE  EndsStand
<1>1. table'[v] = r /\ \A w \in Viewers : w # v => table'[w] = table[w]
  BY DEF TableOK
<1> QED
  BY <1>1 DEF EndsStand, EndStands

\* A later mark leaves the stopped ones stopped.
LEMMA StandsMarked ==
  ASSUME TableOK, ViewersOK, NEW V \in SUBSET Viewers,
         NEW why \in {"client", "channel", "output"},
         MarkStopped(V, why), UNCHANGED <<registry, announced>>
  PROVE  EndsStand
<1>1. \A w \in Viewers : table[w].state = "stopped" => table'[w] = table[w]
  BY Marking DEF MarkedBy
<1> QED
  BY <1>1 DEF EndsStand, EndStands

\* Every step leaves a stopped session as it ended, or forgets it.
LEMMA StoppedStands ==
  ASSUME TypesOK, FitsInv, SessNext
  PROVE  EndsStand
<1>0. TableOK /\ ViewersOK /\ \A w \in Viewers : table[w] \in SessionRecords
  BY DEF TypesOK, TableOK
<1>1. ASSUME UNCHANGED table PROVE EndsStand
  BY <1>1 DEF EndsStand, EndStands
<1>2. ASSUME NEW v \in Viewers, NEW otherwise, Abandon(v, otherwise) PROVE EndsStand
  BY <1>0, <1>2, StandsButOne DEF Abandon
<1>3. ASSUME NEW v \in Viewers, EntryStep(v) PROVE EndsStand
  <2>1. ASSUME Add(v) PROVE EndsStand
    <3>1. enters[v].at = "piped" /\ \E r : table' = [table EXCEPT ![v] = r]
      BY <2>1 DEF Add
    <3>2. table[v].state = "none"
      BY <3>1 DEF FitsInv, SessionFitsEntry
    <3> QED
      BY <1>0, <3>1, <3>2, StandsButOne
  <2>2. ASSUME ActivateSession(v) PROVE EndsStand
    <3>1. CASE table[v].state = "arrived"
      <4>1. \E r : table' = [table EXCEPT ![v] = r]
        BY <2>2, <3>1 DEF ActivateSession
      <4> QED
        BY <1>0, <3>1, <4>1, StandsButOne
    <3> QED
      BY <2>2, <3>1, <1>2 DEF ActivateSession
  <2> QED
    BY <1>1, <1>2, <1>3, <2>1, <2>2
    DEF EntryStep, Enter, AttachPipe, ReCheck, WaitReady, Connect, UndoEntry
<1>4. ASSUME NEW v \in Viewers, DepartureStep(v) PROVE EndsStand
  <2>1. ASSUME DepartIdle(v) \/ EndClient(v) PROVE EndsStand
    <3>1. table[v].state # "stopped" /\ \E r : table' = [table EXCEPT ![v] = r]
      BY <2>1 DEF DepartIdle, EndClient
    <3> QED
      BY <1>0, <3>1, StandsButOne
  <2>2. ASSUME Forget(v) \/ Leave(v) PROVE EndsStand
    BY <1>0, <2>2, StandsButOne DEF Forget, Leave
  <2>3. ASSUME Settle(v) PROVE EndsStand
    <3>1. table' = [table EXCEPT ![v] = [table[v] EXCEPT !.settling = FALSE]]
      BY <2>3 DEF Settle, SettleSession
    <3>2. /\ [table[v] EXCEPT !.settling = FALSE].state = table[v].state
          /\ [table[v] EXCEPT !.settling = FALSE].ended = table[v].ended
      BY <1>0 DEF SessionRecords
    <3> QED
      BY <1>0, <3>1, <3>2, StandsButOne
  <2> QED
    BY <1>1, <1>4, <2>1, <2>2, <2>3 DEF DepartureStep, RunDeparture
<1>5. ASSUME NEW g \in Requests, RequestStep(g) PROVE EndsStand
  <2>1. ASSUME NEW v \in Viewers, Begin(g, v) PROVE EndsStand
    <3>1. CASE UNCHANGED table
      BY <1>1, <3>1
    <3>2. CASE table[v].state = "active" /\ table' = [table EXCEPT ![v].inFlight = @ + 1]
      BY <1>0, <3>2, StandsButOne
    <3> QED
      BY <2>1, <3>1, <3>2 DEF Begin
  <2>2. ASSUME End(g) PROVE EndsStand
    <3>1. gets[g].viewer \in Viewers
      BY <2>2 DEF End, FitsInv, RequestFitsEntry
    <3>2. PICK u \in Viewers : u = gets[g].viewer
      BY <3>1
    <3>3. table' = [table EXCEPT ![u] = [table[u] EXCEPT !.inFlight = IF table[u].inFlight > 0
                                                                      THEN table[u].inFlight - 1
                                                                      ELSE table[u].inFlight]]
      BY <2>2, <3>2 DEF End
    <3>4. PICK n : table' = [table EXCEPT ![u] = [table[u] EXCEPT !.inFlight = n]]
      BY <3>3
    <3>5. /\ [table[u] EXCEPT !.inFlight = n].state = table[u].state
          /\ [table[u] EXCEPT !.inFlight = n].ended = table[u].ended
      BY <1>0 DEF SessionRecords
    <3> QED
      BY <1>0, <3>4, <3>5, StandsButOne
  <2>3. ASSUME CommitResume(g) PROVE EndsStand
    <3>1. gets[g].viewer \in Viewers
      BY <2>3 DEF CommitResume, FitsInv, RequestFitsEntry
    <3>2. PICK u \in Viewers : u = gets[g].viewer
      BY <3>1
    <3>3. CASE Resumable(u)
      <4>1. table[u].state # "stopped" /\ \E r : table' = [table EXCEPT ![u] = r]
        BY <2>3, <3>2, <3>3 DEF CommitResume, Resumable
      <4> QED
        BY <1>0, <4>1, StandsButOne
    <3> QED
      BY <2>3, <3>2, <3>3, <1>1 DEF CommitResume
  <2>4. ASSUME ResumeFailed(g) PROVE EndsStand
    <3>1. gets[g].viewer \in Viewers
      BY <2>4 DEF ResumeFailed, FitsInv, RequestFitsEntry
    <3>2. {gets[g].viewer} \in SUBSET Viewers
      BY <3>1
    <3> QED
      BY <1>0, <1>1, <2>4, <3>2, StandsMarked DEF ResumeFailed
  <2> QED
    BY <1>1, <1>5, <2>1, <2>2, <2>3, <2>4
    DEF RequestStep, ResumeClient, ResumePipe, ResumeConnect, UndoResume
<1>6. ASSUME MarkStep PROVE EndsStand
  <2>1. ASSUME NEW p \in Pipes, Watch(p) PROVE EndsStand
    BY <1>0, <1>1, <2>1, StandsMarked DEF Watch
  <2>2. ASSUME StopChannel PROVE EndsStand
    BY <1>0, <2>2, StandsMarked DEF StopChannel
  <2> QED
    BY <1>1, <1>6, <2>1, <2>2 DEF MarkStep, DropStopped
<1>7. ASSUME PipelineStep \/ ChannelEndStep PROVE EndsStand
  BY <1>1, <1>7
  DEF PipelineStep, ChannelEndStep, PipeGoes, LingerEnds, Boundary, Unlist, OutputsStop,
  RingCloses
<1> QED
  BY <1>3, <1>4, <1>5, <1>6, <1>7 DEF SessNext

\* StoppedIsFinal: a session that was ended under its viewer stays ended, for the
\* first reason, until it is forgotten (table.go).
THEOREM StoppedStaysStopped == SessSpec => StoppedIsFinal
<1>1. SessCustodyInv /\ [SessNext]_sessVars =>
        [\A v \in Viewers : table[v].state = "stopped"
           => \/ table'[v] = NoSession
              \/ table'[v].state = "stopped" /\ table'[v].ended = table[v].ended]_sessVars
  BY StoppedStands DEF SessCustodyInv, EndsStand, EndStands
<1> QED
  BY <1>1, CustodyHolds, PTL DEF SessSpec, StoppedIsFinal

\* MarkExcludesPipeline: the failure mark and a registered pipeline exclude each
\* other (hlsoutput.go); inductive as it stands.
THEOREM MarkAndPipelineExclude == SessSpec => []MarkExcludesPipeline
<1>1. SessInit => MarkExcludesPipeline
  BY DEF SessInit, MarkExcludesPipeline
<1>2. MarkExcludesPipeline /\ [SessNext]_sessVars => MarkExcludesPipeline'
  <2> SUFFICES ASSUME MarkExcludesPipeline, [SessNext]_sessVars PROVE MarkExcludesPipeline'
    OBVIOUS
  <2>1. ASSUME NEW p, ReleasePipe(p) PROVE MarkExcludesPipeline'
    <3>1. UNCHANGED failedMark /\ (UNCHANGED pipeline \/ pipeline' = 0)
      BY <2>1, Zenon DEF ReleasePipe, CountOut, pipeVars, hlsRegistryVars
    <3> QED
      BY <3>1 DEF MarkExcludesPipeline
  <2>2. ASSUME NEW p, FailHLS(p) PROVE MarkExcludesPipeline'
    BY <2>2 DEF FailHLS, Unregister, MarkExcludesPipeline, hlsRegistryVars
  <2>3. ASSUME UNCHANGED hlsRegistryVars PROVE MarkExcludesPipeline'
    BY <2>3 DEF MarkExcludesPipeline, hlsRegistryVars
  <2>4. ASSUME NEW v \in Viewers, AttachPipe(v) PROVE MarkExcludesPipeline'
    BY <2>4, <2>3 DEF AttachPipe, Join, StartPipe, MarkExcludesPipeline, pipeVars
  <2>5. ASSUME NEW v \in Viewers, EntryStep(v) PROVE MarkExcludesPipeline'
    BY <2>5, <2>1, <2>2, <2>3, <2>4
    DEF EntryStep, Enter, Add, ReCheck, WaitReady, Connect, ActivateSession, UndoEntry, pipeVars
  <2>6. ASSUME NEW v \in Viewers, DepartureStep(v) PROVE MarkExcludesPipeline'
    BY <2>6, <2>1, <2>3
    DEF DepartureStep, DepartIdle, Forget, Leave, EndClient, RunDeparture, Settle, pipeVars
  <2>7. ASSUME NEW g \in Requests, RequestStep(g) PROVE MarkExcludesPipeline'
    <3>1. ASSUME ResumePipe(g) PROVE MarkExcludesPipeline'
      BY <3>1, <2>3 DEF ResumePipe, Join, MarkExcludesPipeline, pipeVars
    <3> QED
      BY <2>7, <3>1, <2>1, <2>3
      DEF RequestStep, Begin, End, ResumeClient, CommitResume, ResumeConnect, UndoResume,
          ResumeFailed, pipeVars
  <2>8. ASSUME PipelineStep PROVE MarkExcludesPipeline'
    <3>1. ASSUME LingerEnds PROVE MarkExcludesPipeline'
      BY <3>1 DEF LingerEnds, MarkExcludesPipeline
    <3>2. ASSUME Boundary PROVE MarkExcludesPipeline'
      BY <3>2 DEF Boundary, MarkExcludesPipeline
    <3> QED
      BY <2>8, <3>1, <3>2, <2>3 DEF PipelineStep, PipeGoes
  <2>9. ASSUME MarkStep PROVE MarkExcludesPipeline'
    BY <2>9, <2>2, <2>3 DEF MarkStep, Watch, StopChannel, DropStopped, pipeVars
  <2>10. ASSUME ChannelEndStep PROVE MarkExcludesPipeline'
    BY <2>10, <2>3 DEF ChannelEndStep, Unlist, OutputsStop, RingCloses, MarkExcludesPipeline,
      pipeVars
  <2>11. ASSUME UNCHANGED sessVars PROVE MarkExcludesPipeline'
    BY <2>11, <2>3 DEF sessVars, pipeVars
  <2> QED
    BY <2>5, <2>6, <2>7, <2>8, <2>9, <2>10, <2>11 DEF SessNext
<1> QED
  BY <1>1, <1>2, PTL DEF SessSpec
----------------------------------------------------------------------------
(* The count of the sessions on the pipeline. *)

\* The registered pipeline has not been stopped.
PipePhase == pipeline # 0 => phaseOf[pipeline] \in {"live", "failing", "failed"}

\* Pipelines are numbered as they start: no number in use is past the last.
PipesStarted ==
  /\ pipeline <= started
  /\ \A v \in Viewers :
       enters[v].pipe <= started /\ table[v].plays <= started /\ leaving[v].pipe <= started
  /\ \A g \in Requests : gets[g].pipe <= started

\* Where a pipeline's number can be copied from.
PipesCopied ==
  /\ \A w \in Viewers : /\ enters'[w].pipe \in {0, enters[w].pipe, pipeline'}
                        /\ table'[w].plays \in {0, table[w].plays, enters[w].pipe}
                        /\ leaving'[w].pipe \in {0, leaving[w].pipe, table[w].plays}
  /\ \A h \in Requests : gets'[h].pipe \in {0, gets[h].pipe} \cup {table[w].plays : w \in Viewers}

\* Pipeline numbers that are only copied stay among those started.
LEMMA PipesStartedNext ==
  ASSUME TypesOK, TypesOK', PipesStarted, PipesCopied, started <= started', pipeline' <= started'
  PROVE  PipesStarted'
<1>1. started \in Nat /\ started' \in Nat /\ pipeline' \in Nat
  BY DEF TypesOK, PipesOK, Pipes
<1>2. ASSUME NEW w \in Viewers
      PROVE  enters'[w].pipe <= started' /\ table'[w].plays <= started'
          /\ leaving'[w].pipe <= started'
  <2>1. enters[w].pipe \in Nat /\ table[w].plays \in Nat /\ leaving[w].pipe \in Nat
    BY DEF TypesOK, EntersOK, EntryRecords, TableOK, SessionRecords, LeavingOK, DepartureRecords,
      Pipes
  <2> QED
    BY <1>1, <2>1 DEF PipesStarted, PipesCopied
<1>3. ASSUME NEW h \in Requests PROVE gets'[h].pipe <= started'
  <2>1. gets[h].pipe \in Nat /\ \A w \in Viewers : table[w].plays \in Nat
    BY DEF TypesOK, GetsOK, RequestRecords, TableOK, SessionRecords, Pipes
  <2> QED
    BY <1>1, <2>1 DEF PipesStarted, PipesCopied
<1> QED
  BY <1>2, <1>3 DEF PipesStarted

\* EntryGoes forgets a pipeline or keeps it.
LEMMA EntryPipe ==
  ASSUME TypesOK, NEW v \in Viewers, NEW place \in EntryPlaces, EntryGoes(v, place)
  PROVE  \A w \in Viewers : enters'[w].pipe \in {0, enters[w].pipe}
<1>1. EntersOK
  BY DEF TypesOK
<1>2. /\ enters'[v] = [at |-> place, pipe |-> IF place \in {"in",
             "gone"} THEN 0 ELSE enters[v].pipe]
      /\ \A w \in Viewers : w # v => enters'[w] = enters[w]
  BY <1>1, EntryGoesTo
<1>3. enters'[v].pipe \in {0, enters[v].pipe}
  BY <1>2
<1> QED
  BY <1>2, <1>3

\* Table.Abandon invents no pipeline.
LEMMA AbandonPipes ==
  ASSUME TypesOK, NEW v \in Viewers, NEW otherwise \in {"gone", "unannounced"},
         Abandon(v, otherwise)
  PROVE  \A w \in Viewers : enters'[w].pipe \in {0, enters[w].pipe}
      /\ table'[w].plays \in {0, table[w].plays}
<1> DEFINE place == IF table[v].holds THEN "refused" ELSE otherwise
<1>1. place \in EntryPlaces /\ EntryGoes(v, place)
  BY DEF EntryPlaces, Abandon
<1>2. \A w \in Viewers : enters'[w].pipe \in {0, enters[w].pipe}
  <2> HIDE DEF place
  <2> QED BY <1>1, EntryPipe
<1>3. table'[v] = NoSession /\ \A w \in Viewers : w # v => table'[w] = table[w]
  BY AbandonTo DEF TypesOK
<1> QED
  BY <1>2, <1>3 DEF NoSession

\* RequestGoes forgets a pipeline or keeps it.
LEMMA RequestPipe ==
  ASSUME TypesOK, NEW g \in Requests, NEW place \in RequestPlaces, RequestGoes(g, place)
  PROVE  \A h \in Requests : gets'[h].pipe \in {0, gets[h].pipe}
<1>1. GetsOK /\ gets[g] \in RequestRecords
  BY DEF TypesOK, GetsOK
<1>2. /\ gets'[g] = IF place = "idle" THEN NoRequest ELSE [gets[g] EXCEPT !.at = place]
      /\ \A h \in Requests : h # g => gets'[h] = gets[h]
  BY <1>1, RequestGoesTo
<1>3. gets'[g].pipe \in {0, gets[g].pipe}
  BY <1>1, <1>2 DEF NoRequest, RequestRecords
<1> QED
  BY <1>2, <1>3

\* hlsRelease leaves a registered pipeline in its phase, or none registered.
LEMMA ReleasePhase ==
  ASSUME TypesOK, PipePhase, pipeline <= started, NEW p \in {0} \cup Pipes, ReleasePipe(p)
  PROVE  PipePhase' /\ started <= started' /\ pipeline' <= started'
<1>1. started \in Nat
  BY DEF TypesOK, PipesOK, Pipes
<1>2. UNCHANGED started /\ (pipeline' = 0 \/ UNCHANGED <<pipeline, phaseOf>>)
  <2>1. CASE pipeline # p
    BY <2>1 DEF ReleasePipe, pipeVars, hlsRegistryVars
  <2>2. CASE pipeline = p
    <3>1. UNCHANGED started
      BY <2>2 DEF ReleasePipe, CountOut
    <3>2. \/ UNCHANGED <<pipeline, lingering, phaseOf>>
          \/ (lingering' = p /\ UNCHANGED <<pipeline, phaseOf>>)
          \/ (pipeline' = 0 /\ StopPipe(p) /\ UNCHANGED lingering)
      BY <2>2, Zenon DEF ReleasePipe, CountOut
    <3> QED
      BY <3>1, <3>2
  <2> QED
    BY <2>1, <2>2
<1> QED
  BY <1>1, <1>2 DEF PipePhase

\* FailHLS leaves no failed pipeline registered.
LEMMA FailPhase ==
  ASSUME TypesOK, PipePhase,
         pipeline <= started, NEW p \in {0} \cup Pipes, FailHLS(p), UNCHANGED started,
         \A q \in Pipes : q # p => phaseOf'[q] = phaseOf[q]
  PROVE  PipePhase' /\ started <= started' /\ pipeline' <= started'
<1>1. started \in Nat /\ pipeline \in {0} \cup Pipes
  BY DEF TypesOK, PipesOK, Pipes
<1>2. CASE pipeline = p
  <2>1. pipeline' = 0
    BY <1>2 DEF FailHLS, Unregister
  <2> QED
    BY <1>1, <2>1 DEF PipePhase
<1>3. CASE pipeline # p
  <2>1. pipeline' = pipeline
    BY <1>3 DEF FailHLS, hlsRegistryVars
  <2> QED
    BY <1>1, <1>3, <2>1 DEF PipePhase
<1> QED
  BY <1>2, <1>3

\* Every step keeps the registered pipeline unstopped and its number the
\* largest in use or past.
LEMMA StepPhase ==
  ASSUME TypesOK, FitsInv, PipePhase, PipesStarted, SessNext
  PROVE  PipePhase' /\ PipesStarted'
<1>a. TypesOK'
  BY StepTypes
<1>b. started \in Nat /\ pipeline \in {0} \cup Pipes /\ pipeline <= started
  BY DEF TypesOK, PipesOK, Pipes, PipesStarted
<1>1. ASSUME NEW v \in Viewers, Enter(v) PROVE PipePhase' /\ PipesStarted'
  <2>1. UNCHANGED <<table, leaving, gets>>
    BY <1>1 DEF Enter
  <2>2. \A w \in Viewers : enters'[w].pipe \in {0, enters[w].pipe, pipeline'}
    BY <1>1, EntryPipe DEF Enter, EntryPlaces
  <2>6. PipesCopied
    BY <2>1, <2>2 DEF PipesCopied
  <2>7. PipePhase' /\ started <= started' /\ pipeline' <= started'
    BY <1>1, <1>b DEF Enter, PipePhase, pipeVars, hlsRegistryVars
  <2> QED
    BY <1>a, <2>6, <2>7, PipesStartedNext
<1>2. ASSUME NEW v \in Viewers, AttachPipe(v) PROVE PipePhase' /\ PipesStarted'
  <2>1. UNCHANGED <<table, leaving, gets>>
    BY <1>2 DEF AttachPipe
  <2>2. \A w \in Viewers : enters'[w].pipe \in {0, enters[w].pipe, pipeline'}
    <3>1. OutputsOver \/ failedMark
              => \A w \in Viewers : enters'[w].pipe \in {0, enters[w].pipe, pipeline'}
      BY <1>2, EntryPipe DEF AttachPipe, EntryPlaces
    <3>2. ~(OutputsOver \/ failedMark)
              => enters' = [enters EXCEPT ![v] = [at |-> "piped", pipe |-> pipeline']]
      BY <1>2 DEF AttachPipe
    <3> QED
      BY <3>1, <3>2 DEF TypesOK, EntersOK
  <2>6. PipesCopied
    BY <2>1, <2>2 DEF PipesCopied
  <2>7. PipePhase' /\ started <= started' /\ pipeline' <= started'
    <3>1. CASE UNCHANGED pipeVars
      BY <1>b, <3>1 DEF PipePhase, pipeVars, hlsRegistryVars
    <3>2. CASE pipeline # 0 /\ Join(pipeline)
      BY <1>b, <3>2 DEF PipePhase, Join
    <3>3. CASE StartPipe
      <4>1. started' = started + 1 /\ pipeline' = started' /\ started' \in Pipes
        BY <1>b, <3>3, HlsSessionsAssumption DEF StartPipe, Pipes, HlsSessionsAssumption
      <4>2. phaseOf' = [phaseOf EXCEPT ![started'] = "live"]
        BY <3>3 DEF StartPipe
      <4>3. phaseOf'[pipeline'] = "live"
        BY <4>1, <4>2 DEF TypesOK, PipesOK
      <4> QED
        BY <1>b, <4>1, <4>3 DEF PipePhase
    <3> QED
      BY <1>2, <3>1, <3>2, <3>3 DEF AttachPipe
  <2> QED
    BY <1>a, <2>6, <2>7, PipesStartedNext
<1>3. ASSUME NEW v \in Viewers, Add(v) PROVE PipePhase' /\ PipesStarted'
  <2>1. UNCHANGED <<leaving, gets>>
    BY <1>3 DEF Add
  <2>2. \A w \in Viewers : enters'[w].pipe \in {0, enters[w].pipe, pipeline'}
    BY <1>3, EntryPipe DEF Add, EntryPlaces
  <2>3. \A w \in Viewers : table'[w].plays \in {0, table[w].plays, enters[w].pipe}
    BY <1>3 DEF Add, NoSession, TypesOK, TableOK
  <2>6. PipesCopied
    BY <2>1, <2>2, <2>3 DEF PipesCopied
  <2>7. PipePhase' /\ started <= started' /\ pipeline' <= started'
    BY <1>3, <1>b DEF Add, PipePhase, pipeVars, hlsRegistryVars
  <2> QED
    BY <1>a, <2>6, <2>7, PipesStartedNext
<1>4. ASSUME NEW v \in Viewers, ReCheck(v) PROVE PipePhase' /\ PipesStarted'
  <2>1. UNCHANGED <<leaving, gets>>
    BY <1>4 DEF ReCheck
  <2>2. \A w \in Viewers : enters'[w].pipe \in {0, enters[w].pipe, pipeline'}
    <3>1. CASE Abandon(v, "gone")
      BY <3>1, AbandonPipes
    <3>2. CASE ~Abandon(v, "gone")
      BY <1>4, <3>2, EntryPipe DEF ReCheck, EntryPlaces
    <3> QED
      BY <3>1, <3>2
  <2>3. \A w \in Viewers : table'[w].plays \in {0, table[w].plays, enters[w].pipe}
    <3>1. CASE Abandon(v, "gone")
      BY <3>1, AbandonPipes
    <3>2. CASE ~Abandon(v, "gone")
      BY <1>4, <3>2 DEF ReCheck
    <3> QED
      BY <3>1, <3>2
  <2>6. PipesCopied
    BY <2>1, <2>2, <2>3 DEF PipesCopied
  <2>7. PipePhase' /\ started <= started' /\ pipeline' <= started'
    BY <1>4, <1>b DEF ReCheck, PipePhase, pipeVars, hlsRegistryVars
  <2> QED
    BY <1>a, <2>6, <2>7, PipesStartedNext
<1>5. ASSUME NEW v \in Viewers, WaitReady(v) PROVE PipePhase' /\ PipesStarted'
  <2>1. UNCHANGED <<leaving, gets>>
    BY <1>5 DEF WaitReady
  <2>2. \A w \in Viewers : enters'[w].pipe \in {0, enters[w].pipe, pipeline'}
    <3>1. CASE Abandon(v, "gone")
      BY <3>1, AbandonPipes
    <3>2. CASE ~Abandon(v, "gone")
      BY <1>5, <3>2, EntryPipe DEF WaitReady, EntryPlaces
    <3> QED
      BY <3>1, <3>2
  <2>3. \A w \in Viewers : table'[w].plays \in {0, table[w].plays, enters[w].pipe}
    <3>1. CASE Abandon(v, "gone")
      BY <3>1, AbandonPipes
    <3>2. CASE ~Abandon(v, "gone")
      BY <1>5, <3>2 DEF WaitReady
    <3> QED
      BY <3>1, <3>2
  <2>6. PipesCopied
    BY <2>1, <2>2, <2>3 DEF PipesCopied
  <2>7. PipePhase' /\ started <= started' /\ pipeline' <= started'
    <3>1. CASE FailHLS(enters[v].pipe)
      <4>1. enters[v].pipe \in {0} \cup Pipes
        BY <1>5 DEF TypesOK, EntersOK, EntryRecords
      <4>2. UNCHANGED <<started, phaseOf>>
        BY <1>5 DEF WaitReady
      <4> QED
        BY <1>b, <3>1, <4>1, <4>2, FailPhase
    <3>2. CASE UNCHANGED hlsRegistryVars
      <4>1. UNCHANGED <<started, phaseOf, pipeline>>
        BY <1>5, <3>2 DEF WaitReady, hlsRegistryVars
      <4> QED
        BY <1>b, <4>1 DEF PipePhase
    <3> QED
      BY <1>5, <3>1, <3>2 DEF WaitReady
  <2> QED
    BY <1>a, <2>6, <2>7, PipesStartedNext
<1>6. ASSUME NEW v \in Viewers, Connect(v) PROVE PipePhase' /\ PipesStarted'
  <2>1. UNCHANGED <<leaving, gets>>
    BY <1>6 DEF Connect
  <2>2. \A w \in Viewers : enters'[w].pipe \in {0, enters[w].pipe, pipeline'}
    <3>1. CASE Abandon(v, "gone")
      BY <3>1, AbandonPipes
    <3>2. CASE ~Abandon(v, "gone")
      BY <1>6, <3>2, EntryPipe DEF Connect, EntryPlaces
    <3> QED
      BY <3>1, <3>2
  <2>3. \A w \in Viewers : table'[w].plays \in {0, table[w].plays, enters[w].pipe}
    <3>1. CASE Abandon(v, "gone")
      BY <3>1, AbandonPipes
    <3>2. CASE ~Abandon(v, "gone")
      BY <1>6, <3>2 DEF Connect
    <3> QED
      BY <3>1, <3>2
  <2>6. PipesCopied
    BY <2>1, <2>2, <2>3 DEF PipesCopied
  <2>7. PipePhase' /\ started <= started' /\ pipeline' <= started'
    BY <1>6, <1>b DEF Connect, PipePhase, pipeVars, hlsRegistryVars
  <2> QED
    BY <1>a, <2>6, <2>7, PipesStartedNext
<1>7. ASSUME NEW v \in Viewers, ActivateSession(v) PROVE PipePhase' /\ PipesStarted'
  <2>1. UNCHANGED <<leaving, gets>>
    BY <1>7 DEF ActivateSession
  <2>2. \A w \in Viewers : enters'[w].pipe \in {0, enters[w].pipe, pipeline'}
    <3>1. CASE Abandon(v, "unannounced")
      BY <3>1, AbandonPipes
    <3>2. CASE ~Abandon(v, "unannounced")
      BY <1>7, <3>2, EntryPipe DEF ActivateSession, EntryPlaces
    <3> QED
      BY <3>1, <3>2
  <2>3. \A w \in Viewers : table'[w].plays \in {0, table[w].plays, enters[w].pipe}
    <3>1. CASE Abandon(v, "unannounced")
      BY <3>1, AbandonPipes
    <3>2. CASE ~Abandon(v, "unannounced")
      <4>1. table' = [table EXCEPT ![v] = [@ EXCEPT !.state = "active", !.connected = TRUE,
                                                     !.inFlight = table[v].inFlight - 1]]
        BY <1>7, <3>2 DEF ActivateSession
      <4> QED
        BY <4>1 DEF TypesOK, TableOK, SessionRecords
    <3> QED
      BY <3>1, <3>2
  <2>6. PipesCopied
    BY <2>1, <2>2, <2>3 DEF PipesCopied
  <2>7. PipePhase' /\ started <= started' /\ pipeline' <= started'
    BY <1>7, <1>b DEF ActivateSession, PipePhase, pipeVars, hlsRegistryVars
  <2> QED
    BY <1>a, <2>6, <2>7, PipesStartedNext
<1>8. ASSUME NEW v \in Viewers, UndoEntry(v) PROVE PipePhase' /\ PipesStarted'
  <2>1. UNCHANGED <<table, leaving, gets>>
    BY <1>8 DEF UndoEntry
  <2>2. \A w \in Viewers : enters'[w].pipe \in {0, enters[w].pipe, pipeline'}
    BY <1>8, EntryPipe DEF UndoEntry, EntryPlaces
  <2>6. PipesCopied
    BY <2>1, <2>2 DEF PipesCopied
  <2>7. PipePhase' /\ started <= started' /\ pipeline' <= started'
    <3>1. enters[v].pipe \in {0} \cup Pipes
      BY <1>8 DEF TypesOK, EntersOK, EntryRecords
    <3>2. CASE ReleasePipe(enters[v].pipe)
      BY <1>b, <3>1, <3>2, ReleasePhase
    <3>3. CASE UNCHANGED pipeVars
      BY <1>b, <3>3 DEF PipePhase, pipeVars, hlsRegistryVars
    <3> QED
      BY <1>8, <3>2, <3>3 DEF UndoEntry
  <2> QED
    BY <1>a, <2>6, <2>7, PipesStartedNext
<1>9. ASSUME NEW v \in Viewers, DepartIdle(v) PROVE PipePhase' /\ PipesStarted'
  <2>1. UNCHANGED <<enters, gets>>
    BY <1>9 DEF DepartIdle
  <2>3. \A w \in Viewers : table'[w].plays \in {0, table[w].plays, enters[w].pipe}
    BY <1>9 DEF DepartIdle, TypesOK, TableOK, SessionRecords
  <2>4. \A w \in Viewers : leaving'[w].pipe \in {0, leaving[w].pipe, table[w].plays}
    BY <1>9 DEF DepartIdle, TakesLeave, TypesOK, LeavingOK
  <2>6. PipesCopied
    BY <2>1, <2>3, <2>4 DEF PipesCopied
  <2>7. PipePhase' /\ started <= started' /\ pipeline' <= started'
    BY <1>9, <1>b DEF DepartIdle, PipePhase, pipeVars, hlsRegistryVars
  <2> QED
    BY <1>a, <2>6, <2>7, PipesStartedNext
<1>10. ASSUME NEW v \in Viewers, Forget(v) PROVE PipePhase' /\ PipesStarted'
  <2>1. UNCHANGED <<enters, leaving, gets>>
    BY <1>10 DEF Forget
  <2>3. \A w \in Viewers : table'[w].plays \in {0, table[w].plays, enters[w].pipe}
    BY <1>10 DEF Forget, NoSession, TypesOK, TableOK
  <2>6. PipesCopied
    BY <2>1, <2>3 DEF PipesCopied
  <2>7. PipePhase' /\ started <= started' /\ pipeline' <= started'
    BY <1>10, <1>b DEF Forget, PipePhase, pipeVars, hlsRegistryVars
  <2> QED
    BY <1>a, <2>6, <2>7, PipesStartedNext
<1>11. ASSUME NEW v \in Viewers, Leave(v) PROVE PipePhase' /\ PipesStarted'
  <2>1. UNCHANGED <<enters, gets>>
    BY <1>11 DEF Leave
  <2>3. \A w \in Viewers : table'[w].plays \in {0, table[w].plays, enters[w].pipe}
    BY <1>11 DEF Leave, NoSession, TypesOK, TableOK
  <2>4. \A w \in Viewers : leaving'[w].pipe \in {0, leaving[w].pipe, table[w].plays}
    BY <1>11 DEF Leave, TakesLeave, TypesOK, LeavingOK
  <2>6. PipesCopied
    BY <2>1, <2>3, <2>4 DEF PipesCopied
  <2>7. PipePhase' /\ started <= started' /\ pipeline' <= started'
    BY <1>11, <1>b DEF Leave, PipePhase, pipeVars, hlsRegistryVars
  <2> QED
    BY <1>a, <2>6, <2>7, PipesStartedNext
<1>12. ASSUME NEW v \in Viewers, EndClient(v) PROVE PipePhase' /\ PipesStarted'
  <2>1. UNCHANGED <<enters, gets>>
    BY <1>12 DEF EndClient
  <2>3. \A w \in Viewers : table'[w].plays \in {0, table[w].plays, enters[w].pipe}
    BY <1>12 DEF EndClient, TypesOK, TableOK, SessionRecords
  <2>4. \A w \in Viewers : leaving'[w].pipe \in {0, leaving[w].pipe, table[w].plays}
    BY <1>12 DEF EndClient, TakesLeave, TypesOK, LeavingOK
  <2>6. PipesCopied
    BY <2>1, <2>3, <2>4 DEF PipesCopied
  <2>7. PipePhase' /\ started <= started' /\ pipeline' <= started'
    BY <1>12, <1>b DEF EndClient, PipePhase, pipeVars, hlsRegistryVars
  <2> QED
    BY <1>a, <2>6, <2>7, PipesStartedNext
<1>13. ASSUME NEW v \in Viewers, RunDeparture(v) PROVE PipePhase' /\ PipesStarted'
  <2>1. UNCHANGED <<enters, table, gets>>
    BY <1>13 DEF RunDeparture
  <2>4. \A w \in Viewers : leaving'[w].pipe \in {0, leaving[w].pipe, table[w].plays}
    BY <1>13 DEF RunDeparture, NoDeparture, TypesOK, LeavingOK, DepartureRecords
  <2>6. PipesCopied
    BY <2>1, <2>4 DEF PipesCopied
  <2>7. PipePhase' /\ started <= started' /\ pipeline' <= started'
    <3>1. leaving[v].pipe \in {0} \cup Pipes
      BY <1>13 DEF TypesOK, LeavingOK, DepartureRecords
    <3>2. CASE ReleasePipe(leaving[v].pipe)
      BY <1>b, <3>1, <3>2, ReleasePhase
    <3>3. CASE UNCHANGED pipeVars
      BY <1>b, <3>3 DEF PipePhase, pipeVars, hlsRegistryVars
    <3> QED
      BY <1>13, <3>2, <3>3 DEF RunDeparture
  <2> QED
    BY <1>a, <2>6, <2>7, PipesStartedNext
<1>14. ASSUME NEW v \in Viewers, Settle(v) PROVE PipePhase' /\ PipesStarted'
  <2>1. UNCHANGED <<enters, gets>>
    BY <1>14 DEF Settle
  <2>3. \A w \in Viewers : table'[w].plays \in {0, table[w].plays, enters[w].pipe}
    BY <1>14 DEF Settle, SettleSession, TypesOK, TableOK, SessionRecords
  <2>4. \A w \in Viewers : leaving'[w].pipe \in {0, leaving[w].pipe, table[w].plays}
    BY <1>14 DEF Settle, NoDeparture, TypesOK, LeavingOK
  <2>6. PipesCopied
    BY <2>1, <2>3, <2>4 DEF PipesCopied
  <2>7. PipePhase' /\ started <= started' /\ pipeline' <= started'
    BY <1>14, <1>b DEF Settle, PipePhase, pipeVars, hlsRegistryVars
  <2> QED
    BY <1>a, <2>6, <2>7, PipesStartedNext
<1>15. ASSUME NEW g \in Requests, End(g) PROVE PipePhase' /\ PipesStarted'
  <2>1. UNCHANGED <<enters, leaving>>
    BY <1>15 DEF End
  <2>3. \A w \in Viewers : table'[w].plays \in {0, table[w].plays, enters[w].pipe}
    BY <1>15 DEF End, FitsInv, RequestFitsEntry, TypesOK, TableOK, SessionRecords
  <2>5. \A h \in Requests : gets'[h].pipe \in {0, gets[h].pipe}
            \cup {table[w].plays : w \in Viewers}
    BY <1>15, RequestPipe DEF End, RequestPlaces
  <2>6. PipesCopied
    BY <2>1, <2>3, <2>5 DEF PipesCopied
  <2>7. PipePhase' /\ started <= started' /\ pipeline' <= started'
    BY <1>15, <1>b DEF End, PipePhase, pipeVars, hlsRegistryVars
  <2> QED
    BY <1>a, <2>6, <2>7, PipesStartedNext
<1>16. ASSUME NEW g \in Requests, ResumeClient(g) PROVE PipePhase' /\ PipesStarted'
  <2>1. UNCHANGED <<enters, table, leaving>>
    BY <1>16 DEF ResumeClient
  <2>5. \A h \in Requests : gets'[h].pipe \in {0, gets[h].pipe}
            \cup {table[w].plays : w \in Viewers}
    BY <1>16, RequestPipe DEF ResumeClient, RequestPlaces
  <2>6. PipesCopied
    BY <2>1, <2>5 DEF PipesCopied
  <2>7. PipePhase' /\ started <= started' /\ pipeline' <= started'
    BY <1>16, <1>b DEF ResumeClient, PipePhase, pipeVars, hlsRegistryVars
  <2> QED
    BY <1>a, <2>6, <2>7, PipesStartedNext
<1>17. ASSUME NEW g \in Requests, ResumePipe(g) PROVE PipePhase' /\ PipesStarted'
  <2>1. UNCHANGED <<enters, table, leaving>>
    BY <1>17 DEF ResumePipe
  <2>5. \A h \in Requests : gets'[h].pipe \in {0, gets[h].pipe}
            \cup {table[w].plays : w \in Viewers}
    BY <1>17, RequestPipe DEF ResumePipe, RequestPlaces
  <2>6. PipesCopied
    BY <2>1, <2>5 DEF PipesCopied
  <2>7. PipePhase' /\ started <= started' /\ pipeline' <= started'
    <3>1. CASE UNCHANGED pipeVars
      BY <1>b, <3>1 DEF PipePhase, pipeVars, hlsRegistryVars
    <3>2. CASE Join(gets[g].pipe)
      BY <1>b, <3>2 DEF PipePhase, Join
    <3> QED
      BY <1>17, <3>1, <3>2 DEF ResumePipe
  <2> QED
    BY <1>a, <2>6, <2>7, PipesStartedNext
<1>18. ASSUME NEW g \in Requests, CommitResume(g) PROVE PipePhase' /\ PipesStarted'
  <2>1. UNCHANGED <<enters, leaving>>
    BY <1>18 DEF CommitResume
  <2>3. \A w \in Viewers : table'[w].plays \in {0, table[w].plays, enters[w].pipe}
    <3>1. CASE Resumable(gets[g].viewer)
      <4>1. table' = [table EXCEPT ![gets[g].viewer] = [@ EXCEPT !.state = "active",
                                   !.inFlight = 1,
                                                    !.connected = TRUE, !.holds = TRUE]]
        BY <1>18, <3>1 DEF CommitResume
      <4> QED
        BY <4>1 DEF TypesOK, TableOK, SessionRecords
    <3>2. CASE ~Resumable(gets[g].viewer)
      BY <1>18, <3>2 DEF CommitResume
    <3> QED
      BY <3>1, <3>2
  <2>5. \A h \in Requests : gets'[h].pipe \in {0, gets[h].pipe}
            \cup {table[w].plays : w \in Viewers}
    BY <1>18, RequestPipe DEF CommitResume, RequestPlaces
  <2>6. PipesCopied
    BY <2>1, <2>3, <2>5 DEF PipesCopied
  <2>7. PipePhase' /\ started <= started' /\ pipeline' <= started'
    BY <1>18, <1>b DEF CommitResume, PipePhase, pipeVars, hlsRegistryVars
  <2> QED
    BY <1>a, <2>6, <2>7, PipesStartedNext
<1>19. ASSUME NEW g \in Requests, ResumeConnect(g) PROVE PipePhase' /\ PipesStarted'
  <2>1. UNCHANGED <<enters, table, leaving>>
    BY <1>19 DEF ResumeConnect
  <2>5. \A h \in Requests : gets'[h].pipe \in {0, gets[h].pipe}
            \cup {table[w].plays : w \in Viewers}
    BY <1>19, RequestPipe DEF ResumeConnect, RequestPlaces
  <2>6. PipesCopied
    BY <2>1, <2>5 DEF PipesCopied
  <2>7. PipePhase' /\ started <= started' /\ pipeline' <= started'
    BY <1>19, <1>b DEF ResumeConnect, PipePhase, pipeVars, hlsRegistryVars
  <2> QED
    BY <1>a, <2>6, <2>7, PipesStartedNext
<1>20. ASSUME NEW g \in Requests, UndoResume(g) PROVE PipePhase' /\ PipesStarted'
  <2>1. UNCHANGED <<enters, table, leaving>>
    BY <1>20 DEF UndoResume
  <2>5. \A h \in Requests : gets'[h].pipe \in {0, gets[h].pipe}
            \cup {table[w].plays : w \in Viewers}
    BY <1>20, RequestPipe DEF UndoResume, RequestPlaces
  <2>6. PipesCopied
    BY <2>1, <2>5 DEF PipesCopied
  <2>7. PipePhase' /\ started <= started' /\ pipeline' <= started'
    <3>1. gets[g].pipe \in {0} \cup Pipes
      BY <1>20 DEF TypesOK, GetsOK, RequestRecords
    <3>2. CASE ReleasePipe(gets[g].pipe)
      BY <1>b, <3>1, <3>2, ReleasePhase
    <3>3. CASE UNCHANGED pipeVars
      BY <1>b, <3>3 DEF PipePhase, pipeVars, hlsRegistryVars
    <3> QED
      BY <1>20, <3>2, <3>3 DEF UndoResume
  <2> QED
    BY <1>a, <2>6, <2>7, PipesStartedNext
<1>21. ASSUME NEW g \in Requests, ResumeFailed(g) PROVE PipePhase' /\ PipesStarted'
  <2>1. UNCHANGED <<enters, leaving>>
    BY <1>21 DEF ResumeFailed
  <2>3. \A w \in Viewers : table'[w].plays \in {0, table[w].plays, enters[w].pipe}
    <3>1. CASE MarkStopped({gets[g].viewer}, "channel")
      <4>1. {gets[g].viewer} \in SUBSET Viewers /\ UNCHANGED <<registry, announced>>
        BY <1>21 DEF ResumeFailed, FitsInv, RequestFitsEntry
      <4>2. \A w \in Viewers :
              IF w \in {gets[g].viewer} /\ table[w].state \in {"arrived", "active", "departed"}
              THEN table'[w] = [table[w] EXCEPT !.state = "stopped", !.holds = FALSE, !.plays = 0,
                                                !.ended = "channel"]
              ELSE table'[w] = table[w]
        BY <3>1, <4>1, Marking DEF TypesOK, MarkedBy
      <4>3. \A w \in Viewers : table[w] \in SessionRecords
        BY DEF TypesOK, TableOK
      <4> QED
        BY <4>2, <4>3 DEF SessionRecords
    <3>2. CASE UNCHANGED <<table, dropping>>
      BY <3>2
    <3> QED
      BY <1>21, <3>1, <3>2 DEF ResumeFailed
  <2>5. \A h \in Requests : gets'[h].pipe \in {0, gets[h].pipe}
            \cup {table[w].plays : w \in Viewers}
    BY <1>21, RequestPipe DEF ResumeFailed, RequestPlaces
  <2>6. PipesCopied
    BY <2>1, <2>3, <2>5 DEF PipesCopied
  <2>7. PipePhase' /\ started <= started' /\ pipeline' <= started'
    BY <1>21, <1>b DEF ResumeFailed, PipePhase, pipeVars, hlsRegistryVars
  <2> QED
    BY <1>a, <2>6, <2>7, PipesStartedNext
<1>22. ASSUME NEW g \in Requests, NEW v \in Viewers, Begin(g, v) PROVE PipePhase' /\ PipesStarted'
  <2>1. UNCHANGED <<enters, leaving>>
    BY <1>22 DEF Begin
  <2>3. \A w \in Viewers : table'[w].plays \in {0, table[w].plays, enters[w].pipe}
    BY <1>22 DEF Begin, TypesOK, TableOK, SessionRecords
  <2>5. \A h \in Requests : gets'[h].pipe \in {0, gets[h].pipe}
            \cup {table[w].plays : w \in Viewers}
    BY <1>22 DEF Begin, TypesOK, GetsOK
  <2>6. PipesCopied
    BY <2>1, <2>3, <2>5 DEF PipesCopied
  <2>7. PipePhase' /\ started <= started' /\ pipeline' <= started'
    BY <1>22, <1>b DEF Begin, PipePhase, pipeVars, hlsRegistryVars
  <2> QED
    BY <1>a, <2>6, <2>7, PipesStartedNext
<1>23. ASSUME NEW p \in Pipes, PipeGoes(p) PROVE PipePhase' /\ PipesStarted'
  <2>1. UNCHANGED <<enters, table, leaving, gets>>
    BY <1>23 DEF PipeGoes
  <2>6. PipesCopied
    BY <2>1 DEF PipesCopied
  <2>7. PipePhase' /\ started <= started' /\ pipeline' <= started'
    <3>1. UNCHANGED <<pipeline, started>>
      BY <1>23 DEF PipeGoes, hlsRegistryVars
    <3>2. \A q \in Pipes : phaseOf[q] \in {"live", "failing", "failed"}
              => phaseOf'[q] \in {"live", "failing", "failed"}
      BY <1>23 DEF PipeGoes, TypesOK, PipesOK
    <3> QED
      BY <1>b, <3>1, <3>2 DEF PipePhase
  <2> QED
    BY <1>a, <2>6, <2>7, PipesStartedNext
<1>24. ASSUME NEW p \in Pipes, Watch(p) PROVE PipePhase' /\ PipesStarted'
  <2>1. UNCHANGED <<enters, leaving, gets>>
    BY <1>24 DEF Watch
  <2>3. \A w \in Viewers : table'[w].plays \in {0, table[w].plays, enters[w].pipe}
    <3>1. CASE MarkStopped({v \in Viewers : table[v].plays = p}, "output")
      <4>1. {v \in Viewers : table[v].plays = p} \in SUBSET Viewers
                /\ UNCHANGED <<registry, announced>>
        BY <1>24 DEF Watch, FitsInv, RequestFitsEntry
      <4>2. \A w \in Viewers :
              IF w \in {v \in Viewers : table[v].plays = p}
                  /\ table[w].state \in {"arrived", "active", "departed"}
              THEN table'[w] = [table[w] EXCEPT !.state = "stopped", !.holds = FALSE, !.plays = 0,
                                                !.ended = "output"]
              ELSE table'[w] = table[w]
        BY <3>1, <4>1, Marking DEF TypesOK, MarkedBy
      <4>3. \A w \in Viewers : table[w] \in SessionRecords
        BY DEF TypesOK, TableOK
      <4> QED
        BY <4>2, <4>3 DEF SessionRecords
    <3>2. CASE UNCHANGED <<table, dropping>>
      BY <3>2
    <3> QED
      BY <1>24, <3>1, <3>2 DEF Watch
  <2>6. PipesCopied
    BY <2>1, <2>3 DEF PipesCopied
  <2>7. PipePhase' /\ started <= started' /\ pipeline' <= started'
    <3>1. UNCHANGED started /\ \A q \in Pipes : q # p => phaseOf'[q] = phaseOf[q]
      BY <1>24 DEF Watch, TypesOK, PipesOK
    <3>2. CASE FailHLS(p)
      BY <1>24, <1>b, <3>1, <3>2, FailPhase
    <3>3. CASE phaseOf[p] = "marked" /\ UNCHANGED hlsRegistryVars
      <4>1. UNCHANGED pipeline /\ pipeline # p
        BY <1>24, <3>3 DEF PipePhase, hlsRegistryVars, Pipes
      <4> QED
        BY <1>b, <3>1, <4>1 DEF PipePhase
    <3> QED
      BY <1>24, <3>2, <3>3 DEF Watch
  <2> QED
    BY <1>a, <2>6, <2>7, PipesStartedNext
<1>25. ASSUME LingerEnds PROVE PipePhase' /\ PipesStarted'
  <2>1. UNCHANGED <<enters, table, leaving, gets>>
    BY <1>25 DEF LingerEnds
  <2>6. PipesCopied
    BY <2>1 DEF PipesCopied
  <2>7. PipePhase' /\ started <= started' /\ pipeline' <= started'
    BY <1>25, <1>b DEF LingerEnds, PipePhase
  <2> QED
    BY <1>a, <2>6, <2>7, PipesStartedNext
<1>26. ASSUME Boundary PROVE PipePhase' /\ PipesStarted'
  <2>1. UNCHANGED <<enters, table, leaving, gets>>
    BY <1>26 DEF Boundary
  <2>6. PipesCopied
    BY <2>1 DEF PipesCopied
  <2>7. PipePhase' /\ started <= started' /\ pipeline' <= started'
    BY <1>26, <1>b DEF Boundary, PipePhase, pipeVars, hlsRegistryVars
  <2> QED
    BY <1>a, <2>6, <2>7, PipesStartedNext
<1>27. ASSUME StopChannel PROVE PipePhase' /\ PipesStarted'
  <2>1. UNCHANGED <<enters, leaving, gets>>
    BY <1>27 DEF StopChannel
  <2>3. \A w \in Viewers : table'[w].plays \in {0, table[w].plays, enters[w].pipe}
    <3>1. CASE MarkStopped(Viewers, "channel")
      <4>1. Viewers \in SUBSET Viewers /\ UNCHANGED <<registry, announced>>
        BY <1>27 DEF StopChannel, FitsInv, RequestFitsEntry
      <4>2. \A w \in Viewers :
              IF w \in Viewers /\ table[w].state \in {"arrived", "active", "departed"}
              THEN table'[w] = [table[w] EXCEPT !.state = "stopped", !.holds = FALSE, !.plays = 0,
                                                !.ended = "channel"]
              ELSE table'[w] = table[w]
        BY <3>1, <4>1, Marking DEF TypesOK, MarkedBy
      <4>3. \A w \in Viewers : table[w] \in SessionRecords
        BY DEF TypesOK, TableOK
      <4> QED
        BY <4>2, <4>3 DEF SessionRecords
    <3>2. CASE UNCHANGED <<table, dropping>>
      BY <3>2
    <3> QED
      BY <1>27, <3>1, <3>2 DEF StopChannel
  <2>6. PipesCopied
    BY <2>1, <2>3 DEF PipesCopied
  <2>7. PipePhase' /\ started <= started' /\ pipeline' <= started'
    BY <1>27, <1>b DEF StopChannel, PipePhase, pipeVars, hlsRegistryVars
  <2> QED
    BY <1>a, <2>6, <2>7, PipesStartedNext
<1>28. ASSUME DropStopped PROVE PipePhase' /\ PipesStarted'
  <2>1. UNCHANGED <<enters, table, leaving, gets>>
    BY <1>28 DEF DropStopped
  <2>6. PipesCopied
    BY <2>1 DEF PipesCopied
  <2>7. PipePhase' /\ started <= started' /\ pipeline' <= started'
    BY <1>28, <1>b DEF DropStopped, PipePhase, pipeVars, hlsRegistryVars
  <2> QED
    BY <1>a, <2>6, <2>7, PipesStartedNext
<1>29. ASSUME Unlist PROVE PipePhase' /\ PipesStarted'
  <2>1. UNCHANGED <<enters, table, leaving, gets>>
    BY <1>29 DEF Unlist
  <2>6. PipesCopied
    BY <2>1 DEF PipesCopied
  <2>7. PipePhase' /\ started <= started' /\ pipeline' <= started'
    BY <1>29, <1>b DEF Unlist, PipePhase, pipeVars, hlsRegistryVars
  <2> QED
    BY <1>a, <2>6, <2>7, PipesStartedNext
<1>30. ASSUME OutputsStop PROVE PipePhase' /\ PipesStarted'
  <2>1. UNCHANGED <<enters, table, leaving, gets>>
    BY <1>30 DEF OutputsStop
  <2>6. PipesCopied
    BY <2>1 DEF PipesCopied
  <2>7. PipePhase' /\ started <= started' /\ pipeline' <= started'
    BY <1>30, <1>b DEF OutputsStop, PipePhase
  <2> QED
    BY <1>a, <2>6, <2>7, PipesStartedNext
<1>31. ASSUME RingCloses PROVE PipePhase' /\ PipesStarted'
  <2>1. UNCHANGED <<enters, table, leaving, gets>>
    BY <1>31 DEF RingCloses
  <2>6. PipesCopied
    BY <2>1 DEF PipesCopied
  <2>7. PipePhase' /\ started <= started' /\ pipeline' <= started'
    BY <1>31, <1>b DEF RingCloses, PipePhase, pipeVars, hlsRegistryVars
  <2> QED
    BY <1>a, <2>6, <2>7, PipesStartedNext
<1> QED
  BY <1>1, <1>2, <1>3, <1>4, <1>5, <1>6, <1>7, <1>8, <1>9, <1>10, <1>11, <1>12, <1>13, <1>14,
    <1>15, <1>16, <1>17, <1>18, <1>19, <1>20, <1>21, <1>22, <1>23, <1>24, <1>25, <1>26, <1>27,
    <1>28, <1>29, <1>30, <1>31
  DEF SessNext, EntryStep, DepartureStep, RequestStep, PipelineStep, MarkStep, ChannelEndStep

----------------------------------------------------------------------------
\* Who will still release pipeline p, by kind (HoldersOf).
EntryHolders(p) == {v \in Viewers : enters[v].at \in {"piped", "refused"} /\ enters[v].pipe = p}
SessionHolders(p) == {v \in Viewers : table[v].holds /\ table[v].plays = p}
DepartureHolders(p) ==
  {v \in Viewers : leaving[v].at \in {"disconnect", "output"} /\ leaving[v].pipe = p}
ResumeHolders(p) == {g \in Requests : gets[g].at \in {"output", "unpipe"} /\ gets[g].pipe = p}

HolderCount(p) ==
  Cardinality(EntryHolders(p)) + Cardinality(SessionHolders(p))
    + Cardinality(DepartureHolders(p)) + Cardinality(ResumeHolders(p))
\* As many sessions as holders; at least as many once a sweep has discarded some.
Counted(p) ==
  pipeline = p => sessionRefs >= HolderCount(p) /\ (~swept => sessionRefs = HolderCount(p))
\* A lingering pipeline is the registered one, and has no session.
LingerFits ==
  /\ lingering # 0 => lingering = pipeline /\ sessionRefs = 0
  /\ pipeline # 0 /\ sessionRefs = 0 /\ ~swept => lingering = pipeline
CountedInv == sessionRefs \in Nat /\ LingerFits /\ \A p \in Pipes : Counted(p)

\* What the count depends on.
SameHolders(p) ==
  UNCHANGED <<EntryHolders(p), SessionHolders(p), DepartureHolders(p), ResumeHolders(p)>>

\* The holders of a pipeline are finitely many.
LEMMA HoldersFinite ==
  ASSUME NEW p
  PROVE  /\ IsFiniteSet(EntryHolders(p)) /\ Cardinality(EntryHolders(p)) \in Nat
         /\ IsFiniteSet(SessionHolders(p)) /\ Cardinality(SessionHolders(p)) \in Nat
         /\ IsFiniteSet(DepartureHolders(p)) /\ Cardinality(DepartureHolders(p)) \in Nat
         /\ IsFiniteSet(ResumeHolders(p)) /\ Cardinality(ResumeHolders(p)) \in Nat
         /\ HolderCount(p) \in Nat
<1>1. IsFiniteSet(Viewers) /\ IsFiniteSet(Requests)
  BY HlsSessionsAssumption DEF HlsSessionsAssumption
<1>2. /\ EntryHolders(p) \in SUBSET Viewers /\ SessionHolders(p) \in SUBSET Viewers
      /\ DepartureHolders(p) \in SUBSET Viewers /\ ResumeHolders(p) \in SUBSET Requests
  BY DEF EntryHolders, SessionHolders, DepartureHolders, ResumeHolders
<1>3. /\ IsFiniteSet(EntryHolders(p)) /\ IsFiniteSet(SessionHolders(p))
      /\ IsFiniteSet(DepartureHolders(p)) /\ IsFiniteSet(ResumeHolders(p))
  BY <1>1, <1>2, FS_Subset
<1> QED
  BY <1>3, FS_CardinalityType DEF HolderCount

\* Cardinality of a set with one element more.
LEMMA OneMore ==
  ASSUME NEW S, IsFiniteSet(S), Cardinality(S) \in Nat, NEW x, x \notin S, NEW T, T = S \cup {x}
  PROVE  Cardinality(T) = Cardinality(S) + 1
BY FS_AddElement

\* Cardinality of a set with one element fewer.
LEMMA OneLess ==
  ASSUME NEW S, IsFiniteSet(S), Cardinality(S) \in Nat, NEW x, x \in S, NEW T, T = S \ {x}
  PROVE  Cardinality(T) = Cardinality(S) - 1
BY FS_RemoveElement

\* The holders' count, when no holder changes.
LEMMA SameCount ==
  ASSUME NEW p, SameHolders(p)
  PROVE  HolderCount(p)' = HolderCount(p)
BY DEF SameHolders, HolderCount

\* The four ways in which a step changes who counts.

\* The count stands when neither the registry nor the holders change.
LEMMA CountKept ==
  ASSUME CountedInv, UNCHANGED <<pipeline, sessionRefs, lingering, swept>>,
         \A p \in Pipes : pipeline = p => HolderCount(p)' = HolderCount(p)
  PROVE  CountedInv'
BY DEF CountedInv, Counted, LingerFits

\* FailHLS: the registered pipeline and its count go together, or neither.
LEMMA CountFails ==
  ASSUME CountedInv, NEW q, FailHLS(q), UNCHANGED swept,
         \A p \in Pipes : pipeline = p => HolderCount(p)' = HolderCount(p)
  PROVE  CountedInv'
<1>1. CASE pipeline # q
  <2>1. UNCHANGED <<pipeline, sessionRefs, lingering, swept>>
    BY <1>1 DEF FailHLS, hlsRegistryVars
  <2> QED
    BY <2>1, CountKept
<1>2. CASE pipeline = q
  <2>1. pipeline' = 0 /\ sessionRefs' = 0 /\ lingering' = 0
    BY <1>2 DEF FailHLS, Unregister, CountedInv, LingerFits
  <2> QED
    BY <2>1 DEF CountedInv, Counted, LingerFits, Pipes
<1> QED
  BY <1>1, <1>2

\* AttachHLS: one session more, one holder more.
LEMMA CountJoins ==
  ASSUME TypesOK, CountedInv, NEW q \in Pipes, pipeline = q, Join(q), UNCHANGED swept,
         HolderCount(q)' = HolderCount(q) + 1
  PROVE  CountedInv'
<1>1. pipeline' = q /\ sessionRefs' = sessionRefs + 1 /\ lingering' = 0
  BY DEF Join, CountedInv, LingerFits
<1>2. HolderCount(q) \in Nat /\ sessionRefs \in Nat
  BY HoldersFinite DEF CountedInv
<1>3. q # 0
  BY DEF Pipes
<1>4. Counted(q)'
  BY <1>1, <1>2 DEF CountedInv, Counted
<1>5. \A p \in Pipes : Counted(p)'
  BY <1>1, <1>4 DEF Counted
<1> QED
  BY <1>1, <1>2, <1>3, <1>5 DEF CountedInv, LingerFits

\* hlsRelease: one session fewer, one holder fewer; at none it lingers or goes.
LEMMA CountReleases ==
  ASSUME TypesOK, CountedInv, NEW q \in Pipes, ReleasePipe(q), UNCHANGED swept,
         HolderCount(q)' = HolderCount(q) - 1, HolderCount(q)' \in Nat,
         \A p \in Pipes : p # q => HolderCount(p)' = HolderCount(p)
  PROVE  CountedInv'
<1>1. CASE pipeline # q
  <2>1. UNCHANGED <<pipeline, sessionRefs, lingering, swept>>
    BY <1>1 DEF ReleasePipe, pipeVars, hlsRegistryVars
  <2> QED
    BY <1>1, <2>1, CountKept
<1>2. CASE pipeline = q
  <2>1. CountOut(q)
    BY <1>2 DEF ReleasePipe
  <2>2. HolderCount(q) \in Nat /\ HolderCount(q) >= 1 /\ sessionRefs \in Nat
            /\ sessionRefs >= HolderCount(q)
    BY <1>2, HoldersFinite DEF CountedInv, Counted
  <2>3. sessionRefs' = sessionRefs - 1 /\ lingering = 0 /\ q # 0
    BY <2>1, <2>2 DEF CountOut, CountedInv, LingerFits, Pipes
  <2>4. \/ sessionRefs > 1 /\ UNCHANGED <<pipeline, lingering>>
        \/ sessionRefs <= 1 /\ lingering' = q /\ UNCHANGED pipeline
        \/ sessionRefs <= 1 /\ pipeline' = 0 /\ UNCHANGED lingering
    BY <2>1, Zenon DEF CountOut
  <2>5. sessionRefs' \in Nat /\ LingerFits'
    BY <1>2, <2>2, <2>3, <2>4 DEF LingerFits
  <2>6. pipeline' \in {0, q}
    BY <1>2, <2>4
  <2>7. Counted(q)'
    BY <1>2, <2>2, <2>3 DEF CountedInv, Counted
  <2>8. \A p \in Pipes : Counted(p)'
    BY <2>6, <2>7 DEF Counted, Pipes
  <2> QED
    BY <2>5, <2>8 DEF CountedInv
<1> QED
  BY <1>1, <1>2

\* An entry that holds no pipeline takes none up by moving on.
LEMMA EntryStays ==
  ASSUME TypesOK, NEW v \in Viewers, NEW place \in EntryPlaces \ {"piped", "refused"},
         EntryGoes(v, place), enters[v].at \notin {"piped", "refused"}
  PROVE  \A p \in Pipes : EntryHolders(p)' = EntryHolders(p)
<1>1. enters'[v].at = place /\ \A w \in Viewers : w # v => enters'[w] = enters[w]
  BY EntryAt
<1> QED
  BY <1>1 DEF EntryHolders

\* An entry that moves on past its pipeline is its holder no more.
LEMMA EntryLetsGo ==
  ASSUME TypesOK, NEW v \in Viewers, NEW place \in EntryPlaces \ {"piped", "refused"},
         EntryGoes(v, place)
  PROVE  \A p \in Pipes : EntryHolders(p)' = EntryHolders(p) \ {v}
<1>1. enters'[v].at = place /\ \A w \in Viewers : w # v => enters'[w] = enters[w]
  BY EntryAt
<1> QED
  BY <1>1 DEF EntryHolders

\* An abandoned entry holds the pipeline in its session's place.
LEMMA AbandonCount ==
  ASSUME TypesOK, FitsInv, NEW v \in Viewers, NEW otherwise \in {"gone", "unannounced"},
         Abandon(v, otherwise), enters[v].at \in {"added", "waiting", "ready", "announced"},
         UNCHANGED <<leaving, gets>>
  PROVE  \A p \in Pipes : HolderCount(p)' = HolderCount(p)
<1>1. /\ table'[v] = NoSession
      /\ \A w \in Viewers : w # v => table'[w] = table[w] /\ enters'[w] = enters[w]
      /\ table[v].holds => enters'[v] = [at |-> "refused", pipe |-> enters[v].pipe]
      /\ ~table[v].holds => enters'[v].at = otherwise
  BY AbandonTo DEF TypesOK
<1>2. table[v].holds => table[v].plays = enters[v].pipe
  BY DEF FitsInv, SessionFitsEntry
<1> SUFFICES ASSUME NEW p \in Pipes PROVE HolderCount(p)' = HolderCount(p)
  OBVIOUS
<1>3. UNCHANGED <<DepartureHolders(p), ResumeHolders(p)>>
  BY DEF DepartureHolders, ResumeHolders
<1>4. ~table'[v].holds
  BY <1>1 DEF NoSession
<1>5. CASE table[v].holds /\ table[v].plays = p
  <2>1. EntryHolders(p)' = EntryHolders(p) \cup {v} /\ v \notin EntryHolders(p)
    BY <1>1, <1>2, <1>5 DEF EntryHolders
  <2>2. SessionHolders(p)' = SessionHolders(p) \ {v} /\ v \in SessionHolders(p)
    BY <1>1, <1>4, <1>5 DEF SessionHolders
  <2>3. /\ Cardinality(EntryHolders(p)') = Cardinality(EntryHolders(p)) + 1
        /\ Cardinality(SessionHolders(p)') = Cardinality(SessionHolders(p)) - 1
    BY <2>1, <2>2, HoldersFinite, OneMore, OneLess
  <2> QED
    BY <1>3, <2>3, HoldersFinite DEF HolderCount
<1>6. CASE ~(table[v].holds /\ table[v].plays = p)
  <2>1. EntryHolders(p)' = EntryHolders(p)
    <3>1. ~(enters'[v].at \in {"piped", "refused"} /\ enters'[v].pipe = p)
      BY <1>1, <1>2, <1>6
    <3> QED
      BY <1>1, <3>1 DEF EntryHolders
  <2>2. SessionHolders(p)' = SessionHolders(p)
    BY <1>1, <1>4, <1>6 DEF SessionHolders
  <2> QED
    BY <1>3, <2>1, <2>2 DEF HolderCount
<1> QED
  BY <1>5, <1>6

\* A departure holds the pipeline in its session's place.
LEMMA LeaveCount ==
  ASSUME TypesOK, NEW v \in Viewers, Custody(v), NEW idle, TakesLeave(v, idle),
         ~table'[v].holds, \A w \in Viewers : w # v => table'[w] = table[w],
         UNCHANGED <<enters, gets>>
  PROVE  \A p \in Pipes : HolderCount(p)' = HolderCount(p)
<1>1. \A w \in Viewers : w # v => leaving'[w] = leaving[w]
  BY DEF TakesLeave, TypesOK, LeavingOK
<1>2. IF table[v].holds THEN /\ leaving'[v].at = "disconnect" /\ leaving'[v].pipe = table[v].plays
                             /\ leaving[v].at = "none"
      ELSE leaving' = leaving
  BY DEF TakesLeave, TypesOK, LeavingOK, Custody
<1> SUFFICES ASSUME NEW p \in Pipes PROVE HolderCount(p)' = HolderCount(p)
  OBVIOUS
<1>3. UNCHANGED <<EntryHolders(p), ResumeHolders(p)>>
  BY DEF EntryHolders, ResumeHolders
<1>5. CASE table[v].holds /\ table[v].plays = p
  <2>1. DepartureHolders(p)' = DepartureHolders(p) \cup {v} /\ v \notin DepartureHolders(p)
    BY <1>1, <1>2, <1>5 DEF DepartureHolders
  <2>2. SessionHolders(p)' = SessionHolders(p) \ {v} /\ v \in SessionHolders(p)
    BY <1>5 DEF SessionHolders
  <2>3. /\ Cardinality(DepartureHolders(p)') = Cardinality(DepartureHolders(p)) + 1
        /\ Cardinality(SessionHolders(p)') = Cardinality(SessionHolders(p)) - 1
    BY <2>1, <2>2, HoldersFinite, OneMore, OneLess
  <2> QED
    BY <1>3, <2>3, HoldersFinite DEF HolderCount
<1>6. CASE ~(table[v].holds /\ table[v].plays = p)
  <2>1. DepartureHolders(p)' = DepartureHolders(p)
    BY <1>1, <1>2, <1>6 DEF DepartureHolders
  <2>2. SessionHolders(p)' = SessionHolders(p)
    BY <1>6 DEF SessionHolders
  <2> QED
    BY <1>3, <2>1, <2>2 DEF HolderCount
<1> QED
  BY <1>5, <1>6

\* Every step keeps the registered pipeline's sessions counted.
LEMMA StepCount ==
  ASSUME TypesOK, FitsInv, CustodyInv, PipePhase, PipesStarted, CountedInv, SessNext
  PROVE  CountedInv'
<1>a. TypesOK'
  BY StepTypes
<1>1. ASSUME NEW v \in Viewers, Enter(v) PROVE CountedInv'
  <2>8. UNCHANGED <<pipeline, sessionRefs, lingering, swept, table, leaving, gets>>
    BY <1>1 DEF Enter, pipeVars, hlsRegistryVars, channelVars
  <2>1. \A p \in Pipes : EntryHolders(p)' = EntryHolders(p)
    BY <1>1, EntryStays DEF Enter, EntryPlaces
  <2>9. \A p \in Pipes : HolderCount(p)' = HolderCount(p)
    BY <2>8, <2>1, SameCount DEF SameHolders, SessionHolders, DepartureHolders, ResumeHolders
  <2> QED
    BY <2>8, <2>9, CountKept
<1>2. ASSUME NEW v \in Viewers, AttachPipe(v) PROVE CountedInv'
  <2>1. CASE OutputsOver \/ failedMark
    <3>1. UNCHANGED <<pipeline, sessionRefs, lingering, swept, table, leaving, gets>>
      BY <1>2, <2>1 DEF AttachPipe, pipeVars, hlsRegistryVars, channelVars
    <3>2. \A p \in Pipes : EntryHolders(p)' = EntryHolders(p)
      BY <1>2, <2>1, EntryStays DEF AttachPipe, EntryPlaces
    <3>3. \A p \in Pipes : HolderCount(p)' = HolderCount(p)
      BY <3>1, <3>2, SameCount DEF SameHolders, SessionHolders, DepartureHolders, ResumeHolders
    <3> QED
      BY <3>1, <3>3, CountKept
  <2>2. CASE ~(OutputsOver \/ failedMark)
    <3>1. UNCHANGED <<swept, table, leaving, gets>> /\ enters[v].at = "attached"
      BY <1>2, <2>2 DEF AttachPipe, channelVars
    <3>2. enters' = [enters EXCEPT ![v] = [at |-> "piped", pipe |-> pipeline']]
      BY <1>2, <2>2 DEF AttachPipe
    <3>3. /\ enters'[v].at = "piped" /\ enters'[v].pipe = pipeline'
          /\ \A w \in Viewers : w # v => enters'[w] = enters[w]
      BY <1>2, <3>2 DEF TypesOK, EntersOK
    <3>4. \A p \in Pipes : UNCHANGED <<SessionHolders(p), DepartureHolders(p), ResumeHolders(p)>>
      BY <3>1 DEF SessionHolders, DepartureHolders, ResumeHolders
    <3>5. \A p \in Pipes : pipeline' = p => EntryHolders(p)' = EntryHolders(p) \cup {v}
              /\ v \notin EntryHolders(p)
      BY <1>2, <3>1, <3>3 DEF EntryHolders
    <3>6. \A p \in Pipes : pipeline' = p => HolderCount(p)' = HolderCount(p) + 1
      <4> SUFFICES ASSUME NEW p \in Pipes, pipeline' = p
          PROVE HolderCount(p)' = HolderCount(p) + 1
        OBVIOUS
      <4>1. Cardinality(EntryHolders(p)') = Cardinality(EntryHolders(p)) + 1
        BY <3>5, HoldersFinite, OneMore
      <4> QED
        BY <3>4, <4>1, HoldersFinite DEF HolderCount
    <3>7. CASE pipeline # 0
      <4>1. Join(pipeline) /\ pipeline \in Pipes /\ pipeline' = pipeline
        BY <1>2, <2>2, <3>7 DEF AttachPipe, TypesOK, PipesOK, Join
      <4>2. PICK q \in Pipes : q = pipeline
        BY <4>1
      <4>3. HolderCount(q)' = HolderCount(q) + 1
        BY <3>6, <4>1, <4>2
      <4> QED
        BY <3>1, <4>1, <4>2, <4>3, CountJoins
    <3>8. CASE pipeline = 0
      <4>1. StartPipe
        BY <1>2, <2>2, <3>8 DEF AttachPipe
      <4>2. pipeline' = started + 1 /\ sessionRefs' = 1 /\ lingering' = 0
        BY <3>8, <4>1 DEF StartPipe, CountedInv, LingerFits
      <4>3. pipeline' \in Pipes /\ started \in Nat
        BY <4>1, Starting, HlsSessionsAssumption DEF TypesOK, PipesOK, Pipes
      <4>4. PICK q \in Pipes : q = pipeline'
        BY <4>3
      <4>5. q > started /\ q # 0
        BY <4>2, <4>3, <4>4
      <4>6. /\ EntryHolders(q) = {} /\ SessionHolders(q) = {} /\ DepartureHolders(q) = {}
                   /\ ResumeHolders(q) = {}
        <5>1. /\ \A w \in Viewers : enters[w].pipe \in Nat /\ table[w].plays \in Nat
                     /\ leaving[w].pipe \in Nat
              /\ \A h \in Requests : gets[h].pipe \in Nat
          BY DEF TypesOK, EntersOK, EntryRecords, TableOK, SessionRecords, LeavingOK,
            DepartureRecords,
                 GetsOK, RequestRecords, Pipes
        <5>2. /\ \A w \in Viewers : enters[w].pipe # q /\ table[w].plays # q
                     /\ leaving[w].pipe # q
              /\ \A h \in Requests : gets[h].pipe # q
          BY <4>2, <4>3, <4>4, <5>1 DEF PipesStarted
        <5> QED
          BY <5>2 DEF EntryHolders, SessionHolders, DepartureHolders, ResumeHolders
      <4>7. HolderCount(q) = 0
        BY <4>6, FS_EmptySet DEF HolderCount
      <4>8. HolderCount(q)' = 1
        BY <3>6, <4>4, <4>7
      <4>9. \A p \in Pipes : Counted(p)'
        BY <4>2, <4>4, <4>8 DEF Counted
      <4> QED
        BY <4>2, <4>4, <4>5, <4>9 DEF CountedInv, LingerFits
    <3> QED
      BY <3>7, <3>8
  <2> QED
    BY <2>1, <2>2
<1>3. ASSUME NEW v \in Viewers, Add(v) PROVE CountedInv'
  <2>8. UNCHANGED <<pipeline, sessionRefs, lingering, swept, leaving, gets>>
    BY <1>3 DEF Add, pipeVars, hlsRegistryVars, channelVars
  <2>1. \A p \in Pipes : EntryHolders(p)' = EntryHolders(p) \ {v}
    BY <1>3, EntryLetsGo DEF Add, EntryPlaces
  <2>2. /\ table'[v].holds /\ table'[v].plays = enters[v].pipe
        /\ \A w \in Viewers : w # v => table'[w] = table[w]
    BY <1>3 DEF Add, NoSession, TypesOK, TableOK
  <2>3. enters[v].at = "piped" /\ ~table[v].holds
    BY <1>3 DEF Add, FitsInv, SessionFitsEntry
  <2>9. \A p \in Pipes : HolderCount(p)' = HolderCount(p)
    <3> SUFFICES ASSUME NEW p \in Pipes PROVE HolderCount(p)' = HolderCount(p)
      OBVIOUS
    <3>1. UNCHANGED <<DepartureHolders(p), ResumeHolders(p)>>
      BY <2>8 DEF DepartureHolders, ResumeHolders
    <3>2. CASE enters[v].pipe = p
      <4>1. SessionHolders(p)' = SessionHolders(p) \cup {v} /\ v \notin SessionHolders(p)
        BY <1>3, <2>2, <2>3, <3>2 DEF SessionHolders
      <4>2. EntryHolders(p)' = EntryHolders(p) \ {v} /\ v \in EntryHolders(p)
        BY <1>3, <2>1, <2>3, <3>2 DEF EntryHolders
      <4>3. /\ Cardinality(SessionHolders(p)') = Cardinality(SessionHolders(p)) + 1
            /\ Cardinality(EntryHolders(p)') = Cardinality(EntryHolders(p)) - 1
        BY <4>1, <4>2, HoldersFinite, OneMore, OneLess
      <4> QED
        BY <3>1, <4>3, HoldersFinite DEF HolderCount
    <3>3. CASE enters[v].pipe # p
      <4>1. SessionHolders(p)' = SessionHolders(p)
        BY <2>2, <2>3, <3>3 DEF SessionHolders
      <4>2. EntryHolders(p)' = EntryHolders(p)
        BY <2>1, <3>3 DEF EntryHolders
      <4> QED
        BY <3>1, <4>1, <4>2 DEF HolderCount
    <3> QED
      BY <3>2, <3>3
  <2> QED
    BY <2>8, <2>9, CountKept
<1>4. ASSUME NEW v \in Viewers, ReCheck(v) PROVE CountedInv'
  <2>8. UNCHANGED <<pipeline, sessionRefs, lingering, swept, leaving, gets>>
            /\ enters[v].at = "added"
    BY <1>4 DEF ReCheck, pipeVars, hlsRegistryVars, channelVars
  <2>1. ASSUME Abandon(v, "gone") PROVE \A p \in Pipes : HolderCount(p)' = HolderCount(p)
    BY <1>4, <2>1, <2>8, AbandonCount
  <2>2. ASSUME ~Abandon(v, "gone") PROVE \A p \in Pipes : HolderCount(p)' = HolderCount(p)
    <3>1. \A p \in Pipes : EntryHolders(p)' = EntryHolders(p)
      BY <1>4, <2>2, <2>8, EntryStays DEF ReCheck, EntryPlaces
    <3>2. \A p \in Pipes : SessionHolders(p)' = SessionHolders(p)
      BY <1>4, <2>2 DEF ReCheck, SessionHolders
    <3> QED
      BY <2>8, <3>1, <3>2, SameCount DEF SameHolders, DepartureHolders, ResumeHolders
  <2>9. \A p \in Pipes : HolderCount(p)' = HolderCount(p)
    BY <2>1, <2>2
  <2> QED
    BY <2>8, <2>9, CountKept
<1>5. ASSUME NEW v \in Viewers, WaitReady(v) PROVE CountedInv'
  <2>1. UNCHANGED <<swept, leaving, gets>> /\ enters[v].at = "waiting"
    BY <1>5 DEF WaitReady, channelVars
  <2>2. ASSUME Abandon(v, "gone") PROVE \A p \in Pipes : HolderCount(p)' = HolderCount(p)
    BY <1>5, <2>1, <2>2, AbandonCount
  <2>3. ASSUME ~Abandon(v, "gone") PROVE \A p \in Pipes : HolderCount(p)' = HolderCount(p)
    <3>1. EntryGoes(v, "ready") /\ UNCHANGED table
      BY <1>5, <2>3 DEF WaitReady
    <3>2. \A p \in Pipes : EntryHolders(p)' = EntryHolders(p)
      BY <1>5, <2>1, <3>1, EntryStays DEF EntryPlaces
    <3> QED
      BY <2>1, <3>1, <3>2, SameCount DEF SameHolders, SessionHolders, DepartureHolders,
        ResumeHolders
  <2>4. \A p \in Pipes : HolderCount(p)' = HolderCount(p)
    BY <2>2, <2>3
  <2>5. CASE FailHLS(enters[v].pipe)
    BY <2>1, <2>4, <2>5, CountFails
  <2>6. CASE UNCHANGED hlsRegistryVars
    <3>1. UNCHANGED <<pipeline, sessionRefs, lingering>>
      BY <2>6 DEF hlsRegistryVars
    <3> QED
      BY <2>1, <2>4, <3>1, CountKept
  <2> QED
    BY <1>5, <2>5, <2>6 DEF WaitReady
<1>6. ASSUME NEW v \in Viewers, Connect(v) PROVE CountedInv'
  <2>8. UNCHANGED <<pipeline, sessionRefs, lingering, swept, leaving, gets>>
            /\ enters[v].at = "ready"
    BY <1>6 DEF Connect, pipeVars, hlsRegistryVars, channelVars
  <2>1. ASSUME Abandon(v, "gone") PROVE \A p \in Pipes : HolderCount(p)' = HolderCount(p)
    BY <1>6, <2>1, <2>8, AbandonCount
  <2>2. ASSUME ~Abandon(v, "gone") PROVE \A p \in Pipes : HolderCount(p)' = HolderCount(p)
    <3>1. \A p \in Pipes : EntryHolders(p)' = EntryHolders(p)
      BY <1>6, <2>2, <2>8, EntryStays DEF Connect, EntryPlaces
    <3>2. \A p \in Pipes : SessionHolders(p)' = SessionHolders(p)
      BY <1>6, <2>2 DEF Connect, SessionHolders
    <3> QED
      BY <2>8, <3>1, <3>2, SameCount DEF SameHolders, DepartureHolders, ResumeHolders
  <2>9. \A p \in Pipes : HolderCount(p)' = HolderCount(p)
    BY <2>1, <2>2
  <2> QED
    BY <2>8, <2>9, CountKept
<1>7. ASSUME NEW v \in Viewers, ActivateSession(v) PROVE CountedInv'
  <2>8. UNCHANGED <<pipeline, sessionRefs, lingering, swept, leaving, gets>>
            /\ enters[v].at = "announced"
    BY <1>7 DEF ActivateSession, pipeVars, hlsRegistryVars, channelVars
  <2>1. ASSUME Abandon(v, "unannounced") PROVE \A p \in Pipes : HolderCount(p)' = HolderCount(p)
    BY <1>7, <2>1, <2>8, AbandonCount
  <2>2. ASSUME ~Abandon(v, "unannounced") PROVE \A p \in Pipes : HolderCount(p)' = HolderCount(p)
    <3>1. \A p \in Pipes : EntryHolders(p)' = EntryHolders(p)
      BY <1>7, <2>2, <2>8, EntryStays DEF ActivateSession, EntryPlaces
    <3>2. \A p \in Pipes : SessionHolders(p)' = SessionHolders(p)
      <4>1. table' = [table EXCEPT ![v] = [@ EXCEPT !.state = "active", !.connected = TRUE,
                                                     !.inFlight = table[v].inFlight - 1]]
        BY <1>7, <2>2 DEF ActivateSession
      <4> QED
        BY <4>1 DEF SessionHolders, TypesOK, TableOK, SessionRecords
    <3> QED
      BY <2>8, <3>1, <3>2, SameCount DEF SameHolders, DepartureHolders, ResumeHolders
  <2>9. \A p \in Pipes : HolderCount(p)' = HolderCount(p)
    BY <2>1, <2>2
  <2> QED
    BY <2>8, <2>9, CountKept
<1>8. ASSUME NEW v \in Viewers, UndoEntry(v) PROVE CountedInv'
  <2>1. /\ enters[v].at \in {"refused", "unpiped", "unannounced"}
               /\ enters'[v].at \in {"unpiped", "gone"}
        /\ \A w \in Viewers : w # v => enters'[w] = enters[w]
    BY <1>8, EntryAt DEF UndoEntry, EntryPlaces
  <2>3. \A p \in Pipes : UNCHANGED <<SessionHolders(p), DepartureHolders(p), ResumeHolders(p)>>
    BY <1>8 DEF UndoEntry, SessionHolders, DepartureHolders, ResumeHolders
  <2>2. CASE enters[v].at = "refused"
    <3>1. PICK q \in Pipes : q = enters[v].pipe
      BY <1>8, <2>2 DEF FitsInv, SessionFitsEntry, TypesOK, EntersOK, EntryRecords
    <3>2. ReleasePipe(q) /\ UNCHANGED swept
      BY <1>8, <2>2, <3>1 DEF UndoEntry, channelVars
    <3>3. EntryHolders(q)' = EntryHolders(q) \ {v} /\ v \in EntryHolders(q)
      BY <1>8, <2>1, <2>2, <3>1 DEF EntryHolders
    <3>4. \A p \in Pipes : p # q => EntryHolders(p)' = EntryHolders(p)
      BY <1>8, <2>1, <2>2, <3>1 DEF EntryHolders
    <3>5. Cardinality(EntryHolders(q)') = Cardinality(EntryHolders(q)) - 1
      BY <3>3, HoldersFinite, OneLess
    <3>6. HolderCount(q)' = HolderCount(q) - 1
      BY <2>3, <3>5, HoldersFinite DEF HolderCount
    <3>7. \A p \in Pipes : p # q => HolderCount(p)' = HolderCount(p)
      BY <2>3, <3>4 DEF HolderCount
    <3>8. HolderCount(q)' \in Nat
      <4>1. Cardinality(EntryHolders(q)) >= 1
        <5>1. Cardinality(EntryHolders(q)) # 0
          BY <3>3, HoldersFinite, FS_EmptySet
        <5> QED
          BY <5>1, HoldersFinite
      <4> QED
        BY <3>6, <4>1, HoldersFinite DEF HolderCount
    <3> QED
      BY <3>2, <3>6, <3>7, <3>8, CountReleases
  <2>4. CASE ~(enters[v].at = "refused")
    <3>1. UNCHANGED <<pipeline, sessionRefs, lingering, swept>>
      BY <1>8, <2>4 DEF UndoEntry, pipeVars, hlsRegistryVars, channelVars
    <3>2. \A p \in Pipes : EntryHolders(p)' = EntryHolders(p)
      BY <1>8, <2>1, <2>4 DEF EntryHolders
    <3>3. \A p \in Pipes : HolderCount(p)' = HolderCount(p)
      BY <2>3, <3>2 DEF HolderCount
    <3> QED
      BY <3>1, <3>3, CountKept
  <2> QED
    BY <2>2, <2>4
<1>9. ASSUME NEW v \in Viewers, DepartIdle(v) PROVE CountedInv'
  <2>8. UNCHANGED <<pipeline, sessionRefs, lingering, swept, enters, gets>> /\ Custody(v)
    BY <1>9 DEF DepartIdle, CustodyInv, pipeVars, hlsRegistryVars, channelVars
  <2>1. ~table'[v].holds /\ \A w \in Viewers : w # v => table'[w] = table[w]
    BY <1>9 DEF DepartIdle, TypesOK, TableOK, SessionRecords
  <2>9. \A p \in Pipes : HolderCount(p)' = HolderCount(p)
    BY <1>9, <2>1, <2>8, LeaveCount DEF DepartIdle
  <2> QED
    BY <2>8, <2>9, CountKept
<1>10. ASSUME NEW v \in Viewers, Forget(v) PROVE CountedInv'
  <2>8. UNCHANGED <<pipeline, sessionRefs, lingering, swept, enters, leaving, gets>>
    BY <1>10 DEF Forget, pipeVars, hlsRegistryVars, channelVars
  <2>2. \A p \in Pipes : SessionHolders(p)' = SessionHolders(p)
    BY <1>10 DEF SessionHolders, Forget, NoSession, FitsInv, SessionFitsEntry, TypesOK, TableOK
  <2>9. \A p \in Pipes : HolderCount(p)' = HolderCount(p)
    BY <2>8, <2>2, SameCount DEF SameHolders, EntryHolders, DepartureHolders, ResumeHolders
  <2> QED
    BY <2>8, <2>9, CountKept
<1>11. ASSUME NEW v \in Viewers, Leave(v) PROVE CountedInv'
  <2>8. UNCHANGED <<pipeline, sessionRefs, lingering, swept, enters, gets>> /\ Custody(v)
    BY <1>11 DEF Leave, CustodyInv, pipeVars, hlsRegistryVars, channelVars
  <2>1. ~table'[v].holds /\ \A w \in Viewers : w # v => table'[w] = table[w]
    BY <1>11 DEF Leave, NoSession, TypesOK, TableOK, SessionRecords
  <2>9. \A p \in Pipes : HolderCount(p)' = HolderCount(p)
    BY <1>11, <2>1, <2>8, LeaveCount DEF Leave
  <2> QED
    BY <2>8, <2>9, CountKept
<1>12. ASSUME NEW v \in Viewers, EndClient(v) PROVE CountedInv'
  <2>8. UNCHANGED <<pipeline, sessionRefs, lingering, swept, enters, gets>> /\ Custody(v)
    BY <1>12 DEF EndClient, CustodyInv, pipeVars, hlsRegistryVars, channelVars
  <2>1. ~table'[v].holds /\ \A w \in Viewers : w # v => table'[w] = table[w]
    BY <1>12 DEF EndClient, TypesOK, TableOK, SessionRecords
  <2>9. \A p \in Pipes : HolderCount(p)' = HolderCount(p)
    BY <1>12, <2>1, <2>8, LeaveCount DEF EndClient
  <2> QED
    BY <2>8, <2>9, CountKept
<1>13. ASSUME NEW v \in Viewers, RunDeparture(v) PROVE CountedInv'
  <2>1. /\ leaving[v].at = "disconnect" => leaving'[v].at = "output"
               /\ leaving'[v].pipe = leaving[v].pipe
        /\ leaving[v].at = "output" => leaving'[v].at = "client"
        /\ leaving[v].at = "client" => leaving'[v].at \in {"settle", "none"}
        /\ leaving[v].at \in {"disconnect", "output", "client"}
        /\ \A w \in Viewers : w # v => leaving'[w] = leaving[w]
    BY <1>13 DEF RunDeparture, NoDeparture, TypesOK, LeavingOK, DepartureRecords
  <2>3. \A p \in Pipes : UNCHANGED <<EntryHolders(p), SessionHolders(p), ResumeHolders(p)>>
    BY <1>13 DEF RunDeparture, EntryHolders, SessionHolders, ResumeHolders
  <2>2. CASE leaving[v].at = "output"
    <3>1. PICK q \in Pipes : q = leaving[v].pipe
      BY <1>13, <2>2 DEF FitsInv, DepartureFits, TypesOK, LeavingOK, DepartureRecords
    <3>2. ReleasePipe(q) /\ UNCHANGED swept
      BY <1>13, <2>2, <3>1 DEF RunDeparture, channelVars
    <3>3. DepartureHolders(q)' = DepartureHolders(q) \ {v} /\ v \in DepartureHolders(q)
      BY <1>13, <2>1, <2>2, <3>1 DEF DepartureHolders
    <3>4. \A p \in Pipes : p # q => DepartureHolders(p)' = DepartureHolders(p)
      BY <1>13, <2>1, <2>2, <3>1 DEF DepartureHolders
    <3>5. Cardinality(DepartureHolders(q)') = Cardinality(DepartureHolders(q)) - 1
      BY <3>3, HoldersFinite, OneLess
    <3>6. HolderCount(q)' = HolderCount(q) - 1
      BY <2>3, <3>5, HoldersFinite DEF HolderCount
    <3>7. \A p \in Pipes : p # q => HolderCount(p)' = HolderCount(p)
      BY <2>3, <3>4 DEF HolderCount
    <3>8. HolderCount(q)' \in Nat
      <4>1. Cardinality(DepartureHolders(q)) >= 1
        <5>1. Cardinality(DepartureHolders(q)) # 0
          BY <3>3, HoldersFinite, FS_EmptySet
        <5> QED
          BY <5>1, HoldersFinite
      <4> QED
        BY <3>6, <4>1, HoldersFinite DEF HolderCount
    <3> QED
      BY <3>2, <3>6, <3>7, <3>8, CountReleases
  <2>4. CASE ~(leaving[v].at = "output")
    <3>1. UNCHANGED <<pipeline, sessionRefs, lingering, swept>>
      BY <1>13, <2>4 DEF RunDeparture, pipeVars, hlsRegistryVars, channelVars
    <3>2. \A p \in Pipes : DepartureHolders(p)' = DepartureHolders(p)
      BY <1>13, <2>1, <2>4 DEF DepartureHolders
    <3>3. \A p \in Pipes : HolderCount(p)' = HolderCount(p)
      BY <2>3, <3>2 DEF HolderCount
    <3> QED
      BY <3>1, <3>3, CountKept
  <2> QED
    BY <2>2, <2>4
<1>14. ASSUME NEW v \in Viewers, Settle(v) PROVE CountedInv'
  <2>8. UNCHANGED <<pipeline, sessionRefs, lingering, swept, enters, gets>>
    BY <1>14 DEF Settle, pipeVars, hlsRegistryVars, channelVars
  <2>2. \A p \in Pipes : SessionHolders(p)' = SessionHolders(p)
    BY <1>14 DEF SessionHolders, Settle, SettleSession, TypesOK, TableOK, SessionRecords
  <2>3. \A p \in Pipes : DepartureHolders(p)' = DepartureHolders(p)
    BY <1>14 DEF DepartureHolders, Settle, NoDeparture, TypesOK, LeavingOK
  <2>9. \A p \in Pipes : HolderCount(p)' = HolderCount(p)
    BY <2>8, <2>2, <2>3, SameCount DEF SameHolders, EntryHolders, ResumeHolders
  <2> QED
    BY <2>8, <2>9, CountKept
<1>15. ASSUME NEW g \in Requests, End(g) PROVE CountedInv'
  <2>8. UNCHANGED <<pipeline, sessionRefs, lingering, swept, enters, leaving>>
    BY <1>15 DEF End, pipeVars, hlsRegistryVars, channelVars
  <2>2. \A p \in Pipes : SessionHolders(p)' = SessionHolders(p)
    BY <1>15 DEF SessionHolders, End, FitsInv, RequestFitsEntry, TypesOK, TableOK, SessionRecords
  <2>4. \A p \in Pipes : ResumeHolders(p)' = ResumeHolders(p)
    BY <1>15, RequestAt DEF ResumeHolders, End, RequestPlaces
  <2>9. \A p \in Pipes : HolderCount(p)' = HolderCount(p)
    BY <2>8, <2>2, <2>4, SameCount DEF SameHolders, EntryHolders, DepartureHolders
  <2> QED
    BY <2>8, <2>9, CountKept
<1>16. ASSUME NEW g \in Requests, ResumeClient(g) PROVE CountedInv'
  <2>8. UNCHANGED <<pipeline, sessionRefs, lingering, swept, enters, table, leaving>>
    BY <1>16 DEF ResumeClient, pipeVars, hlsRegistryVars, channelVars
  <2>4. \A p \in Pipes : ResumeHolders(p)' = ResumeHolders(p)
    BY <1>16, RequestAt DEF ResumeHolders, ResumeClient, RequestPlaces
  <2>9. \A p \in Pipes : HolderCount(p)' = HolderCount(p)
    BY <2>8, <2>4, SameCount DEF SameHolders, EntryHolders, SessionHolders, DepartureHolders
  <2> QED
    BY <2>8, <2>9, CountKept
<1>17. ASSUME NEW g \in Requests, ResumePipe(g) PROVE CountedInv'
  <2>1. /\ gets[g].at = "client" /\ \A h \in Requests : h # g => gets'[h] = gets[h]
    BY <1>17, RequestAt DEF ResumePipe, RequestPlaces
  <2>2. \A p \in Pipes : UNCHANGED <<EntryHolders(p), SessionHolders(p), DepartureHolders(p)>>
            /\ UNCHANGED swept
    BY <1>17 DEF ResumePipe, channelVars, EntryHolders, SessionHolders, DepartureHolders
  <2>3. CASE pipeline = gets[g].pipe /\ gets[g].pipe # 0 /\ ~DoneClosed(gets[g].pipe)
    <3>1. PICK q \in Pipes : q = gets[g].pipe
      BY <2>3 DEF TypesOK, PipesOK
    <3>2. Join(q) /\ RequestGoes(g, "output") /\ pipeline = q
      BY <1>17, <2>3, <3>1 DEF ResumePipe
    <3>3. gets'[g].at = "output" /\ gets'[g].pipe = q
      <4>1. gets' = [gets EXCEPT ![g] = [@ EXCEPT !.at = "output"]]
        BY <3>2 DEF RequestGoes
      <4> QED
        BY <3>1, <4>1 DEF TypesOK, GetsOK, RequestRecords
    <3>4. ResumeHolders(q)' = ResumeHolders(q) \cup {g} /\ g \notin ResumeHolders(q)
      BY <2>1, <3>3 DEF ResumeHolders
    <3>5. Cardinality(ResumeHolders(q)') = Cardinality(ResumeHolders(q)) + 1
      BY <3>4, HoldersFinite, OneMore
    <3>6. HolderCount(q)' = HolderCount(q) + 1
      BY <2>2, <3>5, HoldersFinite DEF HolderCount
    <3> QED
      BY <2>2, <3>2, <3>6, CountJoins
  <2>4. CASE ~(pipeline = gets[g].pipe /\ gets[g].pipe # 0 /\ ~DoneClosed(gets[g].pipe))
    <3>1. RequestGoes(g, "undo") /\ UNCHANGED <<pipeline, sessionRefs, lingering, swept>>
      BY <1>17, <2>4 DEF ResumePipe, pipeVars, hlsRegistryVars, channelVars
    <3>2. gets'[g].at = "undo"
      BY <3>1, RequestAt DEF RequestPlaces
    <3>3. \A p \in Pipes : ResumeHolders(p)' = ResumeHolders(p)
      BY <2>1, <3>2 DEF ResumeHolders
    <3>4. \A p \in Pipes : HolderCount(p)' = HolderCount(p)
      BY <2>2, <3>3 DEF HolderCount
    <3> QED
      BY <3>1, <3>4, CountKept
  <2> QED
    BY <2>3, <2>4
<1>18. ASSUME NEW g \in Requests, CommitResume(g) PROVE CountedInv'
  <2>0. PICK u \in Viewers : u = gets[g].viewer
    BY <1>18 DEF CommitResume, FitsInv, RequestFitsEntry
  <2>1. gets[g].at = "output" /\ \A h \in Requests : h # g => gets'[h] = gets[h]
    BY <1>18, RequestAt DEF CommitResume, RequestPlaces
  <2>8. UNCHANGED <<pipeline, sessionRefs, lingering, swept, enters, leaving>>
    BY <1>18 DEF CommitResume, pipeVars, hlsRegistryVars, channelVars
  <2>2. \A p \in Pipes : UNCHANGED <<EntryHolders(p), DepartureHolders(p)>>
    BY <2>8 DEF EntryHolders, DepartureHolders
  <2>3. ASSUME ~Resumable(u) PROVE \A p \in Pipes : HolderCount(p)' = HolderCount(p)
    <3>1. RequestGoes(g, "unpipe") /\ UNCHANGED table
      BY <1>18, <2>0, <2>3 DEF CommitResume
    <3>2. gets' = [gets EXCEPT ![g] = [@ EXCEPT !.at = "unpipe"]]
      BY <3>1 DEF RequestGoes
    <3>3. gets'[g].at = "unpipe" /\ gets'[g].pipe = gets[g].pipe
      BY <1>18, <3>2 DEF TypesOK, GetsOK, RequestRecords
    <3>4. \A p \in Pipes : UNCHANGED <<SessionHolders(p), ResumeHolders(p)>>
      BY <2>1, <3>1, <3>3 DEF SessionHolders, ResumeHolders
    <3> QED
      BY <2>2, <3>4 DEF HolderCount
  <2>4. ASSUME Resumable(u) PROVE \A p \in Pipes : HolderCount(p)' = HolderCount(p)
    <3>1. gets'[g].at = "committed"
      BY <1>18, <2>0, <2>4, RequestAt DEF CommitResume, RequestPlaces
    <3>2. table' = [table EXCEPT ![u] = [@ EXCEPT !.state = "active", !.inFlight = 1,
                                                  !.connected = TRUE, !.holds = TRUE]]
      BY <1>18, <2>0, <2>4 DEF CommitResume
    <3>3. /\ table'[u].holds /\ table'[u].plays = table[u].plays /\ ~table[u].holds
          /\ \A w \in Viewers : w # u => table'[w] = table[w]
      BY <2>4, <3>2 DEF TypesOK, TableOK, SessionRecords, Resumable, FitsInv, SessionFitsEntry
    <3>4. gets[g].pipe = table[u].plays
      BY <1>18, <2>0, <2>1, <2>4 DEF Resumable, FitsInv, RequestFitsEntry
    <3> SUFFICES ASSUME NEW p \in Pipes PROVE HolderCount(p)' = HolderCount(p)
      OBVIOUS
    <3>5. CASE gets[g].pipe = p
      <4>1. SessionHolders(p)' = SessionHolders(p) \cup {u} /\ u \notin SessionHolders(p)
        BY <3>3, <3>4, <3>5 DEF SessionHolders
      <4>2. ResumeHolders(p)' = ResumeHolders(p) \ {g} /\ g \in ResumeHolders(p)
        BY <1>18, <2>1, <3>1, <3>5 DEF ResumeHolders
      <4>3. /\ Cardinality(SessionHolders(p)') = Cardinality(SessionHolders(p)) + 1
            /\ Cardinality(ResumeHolders(p)') = Cardinality(ResumeHolders(p)) - 1
        BY <4>1, <4>2, HoldersFinite, OneMore, OneLess
      <4> QED
        BY <2>2, <4>3, HoldersFinite DEF HolderCount
    <3>6. CASE gets[g].pipe # p
      <4>1. SessionHolders(p)' = SessionHolders(p)
        BY <3>3, <3>4, <3>6 DEF SessionHolders
      <4>2. ResumeHolders(p)' = ResumeHolders(p)
        BY <2>1, <3>1, <3>6 DEF ResumeHolders
      <4> QED
        BY <2>2, <4>1, <4>2 DEF HolderCount
    <3> QED
      BY <3>5, <3>6
  <2>9. \A p \in Pipes : HolderCount(p)' = HolderCount(p)
    BY <2>3, <2>4
  <2> QED
    BY <2>8, <2>9, CountKept
<1>19. ASSUME NEW g \in Requests, ResumeConnect(g) PROVE CountedInv'
  <2>8. UNCHANGED <<pipeline, sessionRefs, lingering, swept, enters, table, leaving>>
    BY <1>19 DEF ResumeConnect, pipeVars, hlsRegistryVars, channelVars
  <2>4. \A p \in Pipes : ResumeHolders(p)' = ResumeHolders(p)
    BY <1>19, RequestAt DEF ResumeHolders, ResumeConnect, RequestPlaces
  <2>9. \A p \in Pipes : HolderCount(p)' = HolderCount(p)
    BY <2>8, <2>4, SameCount DEF SameHolders, EntryHolders, SessionHolders, DepartureHolders
  <2> QED
    BY <2>8, <2>9, CountKept
<1>20. ASSUME NEW g \in Requests, UndoResume(g) PROVE CountedInv'
  <2>1. /\ gets[g].at \in {"unpipe", "unclient", "undo"}
               /\ gets'[g].at \in {"unclient", "failed", "idle"}
        /\ \A h \in Requests : h # g => gets'[h] = gets[h]
    BY <1>20, RequestAt DEF UndoResume, RequestPlaces
  <2>3. \A p \in Pipes : UNCHANGED <<EntryHolders(p), SessionHolders(p), DepartureHolders(p)>>
    BY <1>20 DEF UndoResume, EntryHolders, SessionHolders, DepartureHolders
  <2>2. CASE gets[g].at = "unpipe"
    <3>1. PICK q \in Pipes : q = gets[g].pipe
      BY <1>20, <2>2 DEF FitsInv, RequestFitsEntry, TypesOK, GetsOK, RequestRecords
    <3>2. ReleasePipe(q) /\ UNCHANGED swept
      BY <1>20, <2>2, <3>1 DEF UndoResume, channelVars
    <3>3. ResumeHolders(q)' = ResumeHolders(q) \ {g} /\ g \in ResumeHolders(q)
      BY <1>20, <2>1, <2>2, <3>1 DEF ResumeHolders
    <3>4. \A p \in Pipes : p # q => ResumeHolders(p)' = ResumeHolders(p)
      BY <1>20, <2>1, <2>2, <3>1 DEF ResumeHolders
    <3>5. Cardinality(ResumeHolders(q)') = Cardinality(ResumeHolders(q)) - 1
      BY <3>3, HoldersFinite, OneLess
    <3>6. HolderCount(q)' = HolderCount(q) - 1
      BY <2>3, <3>5, HoldersFinite DEF HolderCount
    <3>7. \A p \in Pipes : p # q => HolderCount(p)' = HolderCount(p)
      BY <2>3, <3>4 DEF HolderCount
    <3>8. HolderCount(q)' \in Nat
      <4>1. Cardinality(ResumeHolders(q)) >= 1
        <5>1. Cardinality(ResumeHolders(q)) # 0
          BY <3>3, HoldersFinite, FS_EmptySet
        <5> QED
          BY <5>1, HoldersFinite
      <4> QED
        BY <3>6, <4>1, HoldersFinite DEF HolderCount
    <3> QED
      BY <3>2, <3>6, <3>7, <3>8, CountReleases
  <2>4. CASE ~(gets[g].at = "unpipe")
    <3>1. UNCHANGED <<pipeline, sessionRefs, lingering, swept>>
      BY <1>20, <2>4 DEF UndoResume, pipeVars, hlsRegistryVars, channelVars
    <3>2. \A p \in Pipes : ResumeHolders(p)' = ResumeHolders(p)
      BY <1>20, <2>1, <2>4 DEF ResumeHolders
    <3>3. \A p \in Pipes : HolderCount(p)' = HolderCount(p)
      BY <2>3, <3>2 DEF HolderCount
    <3> QED
      BY <3>1, <3>3, CountKept
  <2> QED
    BY <2>2, <2>4
<1>21. ASSUME NEW g \in Requests, ResumeFailed(g) PROVE CountedInv'
  <2>8. UNCHANGED <<pipeline, sessionRefs, lingering, swept, enters, leaving>>
    BY <1>21 DEF ResumeFailed, pipeVars, hlsRegistryVars, channelVars
  <2>1. \A p \in Pipes : ResumeHolders(p)' = ResumeHolders(p)
    BY <1>21, RequestAt DEF ResumeHolders, ResumeFailed, RequestPlaces
  <2>2. \A p \in Pipes : SessionHolders(p)' = SessionHolders(p)
    <3>1. CASE table[gets[g].viewer].state = "departed"
              /\ MarkStopped({gets[g].viewer}, "channel")
      <4>1. {gets[g].viewer} \in SUBSET Viewers /\ UNCHANGED <<registry, announced>>
        BY <1>21 DEF ResumeFailed, FitsInv, RequestFitsEntry
      <4>2. \A w \in Viewers :
              IF w \in {gets[g].viewer} /\ table[w].state \in {"arrived", "active", "departed"}
              THEN table'[w] = [table[w] EXCEPT !.state = "stopped", !.holds = FALSE, !.plays = 0,
                                                !.ended = "channel"]
              ELSE table'[w] = table[w]
        BY <3>1, <4>1, Marking DEF TypesOK, MarkedBy
      <4>3. \A w \in Viewers : table[w] \in SessionRecords
        BY DEF TypesOK, TableOK
      <4>4. \A w \in Viewers : w # gets[g].viewer => table'[w] = table[w]
        BY <4>2
      <4>6. gets[g].at # "idle" /\ gets[g].viewer \in Viewers
        BY <1>21 DEF ResumeFailed, FitsInv, RequestFitsEntry
      <4>7. PICK u \in Viewers : u = gets[g].viewer
        BY <4>6
      <4>8. ~table[u].holds
        BY <3>1, <4>7 DEF FitsInv, SessionFitsEntry
      <4>9. table[u].state = "departed" /\ table'[u] = [table[u] EXCEPT !.state = "stopped",
                                                                        !.holds = FALSE,
                                                                            !.plays = 0,
                                                                                !.ended = "channel"]
        BY <3>1, <4>2, <4>7
      <4>10. ~table'[u].holds
        BY <4>3, <4>9 DEF SessionRecords
      <4> QED
        BY <4>4, <4>7, <4>8, <4>10 DEF SessionHolders
    <3>2. CASE UNCHANGED <<table, dropping>>
      BY <3>2 DEF SessionHolders
    <3> QED
      BY <1>21, <3>1, <3>2 DEF ResumeFailed
  <2>9. \A p \in Pipes : HolderCount(p)' = HolderCount(p)
    BY <2>1, <2>2, <2>8, SameCount DEF SameHolders, EntryHolders, DepartureHolders
  <2> QED
    BY <2>8, <2>9, CountKept
<1>22. ASSUME NEW g \in Requests, NEW v \in Viewers, Begin(g, v) PROVE CountedInv'
  <2>8. UNCHANGED <<pipeline, sessionRefs, lingering, swept, enters, leaving>>
    BY <1>22 DEF Begin, pipeVars, hlsRegistryVars, channelVars
  <2>2. \A p \in Pipes : SessionHolders(p)' = SessionHolders(p)
    BY <1>22 DEF SessionHolders, Begin, TypesOK, TableOK, SessionRecords
  <2>4. \A p \in Pipes : ResumeHolders(p)' = ResumeHolders(p)
    BY <1>22 DEF ResumeHolders, Begin, TypesOK, GetsOK
  <2>9. \A p \in Pipes : HolderCount(p)' = HolderCount(p)
    BY <2>8, <2>2, <2>4, SameCount DEF SameHolders, EntryHolders, DepartureHolders
  <2> QED
    BY <2>8, <2>9, CountKept
<1>23. ASSUME NEW q \in Pipes, PipeGoes(q) PROVE CountedInv'
  <2>8. UNCHANGED <<pipeline, sessionRefs, lingering, swept, enters, table, leaving, gets>>
    BY <1>23 DEF PipeGoes, pipeVars, hlsRegistryVars, channelVars
  <2>9. \A p \in Pipes : HolderCount(p)' = HolderCount(p)
    BY <2>8, SameCount DEF SameHolders, EntryHolders, SessionHolders, DepartureHolders,
      ResumeHolders
  <2> QED
    BY <2>8, <2>9, CountKept
<1>24. ASSUME NEW p \in Pipes, Watch(p) PROVE CountedInv'
  <2>1. UNCHANGED <<swept, enters, leaving, gets>>
    BY <1>24 DEF Watch, channelVars
  <2>2. CASE FailHLS(p) /\ UNCHANGED table
    <3>1. \A q \in Pipes : HolderCount(q)' = HolderCount(q)
      BY <2>1, <2>2, SameCount DEF SameHolders, EntryHolders, SessionHolders, DepartureHolders,
        ResumeHolders
    <3> QED
      BY <2>1, <2>2, <3>1, CountFails
  <2>3. CASE phaseOf[p] = "marked" /\ MarkStopped({v \in Viewers : table[v].plays = p}, "output")
            /\ UNCHANGED hlsRegistryVars
    <3>1. MarkStopped({v \in Viewers : table[v].plays = p}, "output")
      BY <2>3
    <3>2. UNCHANGED <<pipeline, sessionRefs, lingering, swept>> /\ pipeline # p
      BY <1>24, <2>1, <2>3 DEF hlsRegistryVars, PipePhase, Pipes
    <3>3. \A q \in Pipes : q # p => SessionHolders(q)' = SessionHolders(q)
      <4>1. {v \in Viewers : table[v].plays = p} \in SUBSET Viewers
                /\ UNCHANGED <<registry, announced>>
        BY <1>24 DEF Watch
      <4>2. \A w \in Viewers :
              IF w \in {v \in Viewers : table[v].plays = p}
                  /\ table[w].state \in {"arrived", "active", "departed"}
              THEN table'[w] = [table[w] EXCEPT !.state = "stopped", !.holds = FALSE, !.plays = 0,
                                                !.ended = "output"]
              ELSE table'[w] = table[w]
        BY <3>1, <4>1, Marking DEF TypesOK, MarkedBy
      <4>3. \A w \in Viewers : table[w] \in SessionRecords
        BY DEF TypesOK, TableOK
      <4>4. \A w \in Viewers : table[w].plays # p => table'[w] = table[w]
        BY <4>2
      <4>5. \A w \in Viewers : table[w].plays = p => table'[w] = table[w] \/ ~table'[w].holds
        BY <4>2, <4>3 DEF SessionRecords
      <4> QED
        BY <4>4, <4>5 DEF SessionHolders
    <3>4. \A q \in Pipes : q # p => HolderCount(q)' = HolderCount(q)
      BY <2>1, <3>3, SameCount DEF SameHolders, EntryHolders, DepartureHolders, ResumeHolders
    <3> QED
      BY <3>2, <3>4, CountKept
  <2> QED
    BY <1>24, <2>2, <2>3 DEF Watch
<1>25. ASSUME LingerEnds PROVE CountedInv'
  <2>1. UNCHANGED <<swept, sessionRefs, table, enters, leaving, gets>> /\ lingering' = 0
    BY <1>25 DEF LingerEnds, channelVars
  <2>2. pipeline' = 0
    BY <1>25 DEF LingerEnds, CountedInv, LingerFits
  <2> QED
    BY <2>1, <2>2 DEF CountedInv, Counted, LingerFits, Pipes
<1>26. ASSUME Boundary PROVE CountedInv'
  <2>8. UNCHANGED <<pipeline, sessionRefs, lingering, swept, enters, table, leaving, gets>>
    BY <1>26 DEF Boundary, pipeVars, hlsRegistryVars, channelVars
  <2>9. \A p \in Pipes : HolderCount(p)' = HolderCount(p)
    BY <2>8, SameCount DEF SameHolders, EntryHolders, SessionHolders, DepartureHolders,
      ResumeHolders
  <2> QED
    BY <2>8, <2>9, CountKept
<1>27. ASSUME StopChannel PROVE CountedInv'
  <2>1. UNCHANGED <<pipeline, sessionRefs, lingering, enters, leaving, gets>> /\ swept' = TRUE
    BY <1>27 DEF StopChannel, pipeVars, hlsRegistryVars
  <2>2. \A p \in Pipes : HolderCount(p)' <= HolderCount(p)
    <3>1. MarkStopped(Viewers, "channel")
      BY <1>27 DEF StopChannel
    <3>2. \A w \in Viewers : table'[w].holds => table'[w] = table[w]
      <4>1. Viewers \in SUBSET Viewers /\ UNCHANGED <<registry, announced>>
        BY <1>27 DEF StopChannel
      <4>2. \A w \in Viewers :
              IF w \in Viewers /\ table[w].state \in {"arrived", "active", "departed"}
              THEN table'[w] = [table[w] EXCEPT !.state = "stopped", !.holds = FALSE, !.plays = 0,
                                                !.ended = "channel"]
              ELSE table'[w] = table[w]
        BY <3>1, <4>1, Marking DEF TypesOK, MarkedBy
      <4>3. \A w \in Viewers : table[w] \in SessionRecords
        BY DEF TypesOK, TableOK
      <4> QED
        BY <4>2, <4>3 DEF SessionRecords
    <3> SUFFICES ASSUME NEW p \in Pipes PROVE HolderCount(p)' <= HolderCount(p)
      OBVIOUS
    <3>3. UNCHANGED <<EntryHolders(p), DepartureHolders(p), ResumeHolders(p)>>
      BY <2>1 DEF EntryHolders, DepartureHolders, ResumeHolders
    <3>4. SessionHolders(p)' \in SUBSET SessionHolders(p)
      BY <3>2 DEF SessionHolders
    <3>5. /\ Cardinality(SessionHolders(p)') <= Cardinality(SessionHolders(p))
          /\ Cardinality(SessionHolders(p)') \in Nat
      BY <3>4, HoldersFinite, FS_Subset, FS_CardinalityType
    <3> QED
      BY <3>3, <3>5, HoldersFinite DEF HolderCount
  <2>3. \A p \in Pipes : HolderCount(p) \in Nat /\ HolderCount(p)' \in Nat
    <3> SUFFICES ASSUME NEW p \in Pipes PROVE HolderCount(p) \in Nat /\ HolderCount(p)' \in Nat
      OBVIOUS
    <3>1. HolderCount(p) \in Nat
      BY HoldersFinite
    <3>2. IsFiniteSet(Viewers) /\ SessionHolders(p)' \in SUBSET Viewers
      BY HlsSessionsAssumption DEF HlsSessionsAssumption, SessionHolders
    <3>3. Cardinality(SessionHolders(p)') \in Nat
      BY <3>2, FS_Subset, FS_CardinalityType
    <3>4. UNCHANGED <<EntryHolders(p), DepartureHolders(p), ResumeHolders(p)>>
      BY <2>1 DEF EntryHolders, DepartureHolders, ResumeHolders
    <3> QED
      BY <3>1, <3>3, <3>4, HoldersFinite DEF HolderCount
  <2>4. \A p \in Pipes : Counted(p)'
    BY <2>1, <2>2, <2>3 DEF CountedInv, Counted
  <2> QED
    BY <2>1, <2>4 DEF CountedInv, LingerFits
<1>28. ASSUME DropStopped PROVE CountedInv'
  <2>8. UNCHANGED <<pipeline, sessionRefs, lingering, swept, enters, table, leaving, gets>>
    BY <1>28 DEF DropStopped, pipeVars, hlsRegistryVars, channelVars
  <2>9. \A p \in Pipes : HolderCount(p)' = HolderCount(p)
    BY <2>8, SameCount DEF SameHolders, EntryHolders, SessionHolders, DepartureHolders,
      ResumeHolders
  <2> QED
    BY <2>8, <2>9, CountKept
<1>29. ASSUME Unlist PROVE CountedInv'
  <2>8. UNCHANGED <<pipeline, sessionRefs, lingering, swept, enters, table, leaving, gets>>
    BY <1>29 DEF Unlist, pipeVars, hlsRegistryVars, channelVars
  <2>9. \A p \in Pipes : HolderCount(p)' = HolderCount(p)
    BY <2>8, SameCount DEF SameHolders, EntryHolders, SessionHolders, DepartureHolders,
      ResumeHolders
  <2> QED
    BY <2>8, <2>9, CountKept
<1>30. ASSUME OutputsStop PROVE CountedInv'
  <2>1. pipeline' = 0 /\ sessionRefs' = 0 /\ lingering' = 0
    BY <1>30 DEF OutputsStop
  <2> QED
    BY <2>1 DEF CountedInv, Counted, LingerFits, Pipes
<1>31. ASSUME RingCloses PROVE CountedInv'
  <2>8. UNCHANGED <<pipeline, sessionRefs, lingering, swept, enters, table, leaving, gets>>
    BY <1>31 DEF RingCloses, pipeVars, hlsRegistryVars, channelVars
  <2>9. \A p \in Pipes : HolderCount(p)' = HolderCount(p)
    BY <2>8, SameCount DEF SameHolders, EntryHolders, SessionHolders, DepartureHolders,
      ResumeHolders
  <2> QED
    BY <2>8, <2>9, CountKept
<1> QED
  BY <1>1, <1>2, <1>3, <1>4, <1>5, <1>6, <1>7, <1>8, <1>9, <1>10, <1>11, <1>12, <1>13, <1>14,
    <1>15, <1>16, <1>17, <1>18, <1>19, <1>20, <1>21, <1>22, <1>23, <1>24, <1>25, <1>26, <1>27,
    <1>28, <1>29, <1>30, <1>31
  DEF SessNext, EntryStep, DepartureStep, RequestStep, PipelineStep, MarkStep, ChannelEndStep

----------------------------------------------------------------------------

\* Tagging the elements of a finite set keeps its cardinality.
LEMMA TaggedCount ==
  ASSUME NEW tag, NEW S, IsFiniteSet(S)
  PROVE  LET T == {<<tag, x>> : x \in S}
         IN  IsFiniteSet(T) /\ Cardinality(T) = Cardinality(S)
<1> DEFINE T == {<<tag, x>> : x \in S}
           F == [x \in S |-> <<tag, x>>]
<1>1. F \in [S -> T] /\ \A a, b \in S : F[a] = F[b] => a = b
  OBVIOUS
<1>3. \A t \in T : \E x \in S : F[x] = t
  OBVIOUS
<1>4. F \in Bijection(S, T)
  <2> HIDE DEF F, T
  <2> QED
    BY <1>1, <1>3, Fun_IsBij
<1>2. ExistsBijection(S, T)
  BY <1>4 DEF ExistsBijection
<1> QED
  BY <1>2, FS_Bijection

\* The cardinality of a disjoint union.
LEMMA DisjointCount ==
  ASSUME NEW S, NEW T, IsFiniteSet(S), IsFiniteSet(T), S \cap T = {}
  PROVE  IsFiniteSet(S \cup T) /\ Cardinality(S \cup T) = Cardinality(S) + Cardinality(T)
<1>1. Cardinality(S) \in Nat /\ Cardinality(T) \in Nat /\ Cardinality(S \cap T) = 0
  BY FS_CardinalityType, FS_EmptySet
<1>2. /\ IsFiniteSet(S \cup T)
      /\ Cardinality(S \cup T) = Cardinality(S) + Cardinality(T) - Cardinality(S \cap T)
  BY FS_Union
<1> QED
  BY <1>1, <1>2

\* The set of holders that RefsAreHeld counts, by kinds of holder.
LEMMA HoldersCounted ==
  ASSUME TypesOK, NEW p \in Pipes
  PROVE  Cardinality(HoldersOf(p)) = HolderCount(p)
<1> DEFINE E == {<<"entry", v>> : v \in EntryHolders(p)}
           S == {<<"session", v>> : v \in SessionHolders(p)}
           D == {<<"departure", v>> : v \in DepartureHolders(p)}
           R == {<<"resume", g>> : g \in ResumeHolders(p)}
<1>1. /\ IsFiniteSet(E) /\ Cardinality(E) = Cardinality(EntryHolders(p))
      /\ IsFiniteSet(S) /\ Cardinality(S) = Cardinality(SessionHolders(p))
      /\ IsFiniteSet(D) /\ Cardinality(D) = Cardinality(DepartureHolders(p))
      /\ IsFiniteSet(R) /\ Cardinality(R) = Cardinality(ResumeHolders(p))
  BY HoldersFinite, TaggedCount
<1>2. E \cap S = {} /\ (E \cup S) \cap D = {} /\ ((E \cup S) \cup D) \cap R = {}
  OBVIOUS
<1>3. Cardinality(((E \cup S) \cup D) \cup R)
        = Cardinality(E) + Cardinality(S) + Cardinality(D) + Cardinality(R)
  <2> HIDE DEF E, S, D, R
  <2>1. IsFiniteSet(E \cup S) /\ Cardinality(E \cup S) = Cardinality(E) + Cardinality(S)
    BY <1>1, <1>2, DisjointCount
  <2>2. /\ IsFiniteSet((E \cup S) \cup D)
        /\ Cardinality((E \cup S) \cup D) = Cardinality(E \cup S) + Cardinality(D)
    BY <1>1, <1>2, <2>1, DisjointCount
  <2>3. Cardinality(((E \cup S) \cup D) \cup R) = Cardinality((E \cup S) \cup D) + Cardinality(R)
    BY <1>1, <1>2, <2>2, DisjointCount
  <2> QED
    BY <2>1, <2>2, <2>3
<1>4. EntryHolders(p) = {v \in Viewers : enters[v] \in [at : {"piped", "refused"}, pipe : {p}]}
  BY DEF EntryHolders, TypesOK, EntersOK, EntryRecords
<1>5. HoldersOf(p) = ((E \cup S) \cup D) \cup R
  BY <1>4, Zenon DEF HoldersOf, SessionHolders, DepartureHolders, ResumeHolders
<1> QED
  BY <1>1, <1>3, <1>5 DEF HolderCount

\* No pipeline is counted at first.
LEMMA InitCounted == SessInit => PipePhase /\ PipesStarted /\ CountedInv
BY DEF SessInit, PipePhase, PipesStarted, CountedInv, Counted, LingerFits, NoSession, NoDeparture,
       NoRequest, Pipes

RefsInv == PipePhase /\ PipesStarted /\ CountedInv

\* The count's own invariant holds on top of the session table's.
THEOREM RefsInvHolds == SessSpec => []RefsInv
<1>1. SessInit => RefsInv
  BY InitCounted DEF RefsInv
<1>2. SessCustodyInv /\ SessCustodyInv' /\ RefsInv /\ [SessNext]_sessVars => RefsInv'
  <2>1. ASSUME SessCustodyInv, RefsInv, SessNext PROVE RefsInv'
    <3>1. PipePhase' /\ PipesStarted'
      BY <2>1, StepPhase DEF SessCustodyInv, RefsInv
    <3>2. CountedInv'
      BY <2>1, StepCount DEF SessCustodyInv, RefsInv
    <3> QED
      BY <3>1, <3>2 DEF RefsInv
  <2>2. ASSUME RefsInv, UNCHANGED sessVars PROVE RefsInv'
    <3> USE <2>2 DEF sessVars, pipeVars, hlsRegistryVars, channelVars
    <3>1. PipePhase' /\ PipesStarted'
      BY DEF RefsInv, PipePhase, PipesStarted
    <3>2. \A p \in Pipes : HolderCount(p)' = HolderCount(p)
      BY SameCount
      DEF SameHolders, EntryHolders, SessionHolders, DepartureHolders, ResumeHolders
    <3>3. CountedInv'
      BY <3>2, CountKept DEF RefsInv
    <3> QED
      BY <3>1, <3>3 DEF RefsInv
  <2> QED
    BY <2>1, <2>2
<1> QED
  BY <1>1, <1>2, CustodyHolds, PTL DEF SessSpec

\* RefsAreHeld: the registered pipeline is counted exactly by those who will
\* release it, and with none left it lingers or is gone (hlsoutput.go).
THEOREM RefsHeld == SessSpec => []RefsAreHeld
<1>1. SessCustodyInv /\ RefsInv => RefsAreHeld
  <2> SUFFICES ASSUME SessCustodyInv, RefsInv PROVE RefsAreHeld
    OBVIOUS
  <2>1. ASSUME pipeline # 0, ~swept PROVE sessionRefs = Cardinality(HoldersOf(pipeline))
    <3>1. PICK p \in Pipes : p = pipeline
      BY <2>1 DEF SessCustodyInv, TypesOK, PipesOK
    <3>2. sessionRefs = HolderCount(p)
      BY <2>1, <3>1 DEF RefsInv, CountedInv, Counted
    <3> QED
      BY <3>1, <3>2, HoldersCounted DEF SessCustodyInv
  <2> QED
    BY <2>1 DEF RefsAreHeld, RefsInv, CountedInv, LingerFits
<1> QED
  BY <1>1, RefsInvHolds, CustodyHolds, PTL
==============================================================================

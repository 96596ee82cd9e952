---------------------------- MODULE HlsSessions ----------------------------
(***************************************************************************)
(* The HLS viewers of one channel: the session table (relay/session), the  *)
(* channel's registry of HLS pipelines with its linger and its failure     *)
(* mark (relay/channel/hlsoutput.go), the client registry, and the         *)
(* handlers that tie them together (relay/httpapi/hls.go).                 *)
(*                                                                         *)
(* Three locks are at work, none held across another's section: the        *)
(* table's, the outputs' and the channel's.  An action is one critical     *)
(* section; what a handler does next is a later action, and everything may *)
(* happen between them.  Time is abstract: a session with nothing in       *)
(* flight may have been idle for too long, a window may have passed.       *)
(*                                                                         *)
(* One pipeline key.  The channel itself is the ChannelManager module's;   *)
(* here it is unlisted, its outputs stop and its ring closes.              *)
(***************************************************************************)
EXTENDS Integers, FiniteSets

CONSTANTS
  Viewers,      \* one entry each, with a session id and a client id of its own
  Requests,     \* the GETs in progress
  Nobody,       \* no viewer
  MaxPipes,     \* bound: pipelines started
  LingerOn      \* Tuning.RewindWindow and RewindLinger are both set

ASSUME HlsSessionsAssumption ==
  /\ IsFiniteSet(Viewers) /\ IsFiniteSet(Requests) /\ Nobody \notin Viewers
  /\ MaxPipes \in Nat \ {0} /\ LingerOn \in BOOLEAN

Pipes == 1..MaxPipes

VARIABLES
  registry,                          \* Channel.clients
  pipeline, sessionRefs, failedMark, lingering,     \* hlsRegistry
  started, phaseOf, readied,         \* the pipelines, each with its failure watcher
  listed, runAt, swept, toSweep,     \* the channel; StopChannel calls under way
  table,                             \* Table.byID
  enters,                            \* the entry request of each viewer
  leaving,                           \* its Departure in progress
  dropping,                          \* StoppedClients not dropped yet
  gets,                              \* each GET: its place, viewer and pipeline
  announced                          \* ghost: client_connect minus client_disconnect

hlsRegistryVars == <<pipeline, sessionRefs, failedMark, lingering>>
pipeVars        == <<hlsRegistryVars, started, phaseOf, readied>>
channelVars     == <<listed, runAt, swept, toSweep>>
sessVars == <<registry, pipeVars, channelVars, table, enters, leaving, dropping, gets,
              announced>>

NoSession   == [state |-> "none", inFlight |-> 0, settling |-> FALSE, connected |-> FALSE,
                holds |-> FALSE, plays |-> 0, ended |-> "no"]
NoDeparture == [at |-> "none", pipe |-> 0, idle |-> FALSE, connected |-> FALSE]
NoRequest   == [at |-> "idle", viewer |-> Nobody, pipe |-> 0]

SessTypeOK ==
  /\ registry \subseteq Viewers
  /\ pipeline \in {0} \cup Pipes /\ lingering \in {0} \cup Pipes /\ started \in {0} \cup Pipes
  /\ sessionRefs \in Nat /\ failedMark \in BOOLEAN /\ readied \subseteq Pipes
  /\ phaseOf \in [Pipes -> {"none", "live", "stopping", "failing", "failed", "marked", "ended"}]
  /\ listed \in BOOLEAN /\ runAt \in {"running", "stopped", "closed"}
  /\ swept \in BOOLEAN /\ toSweep \in 0..2
  /\ table \in [Viewers -> [state : {"none", "arrived", "active", "departed", "stopped"},
                            inFlight : 0..Cardinality(Requests) + 1, settling : BOOLEAN,
                            connected : BOOLEAN, holds : BOOLEAN, plays : {0} \cup Pipes,
                            ended : {"no", "client", "channel", "output"}]]
  /\ enters \in [Viewers -> [at : {"out", "attached", "piped", "added", "waiting", "ready",
                                   "announced", "in", "refused", "unpiped", "unannounced",
                                   "gone"},
                             pipe : {0} \cup Pipes]]
  /\ leaving \in [Viewers -> [at : {"none", "disconnect", "output", "client", "settle"},
                              pipe : {0} \cup Pipes, idle : BOOLEAN, connected : BOOLEAN]]
  /\ dropping \subseteq Viewers \X BOOLEAN
  /\ gets \in [Requests -> [at : {"idle", "serving", "found", "client", "output", "committed",
                                  "unpipe", "unclient", "undo", "failed"},
                            viewer : Viewers \cup {Nobody}, pipe : {0} \cup Pipes]]
  /\ announced \in [Viewers -> Int]

SessInit ==
  /\ registry = {}
  /\ pipeline = 0 /\ sessionRefs = 0 /\ failedMark = FALSE /\ lingering = 0
  /\ started = 0 /\ phaseOf = [p \in Pipes |-> "none"] /\ readied = {}
  /\ listed = TRUE /\ runAt = "running" /\ swept = FALSE /\ toSweep = 0
  /\ table = [v \in Viewers |-> NoSession]
  /\ enters = [v \in Viewers |-> [at |-> "out", pipe |-> 0]]
  /\ leaving = [v \in Viewers |-> NoDeparture] /\ dropping = {}
  /\ gets = [g \in Requests |-> NoRequest]
  /\ announced = [v \in Viewers |-> 0]

\* An entry that is over no longer remembers its pipeline.
EntryGoes(v, place) ==
  enters' = [enters EXCEPT ![v] =
               [at |-> place, pipe |-> IF place \in {"in", "gone"} THEN 0 ELSE @.pipe]]
RequestGoes(g, place) ==
  gets' = [gets EXCEPT ![g] = IF place = "idle" THEN NoRequest ELSE [@ EXCEPT !.at = place]]
Announce(v, n) == announced' = [announced EXCEPT ![v] = @ + n]
OutputsOver == runAt # "running"
DoneClosed(p)  == phaseOf[p] \in {"failed", "marked", "ended"}

----------------------------------------------------------------------------
(* The registry of pipelines: one critical section of outMu each.          *)

\* AttachHLS and AttachHLSExisting: one more session, and a linger is over.
Join(p) ==
  /\ sessionRefs' = sessionRefs + 1
  /\ lingering' = IF lingering = p THEN 0 ELSE lingering
  /\ UNCHANGED <<pipeline, failedMark, started, phaseOf, readied>>

\* AttachHLS starts a pipeline when none is registered.
StartPipe ==
  /\ started < MaxPipes
  /\ started' = started + 1 /\ pipeline' = started' /\ sessionRefs' = 1
  /\ phaseOf' = [phaseOf EXCEPT ![started'] = "live"]
  /\ UNCHANGED <<failedMark, lingering, readied>>

\* Pipeline.Stop, on a goroutine of its own.
StopPipe(p) ==
  phaseOf' = [phaseOf EXCEPT ![p] = IF @ = "live" THEN "stopping" ELSE @]

LingerEligible(p) ==
  LingerOn /\ ~OutputsOver /\ lingering = 0 /\ ~DoneClosed(p) /\ p \in readied

\* One session fewer; at none the pipeline lingers or stops.
CountOut(p) ==
  /\ sessionRefs' = sessionRefs - 1
  /\ UNCHANGED <<failedMark, started, readied>>
  /\ \/ sessionRefs > 1 /\ UNCHANGED <<pipeline, lingering, phaseOf>>
     \/ /\ sessionRefs <= 1 /\ LingerEligible(p)
        /\ lingering' = p /\ UNCHANGED <<pipeline, phaseOf>>
     \/ /\ sessionRefs <= 1 /\ ~LingerEligible(p)
        /\ pipeline' = 0 /\ StopPipe(p) /\ UNCHANGED lingering

\* Mutant: a release counts against whatever pipeline is registered now.
ReleaseAnyPipe(p) == IF pipeline = 0 THEN UNCHANGED pipeVars ELSE CountOut(pipeline)

\* hlsRelease: only while p is still the registered pipeline.
ReleasePipe(p) == IF pipeline # p THEN UNCHANGED pipeVars ELSE CountOut(p)

Unregister(p) ==
  /\ pipeline' = 0 /\ sessionRefs' = 0
  /\ lingering' = IF lingering = p THEN 0 ELSE lingering

\* Mutant: a late failure marks the channel whatever runs by then.
FailHLSLate(p) ==
  /\ failedMark' = TRUE
  /\ IF pipeline = p THEN Unregister(p) ELSE UNCHANGED <<pipeline, sessionRefs, lingering>>

\* FailHLS: only while p is still registered.
FailHLS(p) ==
  IF pipeline = p THEN failedMark' = TRUE /\ Unregister(p) ELSE UNCHANGED hlsRegistryVars

\* endLinger: the linger's timer.
LingerEnds ==
  /\ lingering # 0 /\ lingering' = 0
  /\ IF pipeline = lingering /\ sessionRefs = 0
     THEN pipeline' = 0 /\ StopPipe(lingering)
     ELSE UNCHANGED <<pipeline, phaseOf>>
  /\ UNCHANGED <<registry, sessionRefs, failedMark, started, readied, channelVars, table, enters,
                 leaving, dropping, gets, announced>>

\* clearHLSFailed, at the next real source boundary.
Boundary ==
  /\ failedMark /\ ~OutputsOver /\ failedMark' = FALSE
  /\ UNCHANGED <<registry, pipeline, sessionRefs, lingering, started, phaseOf, readied,
                 channelVars, table, enters, leaving, dropping, gets, announced>>

\* The pipeline itself: its init segments, then finish (on an error or not),
\* and Done closed once its background work has wound down.
PipeGoes(p) ==
  /\ \/ phaseOf[p] = "live" /\ p \notin readied /\ readied' = readied \cup {p}
        /\ UNCHANGED phaseOf
     \/ /\ phaseOf[p] \in {"live", "stopping"} /\ UNCHANGED readied
        /\ phaseOf' = [phaseOf EXCEPT ![p] = "failing"]
     \/ /\ phaseOf[p] \in {"failing", "stopping"} /\ UNCHANGED readied
        /\ phaseOf' = [phaseOf EXCEPT ![p] = IF @ = "failing" THEN "failed" ELSE "ended"]
  /\ UNCHANGED <<registry, hlsRegistryVars, started, channelVars, table, enters, leaving,
                 dropping, gets, announced>>

----------------------------------------------------------------------------
(* Marks: sessions that end under their viewers.                           *)

\* stopLocked: the releases are discarded, the client entries that the
\* sessions held are for the caller to drop, the first reason stands.
MarkStopped(V, why) ==
  LET hit  == {v \in V : table[v].state \in {"arrived", "active", "departed"}}
      held == {v \in hit : table[v].holds /\ ~table[v].settling}
  IN  /\ table' = [v \in Viewers |->
            IF v \in hit
            THEN [table[v] EXCEPT !.state = "stopped", !.holds = FALSE, !.plays = 0, !.ended = why]
            ELSE table[v]]
      /\ dropping' = dropping \cup {<<v, table[v].connected>> : v \in held}

\* Mutant: every dropped client is sent a disconnect.
DropsStoppedLoudly ==
  \E d \in dropping :
    /\ dropping' = dropping \ {d}
    /\ registry' = registry \ {d[1]}
    /\ IF d[1] \in registry THEN Announce(d[1], -1) ELSE UNCHANGED announced

\* dropHLSClients, one entry at a time, with the client_disconnect it is owed.
DropsStopped ==
  \E d \in dropping :
    /\ dropping' = dropping \ {d}
    /\ registry' = registry \ {d[1]}
    /\ IF d[1] \in registry /\ d[2] THEN Announce(d[1], -1) ELSE UNCHANGED announced

DropStopped ==
  /\ DropsStopped
  /\ UNCHANGED <<pipeVars, channelVars, table, enters, leaving, gets>>

\* watchHLS, after Done closed on an error: FailHLS, then StopPipeline.
Watch(p) ==
  /\ \/ /\ phaseOf[p] = "failed" /\ phaseOf' = [phaseOf EXCEPT ![p] = "marked"]
        /\ FailHLS(p)
        /\ UNCHANGED <<table, dropping>>
     \/ /\ phaseOf[p] = "marked" /\ phaseOf' = [phaseOf EXCEPT ![p] = "ended"]
        /\ MarkStopped({v \in Viewers : table[v].plays = p}, "output")
        /\ UNCHANGED hlsRegistryVars
  /\ UNCHANGED <<registry, started, readied, channelVars, enters, leaving, gets, announced>>

\* The manager takes the channel out of its map, and will mark its sessions.
Unlist ==
  /\ listed /\ listed' = FALSE /\ toSweep' = toSweep + 1
  /\ UNCHANGED <<registry, pipeVars, runAt, swept, table, enters, leaving, dropping, gets,
                 announced>>

\* The run's deferred calls: stopOutputs, then the ring's end and the hook.
OutputsStop ==
  /\ runAt = "running" /\ runAt' = "stopped"
  /\ pipeline' = 0 /\ sessionRefs' = 0 /\ lingering' = 0
  /\ IF pipeline # 0 THEN StopPipe(pipeline) ELSE UNCHANGED phaseOf
  /\ UNCHANGED <<registry, failedMark, started, readied, listed, swept, toSweep, table, enters,
                 leaving, dropping, gets, announced>>

RingCloses ==
  /\ runAt = "stopped" /\ runAt' = "closed" /\ toSweep' = toSweep + 1
  /\ UNCHANGED <<registry, pipeVars, listed, swept, table, enters, leaving, dropping, gets,
                 announced>>

\* StopChannel (and StopIfSilent, whose verdict is ChannelManager's).
StopChannel ==
  /\ toSweep > 0 /\ toSweep' = toSweep - 1 /\ swept' = TRUE
  /\ MarkStopped(Viewers, "channel")
  /\ UNCHANGED <<registry, pipeVars, listed, runAt, enters, leaving, gets, announced>>

----------------------------------------------------------------------------
(* A viewer's entry.                                                       *)

\* Manager.Attach has registered the client.
Enter(v) ==
  /\ enters[v].at = "out" /\ listed /\ runAt = "running"
  /\ registry' = registry \cup {v}
  /\ EntryGoes(v, "attached")
  /\ UNCHANGED <<pipeVars, channelVars, table, leaving, dropping, gets, announced>>

\* AttachHLS.
AttachPipe(v) ==
  /\ enters[v].at = "attached"
  /\ \/ /\ OutputsOver \/ failedMark
        /\ EntryGoes(v, "unpiped")
        /\ UNCHANGED pipeVars
     \/ /\ ~OutputsOver /\ ~failedMark
        /\ IF pipeline # 0 THEN Join(pipeline) ELSE StartPipe
        /\ enters' = [enters EXCEPT ![v] = [at |-> "piped", pipe |-> pipeline']]
  /\ UNCHANGED <<registry, channelVars, table, leaving, dropping, gets, announced>>

\* Table.Add: ARRIVED, the entry in flight, the releases the table's now.
Add(v) ==
  /\ enters[v].at = "piped"
  /\ EntryGoes(v, "added")
  /\ table' = [table EXCEPT ![v] = [NoSession EXCEPT !.state = "arrived", !.inFlight = 1,
                                    !.holds = TRUE, !.plays = enters[v].pipe]]
  /\ UNCHANGED <<registry, pipeVars, channelVars, leaving, dropping, gets, announced>>

\* Mutant: an abandoned entry takes it that its stopper ran the releases.
AbandonQuietly(v, otherwise) ==
  /\ table' = [table EXCEPT ![v] = NoSession]
  /\ EntryGoes(v, otherwise)

\* Table.Abandon: the entry runs the releases that the table still held.
Abandon(v, otherwise) ==
  /\ table' = [table EXCEPT ![v] = NoSession]
  /\ EntryGoes(v, IF table[v].holds THEN "refused" ELSE otherwise)

\* The re-check after Add: a stopper that has swept already is seen here.
ReCheck(v) ==
  /\ enters[v].at = "added"
  /\ IF runAt = "closed" \/ DoneClosed(enters[v].pipe)
     THEN Abandon(v, "gone")
     ELSE EntryGoes(v, "waiting") /\ UNCHANGED table
  /\ UNCHANGED <<registry, pipeVars, channelVars, leaving, dropping, gets, announced>>

\* Ready, or the viewer gone, a deadline, a pipeline that stopped or failed.
WaitReady(v) ==
  LET p == enters[v].pipe
  IN  /\ enters[v].at = "waiting"
      /\ \/ p \in readied /\ EntryGoes(v, "ready") /\ UNCHANGED <<hlsRegistryVars, table>>
         \/ Abandon(v, "gone") /\ UNCHANGED hlsRegistryVars
         \/ /\ p \notin readied /\ phaseOf[p] \in {"failing", "failed", "marked"}
            /\ FailHLS(p) /\ Abandon(v, "gone")
      /\ UNCHANGED <<registry, started, phaseOf, readied, channelVars, leaving, dropping, gets,
                     announced>>

\* The multivariant is ready: client_connect, ahead of ACTIVE.
Connect(v) ==
  /\ enters[v].at = "ready"
  /\ IF DoneClosed(enters[v].pipe)
     THEN Abandon(v, "gone") /\ UNCHANGED announced
     ELSE EntryGoes(v, "announced") /\ Announce(v, 1) /\ UNCHANGED table
  /\ UNCHANGED <<registry, pipeVars, channelVars, leaving, dropping, gets>>

\* Table.Activate; an entry whose session ended meanwhile owes a disconnect.
ActivateSession(v) ==
  /\ enters[v].at = "announced"
  /\ IF table[v].state = "arrived"
     THEN /\ EntryGoes(v, "in")
          /\ table' = [table EXCEPT ![v] = [@ EXCEPT !.state = "active", !.connected = TRUE,
                                                     !.inFlight = table[v].inFlight - 1]]
     ELSE Abandon(v, "unannounced")
  /\ UNCHANGED <<registry, pipeVars, channelVars, leaving, dropping, gets, announced>>

\* abandon's releases, output first; the client's alone when AttachHLS failed.
UndoEntry(v) ==
  /\ \/ enters[v].at = "refused" /\ ReleasePipe(enters[v].pipe) /\ EntryGoes(v, "unpiped")
        /\ UNCHANGED <<registry, announced>>
     \/ enters[v].at = "unpiped" /\ registry' = registry \ {v} /\ EntryGoes(v, "gone")
        /\ UNCHANGED <<pipeVars, announced>>
     \/ enters[v].at = "unannounced" /\ Announce(v, -1) /\ EntryGoes(v, "gone")
        /\ UNCHANGED <<registry, pipeVars>>
  /\ UNCHANGED <<channelVars, table, leaving, dropping, gets>>

----------------------------------------------------------------------------
(* Departures.                                                             *)

\* takeLocked: what a live session held, for whoever ended it to release.
TakesLeave(v, idle) ==
  leaving' = IF table[v].holds
             THEN [leaving EXCEPT ![v] = [at |-> "disconnect", pipe |-> table[v].plays,
                                          idle |-> idle, connected |-> table[v].connected]]
             ELSE leaving

\* departLocked, by the sweeper or by a request that comes too late.
DepartIdle(v) ==
  /\ table[v].state = "active" /\ table[v].inFlight = 0
  /\ TakesLeave(v, TRUE)
  /\ table' = [table EXCEPT ![v] = [@ EXCEPT !.state = "departed", !.settling = TRUE,
                                             !.connected = FALSE, !.holds = FALSE]]
  /\ UNCHANGED <<registry, pipeVars, channelVars, enters, dropping, gets, announced>>

\* Sweep forgets a session past ResumeWindow.
Forget(v) ==
  /\ enters[v].at = "in"
  /\ \/ table[v].state = "departed" /\ ~table[v].settling
     \/ table[v].state = "stopped"
  /\ table' = [table EXCEPT ![v] = NoSession]
  /\ UNCHANGED <<registry, pipeVars, channelVars, enters, leaving, dropping, gets, announced>>

\* DELETE, under a token that only a viewer let in has: the session is removed
\* whatever its state.
Leave(v) ==
  /\ enters[v].at = "in" /\ table[v] # NoSession
  /\ TakesLeave(v, FALSE)
  /\ table' = [table EXCEPT ![v] = NoSession]
  /\ UNCHANGED <<registry, pipeVars, channelVars, enters, dropping, gets, announced>>

\* EndClient: an admin stop or a stream limit.
EndClient(v) ==
  /\ table[v].state \in {"arrived", "active"}
  /\ TakesLeave(v, FALSE)
  /\ table' = [table EXCEPT ![v] = [@ EXCEPT !.state = "stopped", !.holds = FALSE,
                                             !.plays = 0, !.ended = "client"]]
  /\ UNCHANGED <<registry, pipeVars, channelVars, enters, dropping, gets, announced>>

\* Departure.Run: the disconnect, the pipeline, the client.
RunDeparture(v) ==
  LET d == leaving[v]
      DepartureAt(place) == leaving' = [leaving EXCEPT ![v].at = place]
  IN  /\ \/ /\ d.at = "disconnect" /\ DepartureAt("output")
            /\ IF d.connected THEN Announce(v, -1) ELSE UNCHANGED announced
            /\ UNCHANGED <<registry, pipeVars>>
         \/ /\ d.at = "output" /\ ReleasePipe(d.pipe) /\ DepartureAt("client")
            /\ UNCHANGED <<registry, announced>>
         \/ /\ d.at = "client" /\ registry' = registry \ {v}
            /\ IF d.idle THEN DepartureAt("settle")
               ELSE leaving' = [leaving EXCEPT ![v] = NoDeparture]
            /\ UNCHANGED <<pipeVars, announced>>
      /\ UNCHANGED <<channelVars, table, enters, dropping, gets>>

\* Mutant: settle writes the state.
SettleAsDeparted(v) ==
  table' = [table EXCEPT ![v] = IF @ = NoSession THEN @
                                ELSE [@ EXCEPT !.settling = FALSE, !.state = "departed"]]

\* settle: resumable from now on, unless somebody has ended it meanwhile.
SettleSession(v) == table' = [table EXCEPT ![v].settling = FALSE]

Settle(v) ==
  /\ leaving[v].at = "settle"
  /\ leaving' = [leaving EXCEPT ![v] = NoDeparture]
  /\ SettleSession(v)
  /\ UNCHANGED <<registry, pipeVars, channelVars, enters, dropping, gets, announced>>

----------------------------------------------------------------------------
(* A GET under a session's token.                                          *)

\* Begin: served while the session is live, a resume when it has departed and
\* settled; anything else is answered at once.
Begin(g, v) ==
  /\ gets[g].at = "idle" /\ enters[v].at = "in"
  /\ \/ /\ table[v].state = "active"
        /\ table' = [table EXCEPT ![v].inFlight = @ + 1]
        /\ gets' = [gets EXCEPT ![g] = [at |-> "serving", viewer |-> v, pipe |-> 0]]
     \/ /\ table[v].state = "departed" /\ ~table[v].settling
        /\ gets' = [gets EXCEPT ![g] = [at |-> "found", viewer |-> v, pipe |-> table[v].plays]]
        /\ UNCHANGED table
  /\ UNCHANGED <<registry, pipeVars, channelVars, enters, leaving, dropping, announced>>

\* End.
End(g) ==
  LET v == gets[g].viewer
  IN  /\ gets[g].at = "serving"
      /\ RequestGoes(g, "idle")
      /\ table' = [table EXCEPT ![v].inFlight = IF @ > 0 THEN @ - 1 ELSE @]
      /\ UNCHANGED <<registry, pipeVars, channelVars, enters, leaving, dropping, announced>>

\* resumeHLS 1, AttachExisting: the running channel's, or the session ends.
ResumeClient(g) ==
  LET v == gets[g].viewer
  IN  /\ gets[g].at = "found"
      /\ IF ~listed \/ runAt = "closed" THEN RequestGoes(g, "failed") /\ UNCHANGED registry
         ELSE IF v \in registry THEN RequestGoes(g, "idle") /\ UNCHANGED registry
         ELSE RequestGoes(g, "client") /\ registry' = registry \cup {v}
      /\ UNCHANGED <<pipeVars, channelVars, table, enters, leaving, dropping, announced>>

\* resumeHLS 2, AttachHLSExisting: the pipeline it left, still registered.
ResumePipe(g) ==
  LET p == gets[g].pipe
  IN  /\ gets[g].at = "client"
      /\ IF pipeline = p /\ p # 0 /\ ~DoneClosed(p)
         THEN Join(p) /\ RequestGoes(g, "output")
         ELSE RequestGoes(g, "undo") /\ UNCHANGED pipeVars
      /\ UNCHANGED <<registry, channelVars, table, enters, leaving, dropping, announced>>

\* resumeHLS 3, ResumeCommit: still DEPARTED and not settling.
Resumable(v) == table[v].state = "departed" /\ ~table[v].settling

CommitResume(g) ==
  LET v == gets[g].viewer
  IN  /\ gets[g].at = "output"
      /\ IF Resumable(v)
         THEN /\ RequestGoes(g, "committed")
              /\ table' = [table EXCEPT ![v] = [@ EXCEPT !.state = "active", !.inFlight = 1,
                                                         !.connected = TRUE, !.holds = TRUE]]
         ELSE RequestGoes(g, "unpipe") /\ UNCHANGED table
      /\ UNCHANGED <<registry, pipeVars, channelVars, enters, leaving, dropping, announced>>

\* client_connect, after the commit.
ResumeConnect(g) ==
  /\ gets[g].at = "committed"
  /\ RequestGoes(g, "serving")
  /\ Announce(gets[g].viewer, 1)
  /\ UNCHANGED <<registry, pipeVars, channelVars, table, enters, leaving, dropping>>

\* What a failed resume undoes: the pipeline and the client of a refused
\* commit, the client alone when the pipeline was gone.
UndoResume(g) ==
  /\ \/ gets[g].at = "unpipe" /\ ReleasePipe(gets[g].pipe) /\ RequestGoes(g, "unclient")
        /\ UNCHANGED registry
     \/ gets[g].at \in {"unclient", "undo"} /\ registry' = registry \ {gets[g].viewer}
        /\ RequestGoes(g, IF gets[g].at = "undo" THEN "failed" ELSE "idle")
        /\ UNCHANGED pipeVars
  /\ UNCHANGED <<channelVars, table, enters, leaving, dropping, announced>>

\* ResumeFailed: the session ends, unless it is live or a stopper came first.
ResumeFailed(g) ==
  LET v == gets[g].viewer
  IN  /\ gets[g].at = "failed"
      /\ RequestGoes(g, "idle")
      /\ IF table[v].state = "departed" THEN MarkStopped({v}, "channel")
         ELSE UNCHANGED <<table, dropping>>
      /\ UNCHANGED <<registry, pipeVars, channelVars, enters, leaving, announced>>

----------------------------------------------------------------------------
EntryStep(v) ==
  \/ Enter(v) \/ AttachPipe(v) \/ Add(v) \/ ReCheck(v) \/ WaitReady(v) \/ Connect(v)
  \/ ActivateSession(v) \/ UndoEntry(v)
DepartureStep(v) ==
  \/ DepartIdle(v) \/ Forget(v) \/ Leave(v) \/ EndClient(v) \/ RunDeparture(v) \/ Settle(v)
RequestStep(g) ==
  \/ (\E v \in Viewers : Begin(g, v)) \/ End(g)
  \/ ResumeClient(g) \/ ResumePipe(g) \/ CommitResume(g) \/ ResumeConnect(g)
  \/ UndoResume(g) \/ ResumeFailed(g)

PipelineStep   == (\E p \in Pipes : PipeGoes(p)) \/ LingerEnds \/ Boundary
MarkStep       == (\E p \in Pipes : Watch(p)) \/ StopChannel \/ DropStopped
ChannelEndStep == Unlist \/ OutputsStop \/ RingCloses

SessNext ==
  \/ \E v \in Viewers : EntryStep(v) \/ DepartureStep(v)
  \/ \E g \in Requests : RequestStep(g)
  \/ PipelineStep \/ MarkStep \/ ChannelEndStep

SessSpec == SessInit /\ [][SessNext]_sessVars

----------------------------------------------------------------------------
(* Properties.                                                             *)

\* Who will still release pipeline p: an entry before its session, a session,
\* a departure, a resume before its commit or after its refusal.
HoldersOf(p) ==
  {<<"entry", v>> : v \in {v \in Viewers : enters[v] \in [at : {"piped", "refused"}, pipe : {p}]}}
  \cup {<<"session", v>> : v \in {v \in Viewers : table[v].holds /\ table[v].plays = p}}
  \cup {<<"departure", v>> :
          v \in {v \in Viewers : leaving[v].at \in {"disconnect", "output"} /\ leaving[v].pipe = p}}
  \cup {<<"resume", g>> :
          g \in {g \in Requests : gets[g].at \in {"output", "unpipe"} /\ gets[g].pipe = p}}

\* hlsoutput.go: the registered pipeline is counted exactly by those who will
\* release it, so it is never stopped under a viewer and never kept for
\* nobody; with no viewer it lingers or is gone.  Until the channel's own end,
\* whose mark discards the releases.
RefsAreHeld ==
  /\ pipeline # 0 /\ ~swept => sessionRefs = Cardinality(HoldersOf(pipeline))
  /\ lingering # 0 => lingering = pipeline /\ sessionRefs = 0
  /\ pipeline # 0 /\ sessionRefs = 0 /\ ~swept => lingering = pipeline

\* Who will still drop client v from the registry.
WillDrop(v) ==
  \/ enters[v].at \in {"attached", "piped", "refused", "unpiped"} \/ table[v].holds
  \/ leaving[v].at \in {"disconnect", "output", "client"}
  \/ \E g \in Requests :
       gets[g] \in [at : {"client", "output", "unpipe", "unclient", "undo"}, viewer : {v},
                    pipe : {0} \cup Pipes]
  \/ v \in {d[1] : d \in dropping}

\* A client entry keeps a channel alive: every one has somebody who will drop
\* it, and a session that holds its releases has its entry.
ClientsAreHeld ==
  \A v \in Viewers : /\ v \in registry => WillDrop(v)
                     /\ table[v].holds => v \in registry

\* table.go: a session that ended under its viewer stays ended, for the first
\* reason, until it is forgotten: no settle, resume or later stop revives it.
StoppedIsFinal ==
  [][\A v \in Viewers : table[v].state = "stopped"
       => \/ table'[v] = NoSession
          \/ table'[v].state = "stopped" /\ table'[v].ended = table[v].ended]_sessVars

\* The failure mark is the channel's and a pipeline that fails late must not
\* set it over the one that replaced it: they exclude each other.
MarkExcludesPipeline == failedMark => pipeline = 0

InProgress(v) ==
  \/ enters[v].at \in {"announced", "unannounced", "refused"} \/ leaving[v].at # "none"
  \/ v \in {d[1] : d \in dropping}
  \/ \E g \in Requests : gets[g].viewer = v /\ gets[g].at = "committed"

\* The events add up: when nothing is in progress for a viewer, it has been
\* announced exactly if its session is live.
ConnectsAreClosed ==
  \A v \in Viewers :
    ~InProgress(v) => announced[v] = (IF table[v].state = "active" THEN 1 ELSE 0)

\* hls.go:411: "no client_disconnect ever precedes its client_connect".  It
\* does: README, section 4.
ConnectPrecedesDisconnect == \A v \in Viewers : announced[v] >= 0
=============================================================================

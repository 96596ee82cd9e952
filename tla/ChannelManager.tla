--------------------------- MODULE ChannelManager ---------------------------
(***************************************************************************)
(* The relay's channel manager (relay/channel/manager.go, reclaim.go) with *)
(* what decides about a channel's life around it: the callers that tune,   *)
(* join and leave it (httpapi/stream.go, httpapi/hls.go), the deferred     *)
(* calls that end its run (channel.go, run), the HLS linger that holds it  *)
(* (hlsoutput.go) and the sweeps of its HLS sessions (session/table.go).   *)
(*                                                                         *)
(* One action is one critical section: m.mu, a channel's mu or outMu, or   *)
(* the session table's mu, each held for the whole of it.  A goroutine     *)
(* between two of them is a caller's pc, or a unit of one of the task      *)
(* counters when nothing but its existence matters.                        *)
(***************************************************************************)
EXTENDS Integers, FiniteSets

CONSTANTS
  Ids,       \* channel ids
  Callers,   \* client requests; a caller's client id is its own
  HlsCallers,\* those that ask for the HLS output
  None,      \* no gate
  Delays,    \* the values of Tuning.ShutdownDelay > 0 that are tried
  Lingers,   \* the values of Tuning.RewindLinger > 0 that are tried
  MaxChans,  \* bound: channels started
  MaxTunes   \* bound: tunes and resumes

ASSUME ConstantsAssumption ==
  /\ Ids # {} /\ None \notin Callers /\ HlsCallers \subseteq Callers
  /\ Delays \subseteq BOOLEAN /\ Lingers \subseteq BOOLEAN
  /\ MaxChans \in Nat /\ MaxTunes \in Nat

\* A channel is known by the order it was started in; 0 is no channel.
Chans == 1..MaxChans

VARIABLES
  entry,      \* m.channels
  gate,       \* m.starting: the caller that owns the id's gate
  releasing,  \* m.releasing
  born,       \* channels started so far
  of,         \* per channel: its id
  tuning,     \* per channel: is there a shutdown delay, a linger
  stage,      \* per channel: how far its run goroutine has come
  state,      \* per channel: the state that is reported
  cancelled,  \* per channel: its context is cancelled
  clients,    \* per channel: the registered clients
  refs,       \* per channel: the sessions attached to its HLS pipeline
  hold,       \* per channel: its HLS pipeline lingers
  line,       \* per channel: HLS pipelines started so far
  how,        \* history, per channel: how it left the map
  polls,      \* per channel: goroutines about to run StopIfIdle
  asks,       \* per channel: goroutines about to run stopWhenIdle
  checks,     \* per channel: goroutines about to run stopIfStillIdle
  fresh,      \* per channel: countdowns armed since a client last joined
  stale,      \* per channel: countdowns armed before that
  sweeps,     \* per channel: goroutines about to end its sessions and stop it
  cancels,    \* per channel: goroutines about to cancel it
  hook,       \* per channel: the run-ended hook: no, sweep, drop, over
  pc,         \* per caller
  id,         \* per caller: the channel id it asks for
  chan,       \* per caller: the channel it has
  mine,       \* per caller: the HLS pipeline it attached to
  waits,      \* per caller: the owner of the gate it waits on
  tunes       \* tunes and resumes so far

managerVars == <<entry, gate, releasing>>
birthVars   == <<born, of, tuning>>
runVars     == <<stage, state, cancelled>>
hlsVars     == <<refs, hold, line>>
idleTasks   == <<polls, asks, checks, fresh, stale>>
stopTasks   == <<sweeps, cancels, hook>>
askVars     == <<id, waits, tunes>>
callerVars  == <<pc, chan, mine, askVars>>
vars == <<managerVars, birthVars, runVars, clients, hlsVars, how, idleTasks,
          stopTasks, callerVars>>

Stages == {"none", "made", "run", "ended", "stopped", "closed", "fired",
           "posted", "released"}
States == {"initializing", "waiting_for_clients", "active", "stopping",
           "stopped", "error"}
Places == {"out", "claim", "wait", "start", "spawn", "ungate", "close", "in",
           "entry", "added", "checked", "active", "taken", "leave", "departing",
           "leaving", "away", "joining", "rejoined", "doomed", "halted", "swept"}

TypeOK ==
  /\ entry \in [Ids -> Chans \cup {0}]
  /\ gate \in [Ids -> Callers \cup {None}]
  /\ releasing \subseteq Chans
  /\ born \in 0..MaxChans
  /\ of \in [Chans -> Ids]
  /\ tuning \in [Chans -> [delay : BOOLEAN, linger : BOOLEAN]]
  /\ stage \in [Chans -> Stages] /\ state \in [Chans -> States]
  /\ cancelled \in [Chans -> BOOLEAN]
  /\ clients \in [Chans -> SUBSET Callers]
  /\ refs \in [Chans -> SUBSET Callers] /\ hold \in [Chans -> BOOLEAN]
  /\ line \in [Chans -> Nat] /\ mine \in [Callers -> Nat]
  /\ how \in [Chans -> {"no", "ended", "stop", "idle", "reclaim"}]
  /\ polls \in [Chans -> Nat] /\ asks \in [Chans -> Nat] /\ checks \in [Chans -> Nat]
  /\ fresh \in [Chans -> Nat] /\ stale \in [Chans -> Nat]
  /\ sweeps \in [Chans -> Nat] /\ cancels \in [Chans -> Nat]
  /\ hook \in [Chans -> {"no", "sweep", "drop", "over"}]
  /\ pc \in [Callers -> Places]
  /\ id \in [Callers -> Ids]
  /\ chan \in [Callers -> Chans \cup {0}]
  /\ waits \in [Callers -> Callers \cup {None}]
  /\ tunes \in 0..MaxTunes

Init ==
  /\ entry = [i \in Ids |-> 0] /\ gate = [i \in Ids |-> None] /\ releasing = {}
  /\ born = 0 /\ of = [c \in Chans |-> CHOOSE i \in Ids : TRUE]
  /\ tuning = [c \in Chans |-> [delay |-> FALSE, linger |-> FALSE]]
  /\ stage = [c \in Chans |-> "none"] /\ state = [c \in Chans |-> "initializing"]
  /\ cancelled = [c \in Chans |-> FALSE]
  /\ clients = [c \in Chans |-> {}]
  /\ refs = [c \in Chans |-> {}] /\ hold = [c \in Chans |-> FALSE]
  /\ line = [c \in Chans |-> 0] /\ mine = [p \in Callers |-> 0]
  /\ how = [c \in Chans |-> "no"]
  /\ polls = [c \in Chans |-> 0] /\ asks = [c \in Chans |-> 0]
  /\ checks = [c \in Chans |-> 0]
  /\ fresh = [c \in Chans |-> 0] /\ stale = [c \in Chans |-> 0]
  /\ sweeps = [c \in Chans |-> 0] /\ cancels = [c \in Chans |-> 0]
  /\ hook = [c \in Chans |-> "no"]
  /\ pc = [p \in Callers |-> "out"]
  /\ id = [p \in Callers |-> CHOOSE i \in Ids : TRUE]
  /\ chan = [p \in Callers |-> 0]
  /\ waits = [p \in Callers |-> None]
  /\ tunes = 0

OutputsStopped(c) == stage[c] \in {"stopped", "closed", "fired", "posted", "released"}
RingClosed(c)     == stage[c] \in {"closed", "fired", "posted", "released"}

Goes(p, place) == pc' = [pc EXCEPT ![p] = place]
Bump(f, c)     == [f EXCEPT ![c] = @ + 1]
Lessen(f, c)   == [f EXCEPT ![c] = @ - 1]

\* addClient: the countdowns that are already armed keep running.
AddClient(c, p) ==
  /\ clients' = [clients EXCEPT ![c] = @ \cup {p}]
  /\ stale' = [stale EXCEPT ![c] = @ + fresh[c]]
  /\ fresh' = [fresh EXCEPT ![c] = 0]

\* removeLocked: out of the map and, unless it has released, into releasing.
Remove(c, why) ==
  /\ entry' = [entry EXCEPT ![of[c]] = 0]
  /\ releasing' = IF stage[c] = "released" THEN releasing ELSE releasing \cup {c}
  /\ how' = [how EXCEPT ![c] = why]

----------------------------------------------------------------------------
(* Attach.                                                                 *)

Tune(p, i) ==
  /\ pc[p] = "out" /\ tunes < MaxTunes
  /\ tunes' = tunes + 1
  /\ id' = [id EXCEPT ![p] = i]
  /\ Goes(p, "claim")
  /\ UNCHANGED <<managerVars, birthVars, runVars, clients, hlsVars, how, idleTasks,
                 stopTasks, chan, mine, waits>>

\* claim finds a channel whose ring is open: the caller is registered.
ClaimJoins(p) ==
  LET c == entry[id[p]]
  IN  /\ pc[p] = "claim"
      /\ c # 0 /\ ~RingClosed(c)
      /\ AddClient(c, p)
      /\ chan' = [chan EXCEPT ![p] = c]
      /\ Goes(p, "in")
      /\ UNCHANGED <<managerVars, birthVars, runVars, hlsVars, how, polls, asks, checks,
                     stopTasks, mine, askVars>>

\* Mutant: a claim that does not look for a gate.
ClaimStartsBeside(p) ==
  LET i == id[p]
      c == entry[i]
  IN  /\ pc[p] = "claim"
      /\ \/ c = 0 /\ UNCHANGED <<entry, releasing, how>>
         \/ c # 0 /\ RingClosed(c) /\ Remove(c, "ended")
      /\ gate' = [gate EXCEPT ![i] = p]
      /\ Goes(p, "start")
      /\ UNCHANGED <<birthVars, runVars, clients, hlsVars, idleTasks, stopTasks,
                     id, waits, chan, mine, tunes>>

\* claim finds none, or drops a finished one: it waits on the gate of another
\* caller, or owns the gate.
ClaimStarts(p) ==
  LET i == id[p]
      c == entry[i]
  IN  /\ pc[p] = "claim"
      /\ \/ c = 0 /\ UNCHANGED <<entry, releasing, how>>
         \/ c # 0 /\ RingClosed(c) /\ Remove(c, "ended")
      /\ \/ /\ gate[i] # None
            /\ waits' = [waits EXCEPT ![p] = gate[i]]
            /\ Goes(p, "wait") /\ UNCHANGED gate
         \/ /\ gate[i] = None
            /\ gate' = [gate EXCEPT ![i] = p]
            /\ Goes(p, "start") /\ UNCHANGED waits
      /\ UNCHANGED <<birthVars, runVars, clients, hlsVars, idleTasks, stopTasks,
                     id, chan, mine, tunes>>

\* Mutant: a start that fails leaves its gate.
StartFailsGated(p) ==
  /\ pc[p] = "start"
  /\ chan' = [chan EXCEPT ![p] = 0]
  /\ Goes(p, "out")
  /\ UNCHANGED <<managerVars, birthVars, runVars, clients, hlsVars, how, idleTasks,
                 stopTasks, mine, askVars>>

\* start() failed or panicked: the deferred releaseGate still runs.
StartFails(p) ==
  /\ pc[p] = "start"
  /\ chan' = [chan EXCEPT ![p] = 0]
  /\ Goes(p, "ungate")
  /\ UNCHANGED <<managerVars, birthVars, runVars, clients, hlsVars, how, idleTasks,
                 stopTasks, mine, askVars>>

\* publish: a channel with its first client registered enters the map.
Publish(p) ==
  LET c == born + 1
  IN  /\ pc[p] = "start" /\ c \in Chans
      /\ born' = c
      /\ of' = [of EXCEPT ![c] = id[p]]
      /\ \E d \in Delays, l \in Lingers :
           tuning' = [tuning EXCEPT ![c] = [delay |-> d, linger |-> l]]
      /\ stage' = [stage EXCEPT ![c] = "made"]
      /\ clients' = [clients EXCEPT ![c] = {p}]
      /\ entry' = [entry EXCEPT ![id[p]] = c]
      /\ chan' = [chan EXCEPT ![p] = c]
      /\ Goes(p, "spawn")
      /\ UNCHANGED <<gate, releasing, state, cancelled, hlsVars, how, idleTasks, stopTasks,
                     mine, askVars>>

\* go c.run: its first step is the state.
Spawn(p) ==
  LET c == chan[p]
  IN  /\ pc[p] = "spawn"
      /\ stage' = [stage EXCEPT ![c] = "run"]
      /\ state' = [state EXCEPT ![c] = "waiting_for_clients"]
      /\ Goes(p, "ungate")
      /\ UNCHANGED <<managerVars, birthVars, cancelled, clients, hlsVars, how, idleTasks,
                     stopTasks, chan, mine, askVars>>

\* releaseGate takes the gate out of the map under the lock ...
DeleteGate(p) ==
  /\ pc[p] = "ungate"
  /\ gate' = [gate EXCEPT ![id[p]] = None]
  /\ Goes(p, "close")
  /\ UNCHANGED <<entry, releasing, birthVars, runVars, clients, hlsVars, how, idleTasks,
                 stopTasks, chan, mine, askVars>>

\* ... and closes it after: everyone who waits on it claims again.
CloseGate(p) ==
  /\ pc[p] = "close"
  /\ pc' = [q \in Callers |->
              CASE q = p -> IF chan[p] = 0 THEN "out" ELSE "in"
                [] q # p /\ pc[q] = "wait" /\ waits[q] = p -> "claim"
                [] OTHER -> pc[q]]
  /\ UNCHANGED <<managerVars, birthVars, runVars, clients, hlsVars, how, idleTasks,
                 stopTasks, chan, mine, askVars>>

----------------------------------------------------------------------------
(* An HLS client: its pipeline, its session, its resume.                   *)

Registered(c) == refs[c] # {} \/ hold[c]

\* AttachHLS: the channel's pipeline, or a new one; a linger ends.
AttachHLS(p) ==
  LET c == chan[p]
  IN  /\ pc[p] = "in" /\ p \in HlsCallers
      /\ \/ /\ OutputsStopped(c)
            /\ Goes(p, "leave") /\ UNCHANGED <<hlsVars, mine>>
         \/ /\ ~OutputsStopped(c)
            /\ line' = IF Registered(c) THEN line ELSE Bump(line, c)
            /\ mine' = [mine EXCEPT ![p] = line'[c]]
            /\ refs' = [refs EXCEPT ![c] = @ \cup {p}]
            /\ hold' = [hold EXCEPT ![c] = FALSE]
            /\ Goes(p, "entry")
      /\ UNCHANGED <<managerVars, birthVars, runVars, clients, how, idleTasks, stopTasks,
                     chan, askVars>>

\* Table.Add.
AddSession(p) ==
  /\ pc[p] = "entry"
  /\ Goes(p, "added")
  /\ UNCHANGED <<managerVars, birthVars, runVars, clients, hlsVars, how, idleTasks,
                 stopTasks, chan, mine, askVars>>

\* Mutant: an entry goes on without a look at the ring.
SeesAnyRing(p) ==
  /\ pc[p] = "added"
  /\ Goes(p, "checked")
  /\ UNCHANGED <<managerVars, birthVars, runVars, clients, hlsVars, how, idleTasks,
                 stopTasks, chan, mine, askVars>>

\* The ring is looked at after the session was added; an entry that finds it
\* closed abandons its session.
SeesOpenRing(p) ==
  /\ pc[p] = "added" /\ ~RingClosed(chan[p])
  /\ Goes(p, "checked")
  /\ UNCHANGED <<managerVars, birthVars, runVars, clients, hlsVars, how, idleTasks,
                 stopTasks, chan, mine, askVars>>

\* Table.Activate, a wait for the encoder later: the ring may have closed since.
Activate(p) ==
  /\ pc[p] = "checked"
  /\ Goes(p, "active")
  /\ UNCHANGED <<managerVars, birthVars, runVars, clients, hlsVars, how, idleTasks,
                 stopTasks, chan, mine, askVars>>

\* Whoever takes the session's releases runs them: Abandon, Leave and
\* EndClient end the session, an idle departure leaves it to be resumed.
TakeReleases(p) ==
  /\ \/ pc[p] \in {"added", "checked", "active"} /\ Goes(p, "taken")
     \/ pc[p] = "active" /\ Goes(p, "departing")
  /\ UNCHANGED <<managerVars, birthVars, runVars, clients, hlsVars, how, idleTasks,
                 stopTasks, chan, mine, askVars>>

\* hlsRelease: the last session of the registered pipeline starts a linger
\* when the tuning has one and the pipeline is ready (left open), and else
\* ends it.
ReleaseOutput(p) ==
  LET c == chan[p]
  IN  /\ pc[p] \in {"taken", "departing"}
      /\ refs' = [refs EXCEPT ![c] = @ \ {p}]
      /\ \/ /\ refs[c] = {p} /\ tuning[c].linger /\ ~OutputsStopped(c) /\ ~hold[c]
            /\ hold' = [hold EXCEPT ![c] = TRUE]
         \/ UNCHANGED hold
      /\ Goes(p, IF pc[p] = "taken" THEN "leave" ELSE "leaving")
      /\ UNCHANGED <<managerVars, birthVars, runVars, clients, line, how, idleTasks,
                     stopTasks, chan, mine, askVars>>

\* AttachExisting: a departed session comes back to the channel it left while
\* that is the running one, and to no other.
Resume(p) ==
  LET c == chan[p]
      Running == entry[of[c]] = c /\ ~RingClosed(c)
  IN  /\ pc[p] = "away" /\ tunes < MaxTunes
      /\ tunes' = tunes + 1
      /\ \/ Running /\ AddClient(c, p) /\ Goes(p, "joining")
         \/ ~Running /\ Goes(p, "out") /\ UNCHANGED <<clients, fresh, stale>>
      /\ UNCHANGED <<managerVars, birthVars, runVars, hlsVars, how, polls, asks, checks,
                     stopTasks, chan, mine, id, waits>>

\* AttachHLSExisting: only onto the pipeline the session left.
ResumePipeline(p) ==
  LET c    == chan[p]
      Same == ~OutputsStopped(c) /\ Registered(c) /\ mine[p] = line[c]
  IN  /\ pc[p] \in {"joining", "doomed"}
      /\ \/ Same
            /\ refs' = [refs EXCEPT ![c] = @ \cup {p}]
            /\ hold' = [hold EXCEPT ![c] = FALSE]
            /\ Goes(p, IF pc[p] = "joining" THEN "rejoined" ELSE "taken")
         \/ ~Same /\ Goes(p, "leave") /\ UNCHANGED <<refs, hold>>
      /\ UNCHANGED <<managerVars, birthVars, runVars, clients, line, how, idleTasks,
                     stopTasks, chan, mine, askVars>>

\* ResumeCommit; refused when the session expired meanwhile.
ResumeCommit(p) ==
  /\ pc[p] = "rejoined"
  /\ Goes(p, "active") \/ Goes(p, "taken")
  /\ UNCHANGED <<managerVars, birthVars, runVars, clients, hlsVars, how, idleTasks,
                 stopTasks, chan, mine, askVars>>

\* stopLocked: every session of the channel is STOPPED.  A session that holds
\* its releases loses them and its client entry is left to the sweeper; a
\* departed one cannot be resumed, and a resume in flight cannot commit.
StopSessions(c, place) ==
  pc' = [p \in Callers |->
           IF chan[p] # c THEN pc[p]
           ELSE CASE pc[p] \in {"added", "checked", "active"} -> place
                  [] pc[p] = "away"     -> "out"
                  [] pc[p] = "joining"  -> "doomed"
                  [] pc[p] = "rejoined" -> "taken"
                  [] OTHER -> pc[p]]

----------------------------------------------------------------------------
(* Leaving, and the idle decision.                                         *)

\* release drops the client and asks when it was the last.
DropClient(p) ==
  LET c == chan[p]
  IN  /\ pc[p] \in {"in", "leave", "leaving"}
      /\ clients' = [clients EXCEPT ![c] = @ \ {p}]
      /\ asks' = IF clients'[c] = {} THEN Bump(asks, c) ELSE asks
      /\ Goes(p, IF pc[p] = "leaving" THEN "away" ELSE "out")
      /\ UNCHANGED <<managerVars, birthVars, runVars, hlsVars, how, polls, checks, fresh,
                     stale, stopTasks, chan, mine, askVars>>

\* stopWhenIdle: nothing under a linger; at once, or after the delay.
StopWhenIdle(c) ==
  /\ asks[c] > 0
  /\ asks' = Lessen(asks, c)
  /\ \/ hold[c] /\ UNCHANGED <<fresh, checks>>
     \/ ~hold[c] /\ tuning[c].delay /\ fresh' = Bump(fresh, c) /\ UNCHANGED checks
     \/ ~hold[c] /\ ~tuning[c].delay /\ checks' = Bump(checks, c) /\ UNCHANGED fresh
  /\ UNCHANGED <<managerVars, birthVars, runVars, clients, hlsVars, how, polls, stale,
                 stopTasks, callerVars>>

\* StopIfIdle.
StopIfIdle(c) ==
  /\ polls[c] > 0
  /\ polls' = Lessen(polls, c)
  /\ asks' = IF clients[c] = {} THEN Bump(asks, c) ELSE asks
  /\ UNCHANGED <<managerVars, birthVars, runVars, clients, hlsVars, how, checks, fresh,
                 stale, stopTasks, callerVars>>

\* Mutant: the count is not looked at again under m.mu.
StopIfStillIdleUnchecked(c) ==
  /\ sweeps' = Bump(sweeps, c)
  /\ IF entry[of[c]] = c THEN Remove(c, "idle")
     ELSE UNCHANGED <<entry, releasing, how>>
  /\ UNCHANGED <<gate, birthVars, runVars, clients, hlsVars, polls, asks, cancels, hook,
                 callerVars>>

\* stopIfStillIdle's critical section.
StopIfStillIdle(c) ==
  /\ \/ /\ clients[c] = {} /\ ~hold[c]
        /\ sweeps' = Bump(sweeps, c)
        /\ IF entry[of[c]] = c THEN Remove(c, "idle")
           ELSE UNCHANGED <<entry, releasing, how>>
     \/ /\ ~(clients[c] = {} /\ ~hold[c])
        /\ UNCHANGED <<entry, releasing, how, sweeps>>
  /\ UNCHANGED <<gate, birthVars, runVars, clients, hlsVars, polls, asks, cancels, hook,
                 callerVars>>

DecideAtOnce(c) ==
  /\ checks[c] > 0 /\ checks' = Lessen(checks, c)
  /\ StopIfStillIdle(c)
  /\ UNCHANGED <<fresh, stale>>

CountdownEnds(c) ==
  /\ fresh[c] > 0 /\ fresh' = Lessen(fresh, c)
  /\ StopIfStillIdle(c)
  /\ UNCHANGED <<checks, stale>>

\* A countdown that was armed before a client last joined: nothing stopped it.
StaleCountdownEnds(c) ==
  /\ stale[c] > 0 /\ stale' = Lessen(stale, c)
  /\ StopIfStillIdle(c)
  /\ UNCHANGED <<checks, fresh>>

\* Mutant: the linger's end asks nobody.
EndLingerSilently(c) ==
  /\ hold[c]
  /\ hold' = [hold EXCEPT ![c] = FALSE]
  /\ UNCHANGED <<managerVars, birthVars, runVars, clients, refs, line, how, idleTasks,
                 stopTasks, callerVars>>

\* endLinger: the linger's timer.
EndLinger(c) ==
  /\ hold[c]
  /\ hold' = [hold EXCEPT ![c] = FALSE]
  /\ polls' = Bump(polls, c)
  /\ UNCHANGED <<managerVars, birthVars, runVars, clients, refs, line, how, asks, checks,
                 fresh, stale, stopTasks, callerVars>>

----------------------------------------------------------------------------
(* Stopping.                                                               *)

\* Stop and StopAll: take the channel out of the map, whoever watches it.
Stop(i) ==
  LET c == entry[i]
  IN  /\ c # 0
      /\ Remove(c, "stop")
      /\ sweeps' = Bump(sweeps, c)
      /\ UNCHANGED <<gate, birthVars, runVars, clients, hlsVars, idleTasks, cancels, hook,
                     callerVars>>

\* Mutant: the sessions end and the channel does not.
EndSessionsOnly(c) ==
  /\ sweeps[c] > 0
  /\ sweeps' = Lessen(sweeps, c)
  /\ StopSessions(c, "halted")
  /\ UNCHANGED <<managerVars, birthVars, runVars, clients, hlsVars, how, idleTasks, cancels,
                 hook, chan, mine, askVars>>

\* endSessions, first the table's part.
EndSessions(c) ==
  /\ sweeps[c] > 0
  /\ sweeps' = Lessen(sweeps, c)
  /\ cancels' = Bump(cancels, c)
  /\ StopSessions(c, "halted")
  /\ UNCHANGED <<managerVars, birthVars, runVars, clients, hlsVars, how, idleTasks, hook,
                 chan, mine, askVars>>

\* dropHLSClients, one client at a time.
DropSession(p) ==
  /\ pc[p] \in {"halted", "swept"}
  /\ clients' = [clients EXCEPT ![chan[p]] = @ \ {p}]
  /\ Goes(p, "out")
  /\ UNCHANGED <<managerVars, birthVars, runVars, hlsVars, how, idleTasks, stopTasks,
                 chan, mine, askVars>>

\* setState and stop; the wait for the run's end changes nothing.
Cancel(c) ==
  /\ cancels[c] > 0
  /\ cancels' = Lessen(cancels, c)
  /\ state' = [state EXCEPT ![c] = "stopping"]
  /\ cancelled' = [cancelled EXCEPT ![c] = TRUE]
  /\ UNCHANGED <<managerVars, birthVars, stage, clients, hlsVars, how, idleTasks, sweeps,
                 hook, callerVars>>

----------------------------------------------------------------------------
(* ReclaimFor, inside a blocked start().                                   *)

\* A channel that has not released for too long is forgotten.
ForgetStuck(p, c) ==
  /\ pc[p] = "start" /\ c \in releasing
  /\ releasing' = releasing \ {c}
  /\ UNCHANGED <<entry, gate, birthVars, runVars, clients, hlsVars, how, idleTasks,
                 stopTasks, callerVars>>

\* Mutant: a client that is no session is passed over.
MayBeSilentUnmatched(c) == \A q \in clients[c] : pc[q] \notin {"added", "checked"}

\* Every client of the channel is a session that may be silent: active, or
\* departed with its releases still running.
MayBeSilent(c) == \A q \in clients[c] : pc[q] \in {"active", "departing", "leaving"}

\* Case (b).  `wanted' is the channels whose stream is on a wanted profile.
Reclaim(p, c, wanted) ==
  /\ pc[p] = "start"
  /\ c \in wanted /\ wanted \cap releasing = {}
  /\ \A d \in wanted : entry[of[d]] = d => ~RingClosed(d) \/ stage[d] = "released"
  /\ entry[of[c]] = c /\ ~RingClosed(c)
  /\ MayBeSilent(c)
  /\ Remove(c, "reclaim")
  /\ StopSessions(c, "halted")
  /\ cancels' = Bump(cancels, c)
  /\ UNCHANGED <<gate, birthVars, runVars, clients, hlsVars, idleTasks, sweeps, hook,
                 chan, mine, askVars>>

----------------------------------------------------------------------------
(* The run goroutine's end: its deferred calls, last declared first.       *)

RunStep(c, before, after) ==
  /\ stage[c] = before
  /\ stage' = [stage EXCEPT ![c] = after]

Promote(c) ==
  /\ stage[c] = "run" /\ state[c] = "waiting_for_clients"
  /\ state' = [state EXCEPT ![c] = "active"]
  /\ UNCHANGED <<managerVars, birthVars, stage, cancelled, clients, hlsVars, how, idleTasks,
                 stopTasks, callerVars>>

\* Mutant: a run that is out of sources does not say so.
RunReturnsQuietly(c) ==
  /\ RunStep(c, "run", "ended")
  /\ state' = IF cancelled[c] THEN [state EXCEPT ![c] = "stopped"] ELSE state
  /\ UNCHANGED <<managerVars, birthVars, cancelled, clients, hlsVars, how, idleTasks,
                 stopTasks, callerVars>>

\* Cancelled, or out of sources.
RunReturns(c) ==
  /\ RunStep(c, "run", "ended")
  /\ state' = [state EXCEPT ![c] = IF cancelled[c] THEN "stopped" ELSE "error"]
  /\ UNCHANGED <<managerVars, birthVars, cancelled, clients, hlsVars, how, idleTasks,
                 stopTasks, callerVars>>

\* stopOutputs: the pipelines go and a linger with them; nobody is asked.
StopOutputs(c) ==
  /\ RunStep(c, "ended", "stopped")
  /\ refs' = [refs EXCEPT ![c] = {}]
  /\ hold' = [hold EXCEPT ![c] = FALSE]
  /\ UNCHANGED <<managerVars, birthVars, state, cancelled, clients, line, how, idleTasks,
                 stopTasks, callerVars>>

CloseRing(c) ==
  /\ RunStep(c, "stopped", "closed")
  /\ UNCHANGED <<managerVars, birthVars, state, cancelled, clients, hlsVars, how, idleTasks,
                 stopTasks, callerVars>>

\* The run-ended hook starts on a goroutine of its own, and done closes.
FireRunEnd(c) ==
  /\ RunStep(c, "closed", "fired")
  /\ hook' = [hook EXCEPT ![c] = "sweep"]
  /\ UNCHANGED <<managerVars, birthVars, state, cancelled, clients, hlsVars, how, idleTasks,
                 sweeps, cancels, callerVars>>

\* The release POST.
ReleaseSlot(c) ==
  /\ RunStep(c, "fired", "posted")
  /\ UNCHANGED <<managerVars, birthVars, state, cancelled, clients, hlsVars, how, idleTasks,
                 stopTasks, callerVars>>

\* onReleased, under m.mu.
Released(c) ==
  /\ RunStep(c, "posted", "released")
  /\ releasing' = releasing \ {c}
  /\ UNCHANGED <<entry, gate, birthVars, state, cancelled, clients, hlsVars, how, idleTasks,
                 stopTasks, callerVars>>

\* runEnded: the sweep after the ring has closed ...
HookSweeps(c) ==
  /\ hook[c] = "sweep"
  /\ StopSessions(c, "swept")
  /\ hook' = [hook EXCEPT ![c] =
                IF \E p \in Callers : pc'[p] = "swept" /\ chan[p] = c
                THEN "drop" ELSE "over"]
  /\ UNCHANGED <<managerVars, birthVars, runVars, clients, hlsVars, how, idleTasks, sweeps,
                 cancels, chan, mine, askVars>>

\* ... and, when it stopped a session, the idle question once their clients
\* are dropped.
HookAsks(c) ==
  /\ hook[c] = "drop"
  /\ \A p \in Callers : ~(pc[p] = "swept" /\ chan[p] = c)
  /\ hook' = [hook EXCEPT ![c] = "over"]
  /\ polls' = Bump(polls, c)
  /\ UNCHANGED <<managerVars, birthVars, runVars, clients, hlsVars, how, asks, checks,
                 fresh, stale, sweeps, cancels, callerVars>>

----------------------------------------------------------------------------
\* What a caller's goroutine does by itself once it has begun to attach.
Attaching(p) ==
  \/ ClaimJoins(p) \/ ClaimStarts(p) \/ StartFails(p) \/ Publish(p)
  \/ Spawn(p) \/ DeleteGate(p) \/ CloseGate(p)

\* What a goroutine that has work of this channel left does by itself.
Winding(c) ==
  \/ StopWhenIdle(c) \/ StopIfIdle(c) \/ DecideAtOnce(c)
  \/ EndSessions(c) \/ Cancel(c)
  \/ StopOutputs(c) \/ CloseRing(c) \/ FireRunEnd(c) \/ ReleaseSlot(c) \/ Released(c)
  \/ HookSweeps(c) \/ HookAsks(c)

Next ==
  \/ \E p \in Callers :
       \/ \E i \in Ids : Tune(p, i)
       \/ Attaching(p)
       \/ AttachHLS(p) \/ AddSession(p) \/ SeesOpenRing(p) \/ Activate(p)
       \/ TakeReleases(p) \/ ReleaseOutput(p) \/ Resume(p) \/ ResumePipeline(p) \/ ResumeCommit(p)
       \/ DropClient(p) \/ DropSession(p)
       \/ \E c \in Chans : ForgetStuck(p, c)
       \/ \E c \in Chans, wanted \in SUBSET Chans : Reclaim(p, c, wanted)
  \/ \E c \in Chans :
       \/ Winding(c) \/ CountdownEnds(c) \/ StaleCountdownEnds(c) \/ EndLinger(c)
       \/ Promote(c) \/ RunReturns(c)
  \/ \E i \in Ids : Stop(i)

Spec == Init /\ [][Next]_vars

\* Every goroutine that has begun goes on.  A start() is bounded by the
\* control plane's timeouts, and a source returns when its context is
\* cancelled; nothing forces a client to leave, a linger or a countdown to
\* end, or a source to fail.
FairSpec ==
  /\ Spec
  /\ \A p \in Callers : WF_vars(Attaching(p)) /\ WF_vars(DropSession(p))
  /\ \A c \in Chans :
       /\ WF_vars(Winding(c))
       /\ WF_vars(cancelled[c] /\ RunReturns(c))
----------------------------------------------------------------------------
(* Properties.                                                             *)

\* One caller at a time starts a channel under an id, and while it does no
\* channel is in the map under that id: neither a waiter woken by the gate nor
\* a claim that drops a finished channel slips in beside it.
OneStartPerId ==
  /\ \A p \in Callers :
       pc[p] \in {"start", "spawn", "ungate"} => gate[id[p]] = p
  /\ \A p \in Callers : pc[p] = "start" => entry[id[p]] = 0

\* No upstream runs that nothing can stop: a channel that was not cancelled is
\* the one in the map under its id, or a goroutine that will cancel it exists.
NoStrandedUpstream ==
  \A c \in Chans :
    stage[c] \in {"made", "run"} /\ ~cancelled[c]
      => entry[of[c]] = c \/ sweeps[c] + cancels[c] > 0

\* While its outputs run, a channel in the map with no client and no linger is
\* in somebody's hands: an idle question, a decision or a countdown is pending.
\* The drop and the decision are under different locks, and a linger, a stop
\* and a resume all pass between them.
IdleIsNoticed ==
  \A i \in Ids :
    LET c == entry[i]
    IN  c # 0 /\ ~OutputsStopped(c) /\ clients[c] = {} /\ ~hold[c]
          => polls[c] + asks[c] + checks[c] + fresh[c] + stale[c] > 0

\* A channel that was stopped as idle has no client and no linger ever after:
\* no client was handed a channel that was being torn down.
IdleStopIsFinal ==
  \A c \in Chans : how[c] = "idle" => clients[c] = {} /\ ~hold[c]

\* A channel reclaimed for a blocked tune had no viewer: what is left of its
\* clients are sessions the reclaim stopped, or that were leaving already.
ReclaimTakesNoViewer ==
  \A c \in Chans : how[c] = "reclaim" =>
    \A p \in clients[c] : pc[p] \in {"halted", "departing", "leaving"}

\* No session is served by a channel that is over: once the run-ended hook has
\* swept, none is active and none becomes so, though an entry or a resume that
\* attached before the stop adds its session or commits after it.
SessionsEndWithChannel ==
  \A p \in Callers : pc[p] = "active" => hook[chan[p]] \in {"no", "sweep"}

\* slot_reconciler.py counts every listed channel as a holder of its slot
\* unless its state is stopped or error: no listed channel in another state
\* has given its slot back.
ListedChannelHoldsSlot ==
  \A i \in Ids :
    LET c == entry[i]
    IN  c # 0 /\ state[c] \notin {"stopped", "error"}
          => stage[c] \notin {"posted", "released"}

\* Whoever waits on a releasing channel waits for something that is still to
\* come: it is out of the map and has not released.
ReleasingIsOutstanding ==
  \A c \in releasing : entry[of[c]] # c /\ stage[c] \notin {"none", "released"}

\* A caller that waits on another's start goes on, whether that start
\* succeeded, failed or panicked.
GateOpens ==
  \A p \in Callers : pc[p] = "wait" ~> pc[p] # "wait"

\* A channel that left the map gives its slot back.
RemovedIsReleased ==
  \A c \in Chans : how[c] # "no" ~> stage[c] = "released"

\* manager.go, Manager.starting: the gate "is what makes 'one upstream per
\* channel' a property of the code".
OneUpstreamPerChannel ==
  \A c, d \in Chans : c # d /\ stage[c] = "run" /\ stage[d] = "run" => of[c] # of[d]

\* manager.go, Attach: release "drops the client and, when that was the last
\* one, stops the channel after ShutdownDelay": a countdown begun before a
\* client last joined stops nothing.
DelayRunsFromLastRelease ==
  [][\A c \in Chans : StaleCountdownEnds(c) => UNCHANGED sweeps]_vars

\* manager.go, claim: a finished channel "stays in the map until its last
\* client releases -- and release stops it, so the entry cannot outlive the
\* clients watching it".
FinishedEntryHasAWatcher ==
  \A i \in Ids :
    LET c == entry[i]
    IN  c # 0 /\ stage[c] = "released" /\ hook[c] = "over" /\ clients[c] = {}
          => polls[c] + asks[c] + checks[c] + fresh[c] + stale[c] > 0
============================================================================

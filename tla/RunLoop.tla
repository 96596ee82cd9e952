------------------------------ MODULE RunLoop ------------------------------
(***************************************************************************)
(* The supervisor goroutine of one relay channel (relay/channel/channel.go *)
(* run), with the three that steer it: the health monitor (health.go), the *)
(* stderr reader of a transcoded attempt that switches on a buffering      *)
(* timeout (failover.go failoverFromBuffering) and an operator's Advance   *)
(* (advance.go).  An attempt is one Source.Run on `playing`, the loop's    *)
(* local variable; `source` is Channel.source, what the switches rewrite   *)
(* and every status answer, failover request and slot release reads.       *)
(*                                                                         *)
(* Time is abstract: a check may find the stream silent or not, an attempt *)
(* may prove stable or not, the window of the failure counter may have     *)
(* passed or not.  Left out: events, statistics, the degraded-failover     *)
(* notice and the lifecycle state (see ChannelManager).                    *)
(***************************************************************************)
EXTENDS Naturals, FiniteSets

CONSTANTS
  Streams,              \* the channel's stream ids
  Url,                  \* Url[s]: what stream s plays; two streams may share one
  First,                \* the stream the tune answered
  MaxStreamSwitches,    \* Tuning.MaxStreamSwitches
  MaxRetries,           \* Tuning.MaxRetries
  MaxUnhealthyChecks,   \* maxUnhealthyChecks
  Nobody,               \* no stream, no holder of switchMu
  MaxAdvances,          \* bound: operator switches
  MaxCalm               \* bound: runs that prove stable, windows that pass

ASSUME RunLoopAssumption ==
  /\ First \in Streams
  /\ Nobody \notin Streams \cup {"loop", "reader", "operator"}
  /\ MaxStreamSwitches \in Nat /\ MaxRetries \in Nat \ {0}
  /\ MaxUnhealthyChecks \in Nat \ {0}
  /\ MaxAdvances \in Nat /\ MaxCalm \in Nat

VARIABLES
  loop,            \* where run() is
  playing,         \* run's local source
  cut,             \* the running attempt's context is cancelled
  halted,          \* the channel's context is cancelled
  urlFailed,       \* run's local of that name
  failures,        \* failureCounter.count
  switches, source, tried, queued, needsSwitch, needsReconnect, healthy,
  unhealthy,       \* monitorHealth's unhealthyChecks
  switchMu,        \* who holds it: "loop", "reader", "operator" or Nobody
  reader,          \* where failoverFromBuffering is, in this attempt
  parked,          \* the sources that unfinished switches have still to park
  advances, calm,  \* counters of the two bounds
  rotation         \* ghost: automatic switches since a run last proved stable

runnerVars  == <<loop, playing, cut, urlFailed>>
switchVars  == <<source, tried, failures>>
monitorVars == <<needsSwitch, needsReconnect, healthy, unhealthy>>
boundVars   == <<advances, calm>>
handVars    == <<switchMu, reader, parked>>
runLoopVars == <<runnerVars, halted, switchVars, switches, queued, monitorVars, handVars,
             boundVars, rotation>>

LoopPlaces   == {"outer", "inner", "attempt", "returned", "judge", "backoff", "decide",
                 "health", "retries", "done"}
ReaderPlaces == {"idle", "waiting", "calling", "parking", "spent"}

RunTypeOK ==
  /\ loop \in LoopPlaces /\ playing \in Streams /\ source \in Streams
  /\ cut \in BOOLEAN /\ halted \in BOOLEAN /\ urlFailed \in BOOLEAN
  /\ failures \in 0..MaxRetries /\ switches \in 0..(MaxStreamSwitches + 1)
  /\ tried \subseteq Streams /\ queued \in Streams \cup {Nobody}
  /\ parked \in [reader : Streams \cup {Nobody}, operator : Streams \cup {Nobody}]
  /\ needsSwitch \in BOOLEAN /\ needsReconnect \in BOOLEAN /\ healthy \in BOOLEAN
  /\ unhealthy \in 0..MaxUnhealthyChecks
  /\ switchMu \in {"loop", "reader", "operator", Nobody} /\ reader \in ReaderPlaces
  /\ advances \in 0..MaxAdvances /\ calm \in 0..MaxCalm /\ rotation \in Nat

RunInit ==
  /\ loop = "outer" /\ playing = First /\ source = First
  /\ cut = FALSE /\ halted = FALSE /\ urlFailed = FALSE
  /\ failures = 0 /\ switches = 0 /\ tried = {First}
  /\ queued = Nobody /\ parked = [reader |-> Nobody, operator |-> Nobody]
  /\ needsSwitch = FALSE /\ needsReconnect = FALSE /\ healthy = FALSE /\ unhealthy = 0
  /\ switchMu = Nobody /\ reader = "idle"
  /\ advances = 0 /\ calm = 0 /\ rotation = 0

LoopGoes(place) == loop' = place
Calm == calm < MaxCalm /\ calm' = calm + 1

----------------------------------------------------------------------------
(* A switch of source, whoever asks for it.                                *)

\* What a failover asks Django, or its cache, to leave out.
Excluded == tried \cup {source}

\* failover and Advance take switchMu for the whole call to the control plane.
Lock(who) == switchMu = Nobody /\ switchMu' = who

\* applySwitch, with the caller's own entry in the tried set.
ApplySwitch(s) ==
  /\ source' = s
  /\ tried' = tried \cup {s}
  /\ failures' = 0

\* failover's answers: nothing left or no answer, the URL already playing
\* (which is tried from then on), or a source to switch to.
Refused ==
  /\ UNCHANGED source
  /\ \/ UNCHANGED tried
     \/ \E s \in Streams \ Excluded :
          Url[s] = Url[source] /\ tried' = tried \cup {s}
Resolved(s) ==
  /\ s \notin Excluded /\ Url[s] # Url[source]
  /\ ApplySwitch(s)

----------------------------------------------------------------------------
(* The run loop.                                                           *)

\* The outer condition; an end of the context or of the switches ends the run.
Outer ==
  /\ loop = "outer"
  /\ urlFailed' = FALSE
  /\ LoopGoes(IF halted \/ switches > MaxStreamSwitches THEN "done" ELSE "inner")
  /\ UNCHANGED <<playing, cut, halted, switchVars, switches, queued, monitorVars, handVars,
                 boundVars, rotation>>

\* The inner condition and, when it holds, the start of runAttempt.
Attempt ==
  /\ loop = "inner"
  /\ IF halted \/ failures >= MaxRetries \/ urlFailed \/ needsSwitch
     THEN /\ LoopGoes("decide")
          /\ UNCHANGED <<cut, healthy, reader>>
     ELSE /\ LoopGoes("attempt")
          /\ cut' = FALSE /\ healthy' = TRUE /\ reader' = "idle"
  /\ UNCHANGED <<playing, urlFailed, halted, switchVars, switches, queued, needsSwitch,
                 needsReconnect, unhealthy, switchMu, parked, boundVars, rotation>>

\* Source.Run returns: by itself, or because its context was cancelled.  A
\* transcode waits for its stderr reader first.
Return ==
  /\ loop = "attempt" /\ reader \in {"idle", "spent"}
  /\ LoopGoes("returned")
  /\ UNCHANGED <<playing, cut, urlFailed, halted, switchVars, switches, queued, monitorVars,
                 handVars, boundVars, rotation>>

\* takePending: the source a switch has parked is the one to play.
TakePending ==
  /\ loop = "returned"
  /\ queued' = Nobody
  /\ IF halted THEN LoopGoes("done") /\ UNCHANGED playing
     ELSE IF queued # Nobody THEN LoopGoes("decide") /\ playing' = queued
     ELSE LoopGoes("judge") /\ UNCHANGED playing
  /\ UNCHANGED <<cut, urlFailed, halted, switchVars, switches, monitorVars, handVars, boundVars,
                 rotation>>

\* noteStable and resetSwitches, when the attempt lasted StableThreshold.
Stable ==
  /\ Calm
  /\ tried' = {source} /\ switches' = 0 /\ rotation' = 0

\* Mutant: an attempt that the monitor ended is not counted.
CountFailureSparesReconnect ==
  \/ /\ needsReconnect
     /\ LoopGoes("backoff")
     /\ UNCHANGED <<failures, urlFailed>>
  \/ /\ ~needsReconnect /\ failures' = failures + 1
     /\ urlFailed' = (failures' >= MaxRetries)
     /\ LoopGoes(IF urlFailed' THEN "decide" ELSE "backoff")

\* failureCounter.record when its window has not passed, and what follows.
CountFailure ==
  /\ failures' = failures + 1
  /\ urlFailed' = (failures' >= MaxRetries)
  /\ LoopGoes(IF urlFailed' THEN "decide" ELSE "backoff")

\* record when the last failure is older than the window.
CountAfresh ==
  /\ Calm
  /\ failures' = 1
  /\ urlFailed' = (MaxRetries = 1)
  /\ LoopGoes(IF urlFailed' THEN "decide" ELSE "backoff")

\* The accounting of an attempt that ended: a switch the monitor asked for is
\* not a failure; anything else is one, a clean end and a reconnect included.
Judge ==
  /\ loop = "judge"
  /\ \/ /\ needsSwitch
        /\ LoopGoes("decide")
        /\ UNCHANGED <<urlFailed, switchVars, switches, needsReconnect, calm, rotation>>
     \/ /\ ~needsSwitch
        /\ needsReconnect' = FALSE
        /\ \/ Stable /\ CountFailure /\ UNCHANGED source
           \/ CountFailure /\ UNCHANGED <<source, tried, switches, calm, rotation>>
           \/ CountAfresh /\ UNCHANGED <<source, tried, switches, rotation>>
  /\ UNCHANGED <<playing, cut, halted, queued, needsSwitch, healthy, unhealthy, handVars,
                 advances>>

\* The back-off's timer, or the end of the channel.
BackoffEnds ==
  /\ loop = "backoff"
  /\ LoopGoes("inner")
  /\ UNCHANGED <<playing, cut, urlFailed, halted, switchVars, switches, queued, monitorVars,
                 handVars, boundVars, rotation>>

\* After the inner loop: the monitor's switch first, then the retries'.
Decide ==
  /\ loop = "decide"
  /\ needsSwitch' = FALSE
  /\ LoopGoes(CASE halted      -> "done"
                [] needsSwitch -> "health"
                [] urlFailed   -> "retries"
                [] OTHER       -> "outer")
  /\ UNCHANGED <<playing, cut, urlFailed, halted, switchVars, switches, queued,
                 needsReconnect, healthy, unhealthy, handVars, boundVars, rotation>>

LoopAsks ==
  /\ loop \in {"health", "retries"} /\ Lock("loop")
  /\ UNCHANGED <<runnerVars, halted, switchVars, switches, queued, monitorVars, reader, parked,
                 boundVars, rotation>>

\* The failover was answered: counted, and played next.
LoopSwitches ==
  /\ switchMu = "loop" /\ switchMu' = Nobody
  /\ \E s \in Streams : Resolved(s) /\ playing' = s
  /\ LoopGoes("outer")
  /\ switches' = switches + 1 /\ rotation' = rotation + 1
  /\ UNCHANGED <<cut, urlFailed, halted, queued, monitorVars, reader, parked, boundVars>>

\* It was not: a silent source is tried again from a clean history, a source
\* out of retries ends the run.
LoopRefused ==
  /\ switchMu = "loop" /\ switchMu' = Nobody
  /\ Refused
  /\ \/ loop = "health" /\ LoopGoes("outer") /\ failures' = 0
     \/ loop = "retries" /\ LoopGoes("done") /\ UNCHANGED failures
  /\ UNCHANGED <<playing, cut, urlFailed, halted, switches, queued, monitorVars, reader,
                 parked, boundVars, rotation>>

----------------------------------------------------------------------------
(* The stderr reader: a buffering timeout while its attempt runs.          *)

\* The budget is read before the control plane is asked.
ReaderTimesOut ==
  /\ loop = "attempt" /\ reader = "idle" /\ switches < MaxStreamSwitches
  /\ reader' = "waiting"
  /\ UNCHANGED <<runnerVars, halted, switchVars, switches, queued, monitorVars, switchMu, parked,
                 boundVars, rotation>>

ReaderAsks ==
  /\ reader = "waiting" /\ Lock("reader") /\ reader' = "calling"
  /\ UNCHANGED <<runnerVars, halted, switchVars, switches, queued, monitorVars, parked,
                 boundVars, rotation>>

ReaderAnswered ==
  /\ reader = "calling" /\ switchMu' = Nobody
  /\ \/ /\ \E s \in Streams : Resolved(s) /\ parked' = [parked EXCEPT !.reader = s]
        /\ reader' = "parking"
        /\ rotation' = rotation + 1
     \/ Refused /\ reader' = "idle" /\ UNCHANGED <<failures, parked, rotation>>
  /\ UNCHANGED <<runnerVars, halted, switches, queued, monitorVars, boundVars>>

\* Mutant: issue #221, the reader's switches do not count.
ReaderParksUncounted ==
  /\ reader = "parking" /\ reader' = "spent"
  /\ queued' = parked.reader /\ parked' = [parked EXCEPT !.reader = Nobody]
  /\ cut' = TRUE
  /\ UNCHANGED <<loop, playing, urlFailed, halted, switchVars, switches, monitorVars, switchMu,
                 boundVars, rotation>>

\* Mutant: the attempt is cancelled and the new source is not parked.
ReaderParksNothing ==
  /\ reader = "parking" /\ reader' = "spent"
  /\ parked' = [parked EXCEPT !.reader = Nobody]
  /\ switches' = switches + 1
  /\ cut' = TRUE
  /\ UNCHANGED <<loop, playing, urlFailed, halted, switchVars, queued, monitorVars, switchMu,
                 boundVars, rotation>>

\* countSwitch, the hand-over to the run loop and the end of the attempt.
ReaderParks ==
  /\ reader = "parking" /\ reader' = "spent"
  /\ queued' = parked.reader /\ parked' = [parked EXCEPT !.reader = Nobody]
  /\ switches' = switches + 1
  /\ cut' = TRUE
  /\ UNCHANGED <<loop, playing, urlFailed, halted, switchVars, monitorVars, switchMu,
                 boundVars, rotation>>

----------------------------------------------------------------------------
(* An operator's switch, to a source that Django has resolved.             *)

\* Advance, up to applySwitch.  The URL already playing changes the tried set
\* at most; reset_tried empties it first.
Advance ==
  /\ advances < MaxAdvances /\ switchMu = Nobody
  /\ advances' = advances + 1
  /\ \E s \in Streams, kept \in {tried, {}} :
       \/ /\ Url[s] = Url[source]
          /\ tried' = kept
          /\ UNCHANGED <<source, failures, switchMu, parked>>
       \/ /\ Url[s] # Url[source]
          /\ source' = s /\ tried' = kept \cup {s} /\ failures' = 0
          /\ switchMu' = "operator" /\ parked' = [parked EXCEPT !.operator = s]
  /\ UNCHANGED <<runnerVars, halted, switches, queued, monitorVars, reader, calm, rotation>>

\* ... and its hand-over: the attempt that runs, if one does, is cancelled.
AdvanceParks ==
  /\ switchMu = "operator" /\ switchMu' = Nobody
  /\ queued' = parked.operator /\ parked' = [parked EXCEPT !.operator = Nobody]
  /\ cut' = (cut \/ loop = "attempt")
  /\ UNCHANGED <<loop, playing, urlFailed, halted, switchVars, switches, monitorVars, reader,
                 boundVars, rotation>>

----------------------------------------------------------------------------
(* The health monitor and the end of the channel.                          *)

\* A check finds the connected stream silent: the third in a row asks the run
\* loop for a reconnect or a switch, unless the cool-down holds it back.
CheckFails ==
  /\ loop = "attempt"
  /\ healthy' = FALSE
  /\ \/ /\ unhealthy' = IF unhealthy < MaxUnhealthyChecks THEN unhealthy + 1 ELSE unhealthy
        /\ UNCHANGED <<cut, needsSwitch, needsReconnect>>
     \/ /\ unhealthy + 1 >= MaxUnhealthyChecks
        /\ unhealthy' = 0
        /\ \/ needsReconnect' = TRUE /\ cut' = (cut \/ ~needsReconnect) /\ UNCHANGED needsSwitch
           \/ needsSwitch' = TRUE /\ cut' = (cut \/ ~needsSwitch) /\ UNCHANGED needsReconnect
  /\ UNCHANGED <<loop, playing, urlFailed, halted, switchVars, switches, queued, handVars,
                 boundVars, rotation>>

\* A check finds data again, or a stream that has just connected.
CheckPasses ==
  /\ loop = "attempt"
  /\ healthy' = TRUE /\ unhealthy' = 0
  /\ needsReconnect' = (needsReconnect /\ healthy)
  /\ needsSwitch' = (needsSwitch /\ healthy)
  /\ UNCHANGED <<runnerVars, halted, switchVars, switches, queued, handVars, boundVars, rotation>>

\* Channel.stop cancels the channel's context.
Halt ==
  /\ ~halted /\ loop # "done" /\ halted' = TRUE
  /\ UNCHANGED <<runnerVars, switchVars, switches, queued, monitorVars, handVars, boundVars,
                 rotation>>

----------------------------------------------------------------------------
LoopStep ==
  \/ Outer \/ Attempt \/ TakePending \/ Judge \/ BackoffEnds \/ Decide
  \/ LoopAsks \/ LoopSwitches \/ LoopRefused
SwitchStep == ReaderAsks \/ ReaderAnswered \/ ReaderParks \/ AdvanceParks

RunNext ==
  \/ LoopStep \/ SwitchStep
  \/ Return \/ ReaderTimesOut \/ Advance
  \/ CheckFails \/ CheckPasses \/ Halt

\* Goroutines run, calls to the control plane are answered or time out, and an
\* attempt whose context is cancelled returns.  No upstream has to end.
RunFairness ==
  /\ WF_runLoopVars(LoopStep) /\ WF_runLoopVars(SwitchStep)
  /\ WF_runLoopVars(Return /\ (cut \/ halted))

RunSpec == RunInit /\ [][RunNext]_runLoopVars /\ RunFairness

----------------------------------------------------------------------------
(* Properties.                                                             *)

\* failover.go and issue #221: whoever makes them, the automatic switches
\* since a run last proved stable are at most one more than the budget (the
\* loop compares with <=), and a slow source that still delivers never takes
\* the channel past it.
SwitchesStayInBudget ==
  /\ rotation <= MaxStreamSwitches + 1
  /\ reader \in {"calling", "parking"} => switches < MaxStreamSwitches
  /\ rotation = switches + (IF reader = "parking" THEN 1 ELSE 0)

\* channel.go:167, "source is what the channel is playing NOW": an attempt
\* that nobody is ending plays the stream that every status answer, failover
\* and release names.
PlaysItsSource ==
  loop = "attempt" /\ ~cut /\ switchMu = Nobody /\ reader # "parking" => playing = source

\* It is so as long as no operator switches: the reader's hand-over reaches
\* the run loop whatever the monitor asks for meanwhile.
AutomaticSwitchesArePlayed == advances = 0 => PlaysItsSource

\* A channel whose attempts all end, and whose monitor stops asking for
\* switches, comes to an end: retries, switches and candidates run out.
DeadUpstreamsEndTheRun ==
  ([]<>(loop # "attempt") /\ <>[]~needsSwitch) => <>(loop = "done")
=============================================================================

----------------------------- MODULE RelayDrain -----------------------------
(***************************************************************************)
(* The relay's events and its shutdown: the emitter, its queue and its one *)
(* worker (control/events.go), the post with its second attempt            *)
(* (control/nextsource.go), Django's handler of a batch (core/             *)
(* relay_events.py), and the drain that SIGTERM starts (drain/drain.go,    *)
(* main.go) over channels that are tuned, watched and stopped meanwhile.   *)
(*                                                                         *)
(* Every channel is tuned once, by a TS viewer, whose handler raises       *)
(* client_connect and client_disconnect; a run raises channel_start and    *)
(* channel_stop.  What a run does in between is RunLoop's and              *)
(* ChannelManager's.  A deadline is an action that may be taken at any     *)
(* time and is remembered.  Left out: the rewind directory, event details, *)
(* the trimming of old rows, the push to browsers.                         *)
(***************************************************************************)
EXTENDS Naturals, Sequences, FiniteSets

CONSTANTS
  Channels,
  QueueDepth,      \* EmitterQueueDepth
  MaxBatch,        \* MaxEventsPerBatch
  MaxTries,        \* attempts of a post
  MaxMisses        \* bound: attempts that fail

ASSUME DrainAssumption ==
  /\ QueueDepth \in Nat \ {0} /\ MaxBatch \in Nat \ {0} /\ MaxTries \in Nat \ {0}
  /\ MaxMisses \in Nat

VARIABLES
  phase,      \* of the drain
  life,       \* each channel's tune and run
  viewer,     \* each tune's handler once the channel is there
  inMap,     \* the manager's map
  ending,     \* runs told to end
  toStop,     \* ids that StopAll has listed and not taken yet
  awaited,    \* runs that StopAll waits for
  queue,      \* the emitter's
  closed,
  post,       \* the worker's batch and attempt
  orphans,    \* attempts that Django has and the relay has given up
  rows,       \* the table SystemEvent
  said,       \* history: the events that were queued
  misses,     \* attempts that failed
  overrun,    \* a wait of the drain was cut short
  lost,       \* a full queue dropped an event, or a batch was given up
  crossed     \* an attempt was given up while Django had it

drainVars == <<phase, life, viewer, inMap, ending, toStop, awaited, queue, closed, post,
               orphans, rows, said, misses, overrun, lost, crossed>>

tuneVars   == <<life, viewer, inMap, ending>>
stopVars   == <<phase, toStop, awaited, overrun>>
djangoVars == <<orphans, rows>>
queueVars  == <<queue, said, lost>>
postVars   == <<post, misses, crossed>>

EventTypes == {"channel_start", "channel_stop", "client_connect", "client_disconnect"}
Events     == [type : EventTypes, of : Channels]
Idle       == [events |-> <<>>, try |-> 0]

DrainTypeOK ==
  /\ phase \in {"up", "grace", "stopping", "shutdown", "flushing", "exited"}
  /\ life \in [Channels -> {"idle", "starting", "published", "running", "closed", "announced",
                            "done", "released"}]
  /\ viewer \in [Channels -> {"none", "attached", "serving", "leaving", "gone"}]
  /\ inMap \subseteq Channels /\ ending \subseteq Channels
  /\ toStop \subseteq Channels /\ awaited \subseteq Channels
  /\ queue \in Seq(Events) /\ Len(queue) <= QueueDepth /\ closed \in BOOLEAN
  /\ Len(post.events) <= MaxBatch /\ post.try \in 0..MaxTries
  /\ \A o \in orphans : o.events # <<>> /\ o.try \in 1..MaxTries
  /\ rows \in Seq(Events) /\ said \in Seq(Events)
  /\ misses \in 0..MaxMisses /\ {overrun, lost, crossed} \subseteq BOOLEAN

DrainInit ==
  /\ phase = "up"
  /\ life = [c \in Channels |-> "idle"] /\ viewer = [c \in Channels |-> "none"]
  /\ inMap = {} /\ ending = {} /\ toStop = {} /\ awaited = {}
  /\ queue = <<>> /\ closed = FALSE /\ post = Idle
  /\ orphans = {} /\ rows = <<>> /\ said = <<>>
  /\ misses = 0 /\ overrun = FALSE /\ lost = FALSE /\ crossed = FALSE

----------------------------------------------------------------------------
(* The emitter                                                             *)

\* Emit never blocks: after Close, and when the queue is full, the event goes.
Emit(type, c) ==
  LET e == [type |-> type, of |-> c]
  IN IF closed \/ Len(queue) = QueueDepth
     THEN lost' = (lost \/ ~closed) /\ UNCHANGED <<queue, said>>
     ELSE queue' = Append(queue, e) /\ said' = Append(said, e) /\ UNCHANGED lost

Running == phase # "exited"

\* The worker takes what is waiting, up to the route's limit.
TakeBatch ==
  /\ Running /\ post = Idle /\ queue # <<>>
  /\ LET n == IF Len(queue) < MaxBatch THEN Len(queue) ELSE MaxBatch
     IN /\ post' = [events |-> SubSeq(queue, 1, n), try |-> 1]
        /\ queue' = SubSeq(queue, n + 1, Len(queue))
  /\ UNCHANGED <<tuneVars, stopVars, closed, djangoVars, said, lost, misses, crossed>>

\* apply_event_batch: a row for each.
Apply(events) == rows' = rows \o events

\* Django has applied the batch, and its answer arrives.
Answered ==
  /\ Running /\ post # Idle
  /\ Apply(post.events)
  /\ post' = Idle
  /\ UNCHANGED <<tuneVars, stopVars, closed, orphans, queueVars, misses, crossed>>

\* An attempt fails: it does not reach Django, or Django has it still when the
\* relay gives it up.  Then comes the second attempt, or the end of the batch.
Missed ==
  /\ Running /\ post # Idle /\ misses < MaxMisses /\ misses' = misses + 1
  /\ IF post.try < MaxTries
     THEN post' = [post EXCEPT !.try = @ + 1] /\ UNCHANGED lost
     ELSE post' = Idle /\ lost' = TRUE
  /\ \/ UNCHANGED <<orphans, crossed>>
     \/ orphans' = orphans \cup {post} /\ crossed' = TRUE
  /\ UNCHANGED <<tuneVars, stopVars, closed, queue, said, rows>>

\* Mutant: a refused batch is put back behind what is waiting.
RefusedIsQueued ==
  /\ Running /\ post # Idle /\ misses < MaxMisses /\ misses' = misses + 1
  /\ post' = Idle /\ queue' = queue \o post.events
  /\ UNCHANGED <<tuneVars, stopVars, closed, said, lost, djangoVars, crossed>>

\* Refused, which is not tried again.
BatchRefused ==
  /\ Running /\ post # Idle /\ misses < MaxMisses /\ misses' = misses + 1
  /\ post' = Idle /\ lost' = TRUE
  /\ UNCHANGED <<tuneVars, stopVars, closed, queue, said, djangoVars, crossed>>

\* An attempt that was given up is handled after all.
AppliedLate(o) ==
  /\ Running /\ o \in orphans
  /\ Apply(o.events)
  /\ orphans' = orphans \ {o}
  /\ UNCHANGED <<tuneVars, stopVars, closed, queueVars, postVars>>

----------------------------------------------------------------------------
(* Tunes, viewers, runs                                                    *)

\* StreamHandler: the gate is asked first, and only then.
TuneBegins(c) ==
  /\ Running /\ life[c] = "idle" /\ phase = "up"
  /\ life' = [life EXCEPT ![c] = "starting"]
  /\ UNCHANGED <<viewer, inMap, ending, stopVars, closed, djangoVars, queueVars, postVars>>

TuneFails(c) ==
  /\ Running /\ life[c] = "starting"
  /\ life' = [life EXCEPT ![c] = "idle"]
  /\ UNCHANGED <<viewer, inMap, ending, stopVars, closed, djangoVars, queueVars, postVars>>

\* publish: the map, then channel_start, then the run's goroutine.
PublishesRun(c) ==
  /\ Running /\ life[c] = "starting"
  /\ life' = [life EXCEPT ![c] = "published"]
  /\ inMap' = inMap \cup {c}
  /\ UNCHANGED <<viewer, ending, stopVars, closed, djangoVars, queueVars, postVars>>

RunBegins(c) ==
  /\ Running /\ life[c] = "published"
  /\ Emit("channel_start", c)
  /\ life' = [life EXCEPT ![c] = "running"]
  /\ viewer' = [viewer EXCEPT ![c] = "attached"]
  /\ UNCHANGED <<inMap, ending, stopVars, closed, djangoVars, postVars>>

\* A response that cannot be begun is not announced.
Connects(c) ==
  /\ Running /\ viewer[c] = "attached"
  /\ \/ Emit("client_connect", c) /\ viewer' = [viewer EXCEPT ![c] = "serving"]
     \/ viewer' = [viewer EXCEPT ![c] = "leaving"] /\ UNCHANGED queueVars
  /\ UNCHANGED <<life, inMap, ending, stopVars, closed, djangoVars, postVars>>

\* serveClient returns: the viewer has gone, or the ring is closed.
Disconnects(c) ==
  /\ Running /\ viewer[c] = "serving"
  /\ Emit("client_disconnect", c)
  /\ viewer' = [viewer EXCEPT ![c] = "leaving"]
  /\ UNCHANGED <<life, inMap, ending, stopVars, closed, djangoVars, postVars>>

\* The release of the last client unlists the channel and cancels its run ...
Leaves(c) ==
  /\ Running /\ viewer[c] = "leaving" /\ c \notin ending
  /\ inMap' = inMap \ {c} /\ ending' = ending \cup {c}
  /\ UNCHANGED <<life, viewer, stopVars, closed, djangoVars, queueVars, postVars>>

\* ... and the handler returns when the run has ended, or StopWait has passed.
Returns(c) ==
  /\ Running /\ viewer[c] = "leaving" /\ c \in ending
  /\ viewer' = [viewer EXCEPT ![c] = "gone"]
  /\ overrun' = (overrun \/ life[c] \notin {"done", "released"})
  /\ UNCHANGED <<life, inMap, ending, phase, toStop, awaited, closed, djangoVars, queueVars,
                 postVars>>

\* Mutant: a run is done before its stop is said.
EmitsStopLate(c) ==
  \/ /\ Running /\ life[c] = "running" /\ life' = [life EXCEPT ![c] = "done"]
     /\ UNCHANGED <<viewer, inMap, ending, stopVars, closed, djangoVars, queueVars, postVars>>
  \/ /\ Running /\ life[c] = "done" /\ Emit("channel_stop", c)
     /\ life' = [life EXCEPT ![c] = "released"]
     /\ UNCHANGED <<viewer, inMap, ending, stopVars, closed, djangoVars, postVars>>

\* The source goroutine returns, cancelled or exhausted, and its deferred calls
\* run: the ring closes and channel_stop is said ...
EmitsStop(c) ==
  /\ Running /\ life[c] = "running"
  /\ Emit("channel_stop", c)
  /\ life' = [life EXCEPT ![c] = "announced"]
  /\ UNCHANGED <<viewer, inMap, ending, stopVars, closed, djangoVars, postVars>>

\* ... done is closed ...
RunDone(c) ==
  /\ Running /\ life[c] = "announced"
  /\ life' = [life EXCEPT ![c] = "done"]
  /\ UNCHANGED <<viewer, inMap, ending, stopVars, closed, djangoVars, queueVars, postVars>>

\* ... and the slot is given back by a call to Django.
Releases(c) ==
  /\ Running /\ life[c] = "done"
  /\ life' = [life EXCEPT ![c] = "released"]
  /\ UNCHANGED <<viewer, inMap, ending, stopVars, closed, djangoVars, queueVars, postVars>>

----------------------------------------------------------------------------
(* drain.Run                                                               *)

Ended(c)   == life[c] \in {"done", "released"}
InFlight(c) == life[c] \in {"starting", "published"} \/ viewer[c] \in {"attached", "serving", "leaving"}

BeginDrain ==
  /\ phase = "up" /\ phase' = "grace"
  /\ UNCHANGED <<tuneVars, toStop, awaited, overrun, closed, djangoVars, queueVars, postVars>>

\* The grace is over: StopAll lists the channels ...
StopAll ==
  /\ phase = "grace" /\ phase' = "stopping"
  /\ toStop' = inMap
  /\ UNCHANGED <<tuneVars, awaited, overrun, closed, djangoVars, queueVars, postVars>>

\* ... and takes each, if it is still there, and cancels it.
DrainStops(c) ==
  /\ Running /\ c \in toStop
  /\ toStop' = toStop \ {c}
  /\ IF c \in inMap
     THEN inMap' = inMap \ {c} /\ ending' = ending \cup {c} /\ awaited' = awaited \cup {c}
     ELSE UNCHANGED <<inMap, ending, awaited>>
  /\ UNCHANGED <<life, viewer, phase, overrun, closed, djangoVars, queueVars, postVars>>

AllStopped ==
  /\ phase = "stopping" /\ toStop = {} /\ \A c \in awaited : Ended(c)
  /\ phase' = "shutdown"
  /\ UNCHANGED <<tuneVars, toStop, awaited, overrun, closed, djangoVars, queueVars, postVars>>

\* Shutdown returns when no request is in flight; then the emitter is closed.
ServerDown ==
  /\ phase = "shutdown" /\ \A c \in Channels : ~InFlight(c)
  /\ phase' = "flushing" /\ closed' = TRUE
  /\ UNCHANGED <<tuneVars, toStop, awaited, overrun, djangoVars, queueVars, postVars>>

\* The queue is drained and its last batch answered: main returns.
Flushed ==
  /\ phase = "flushing" /\ queue = <<>> /\ post = Idle
  /\ phase' = "exited"
  /\ UNCHANGED <<tuneVars, toStop, awaited, overrun, closed, djangoVars, queueVars, postVars>>

\* A budget runs out: the drain goes on with its next step.
BudgetRunsOut ==
  /\ phase \in {"stopping", "shutdown", "flushing"}
  /\ phase' = CASE phase = "stopping" -> "shutdown"
                [] phase = "shutdown" -> "flushing"
                [] phase = "flushing" -> "exited"
  /\ closed' = (closed \/ phase = "shutdown")
  /\ overrun' = TRUE
  /\ UNCHANGED <<tuneVars, toStop, awaited, djangoVars, queueVars, postVars>>

----------------------------------------------------------------------------
TuneStep == \E c \in Channels :
  TuneBegins(c) \/ TuneFails(c) \/ PublishesRun(c) \/ RunBegins(c)
ViewerStep == \E c \in Channels : Connects(c) \/ Disconnects(c) \/ Leaves(c) \/ Returns(c)
WindStep == \E c \in Channels : EmitsStop(c) \/ RunDone(c) \/ Releases(c)
EventStep ==
  \/ TakeBatch \/ Answered \/ Missed \/ BatchRefused
  \/ \E o \in orphans : AppliedLate(o)
DrainStep ==
  \/ BeginDrain \/ StopAll \/ AllStopped \/ ServerDown \/ Flushed \/ BudgetRunsOut
  \/ \E c \in Channels : DrainStops(c)

DrainNext == TuneStep \/ ViewerStep \/ WindStep \/ EventStep \/ DrainStep

DrainSpec == DrainInit /\ [][DrainNext]_drainVars

----------------------------------------------------------------------------
(* Properties.                                                             *)

Recorded(type, c) == \E i \in 1..Len(rows) : rows[i] = [type |-> type, of |-> c]

\* drain.go:130, "LAST, because steps 3 and 4 are what RAISE the events this
\* flush exists to deliver -- one channel_stop per channel and one
\* client_disconnect per TS viewer": unless a wait was cut short or a post
\* failed, whatever has begun has its end on record when the process exits,
\* tunes that were under way when the drain began included.
DrainTellsTheEnds ==
  phase = "exited" /\ ~overrun /\ ~lost =>
    \A c \in Channels :
      /\ Recorded("channel_start", c) => Recorded("channel_stop", c)
      /\ Recorded("client_connect", c) => Recorded("client_disconnect", c)

\* Where an event is among those that were raised.
Place(e) == CHOOSE i \in 1..Len(said) : said[i] = e

\* events.go:80, "Order is preserved": what Django has on record is what was
\* raised, in that order and once, until an attempt is given up that Django has
\* received; and then it has no event more often than there are attempts.
RowsKeepTheOrder ==
  \A i \in 1..Len(rows) :
    /\ ~crossed => \A j \in 1..(i - 1) : Place(rows[j]) < Place(rows[i])
    /\ Cardinality({j \in 1..Len(rows) : rows[j] = rows[i]}) <= MaxTries

\* drain.go:121, "each provider slot is released through the control plane by
\* Channel.releaseSlot": a drain that was not cut short leaves no slot taken.
\* It may leave one: README, section 4.
DrainReleasesSlots ==
  phase = "exited" /\ ~overrun =>
    \A c \in Channels : life[c] \in {"idle", "released"}
=============================================================================

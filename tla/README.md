# Dispatcharr in TLA+

This directory is a verification development beside the code: TLA+ modules that
model the parts of Dispatcharr where several goroutines, workers or services
share state, TLC configurations that check them on small instances, and theorems
that TLAPS checks for every value of the constants.

Contents: [1 The system](#1-the-system), [2 The modules](#2-the-modules),
[3 The runs](#3-the-runs), [4 What the code says and does
not do](#4-where-the-code-and-what-is-said-of-it-differ),
[5 The proofs](#5-the-proofs), [6 What is left out](#6-what-is-left-out),
[7 The plan](#7-the-plan).

## 1 The system

Dispatcharr proxies live TV, VOD and catch-up streams from IPTV providers to
many viewers. A Django control plane (Python, Celery, PostgreSQL, Redis) owns
the catalogue and the accounts; a relay (Go) moves the bytes. A provider allows
an account a number of connections at once, so the system's two central
promises are **one upstream connection per channel, however many watch it**, and
**never to lose count of those connections**.

### 1.1 Components

"Hard" names what a test would hardly reach. The components that keep state that
nothing interleaves with are in PROJECT.json only.

| Component | State it keeps | Operations | Hard | What makes it correct |
|---|---|---|---|---|
| **Chunk ring** `relay/buffer/ring.go` | resident chunks, head, packetiser's partial and pending bytes, closed, notify channel | Write, MarkBoundary, ResetPosition, Close; Join, Read, Wait | one writer, many readers; Read and Wait are two calls; a switch resets the packetiser from another goroutine; eviction by count and by age | nothing is lost silently, nobody sleeps through a publish or the end, no packet of two connections |
| **Run loop** `relay/channel/channel.go`, `boundary.go`, `advance.go` | attempt, retries, switches, boundaries, state | run, failover, Advance, end of run | an operator's switch beside the loop's own; deferred calls in a fixed order | every new connection is marked before its bytes; the run's end closes, sweeps and releases in order |
| **Channel manager** `relay/channel/manager.go`, `reclaim.go` | `channels`, `starting`, `releasing` | Attach, release, Stop, StopAll, StopIfIdle, countdowns, ReclaimFor | three locks (`m.mu`, a channel's `mu`, its `outMu`), steps between them; timers that nobody cancels; a successor under the same id | one start per id; no channel nobody can stop; no idle stop under a viewer; every removed channel releases |
| **Outputs and lingers** `relay/channel/output.go`, `hlsoutput.go` | pipelines per output, references, lingers | attach, release, linger, end of linger, stop of all outputs | the idle question is delegated to a linger that may end without asking | an idle channel is always in somebody's hands |
| **HLS sessions** `relay/session` | sessions with their state, releases and marks | Add, Activate, Abandon, Leave, idle departure, resume in three steps, StopChannel | a resume crosses a stop, a run's end, a retired pipeline | nobody is served by a channel that is over; releases run once |
| **Calls to Django** `relay/control/nextsource.go` | none; two attempts per call | next-source (tune, failover), release | a lost answer: the first handler goes on beside the second | what was reserved is given back, or repaired |
| **Slot script and handlers** `apps/m3u/connection_pool.py`, `apps/channels/models.py`, `apps/proxy/next_source.py` | `profile_connections:*`, `channel_stream:*`, `stream_profile:*` | get_stream, release_stream, switch, release_source | a handler is a sequence of Redis commands; workers die | a counter is the number of slots held |
| **Reconciler** `apps/proxy/slot_reconciler.py` | a saved snapshot, slot versions | list, compare two runs, clamp | acts on a listing and a version that are old when it writes | takes nothing from a live holder; repairs what was lost |
| **HLS packaging** `relay/hls` | segments, playlist window, rewind disk | append, trim, render, read | a playlist rendered while the window moves | a listed segment can be fetched |
| **Drain** `relay/drain`, `relay/main.go` | phase, gate, budget | gate, grace, StopAll, server shutdown, flush | tunes that are past the gate; what is not over in time | Django hears the end of whatever had begun |
| **Events** `relay/control/events.go`, `core/relay_events.py` | a bounded queue, a batch; rows | emit, post, apply | lost answers: repeated and reordered batches | each event once and in order |
| **VOD proxy** `apps/proxy/vod_proxy` | a record per session in Redis, `active_streams`, profile counters | match, adopt, reserve, create, join, retake, stream, clean up | several requests of one session on several workers | one slot per session, given back once |
| **Catch-up** `apps/timeshift` | pool entry, busy flag, stop keys, generations, stats client | open, reuse, displace, abandon, end | a displaced stream gives its slot back late | the same |
| **DVR** `apps/channels/tasks.py`, `signals.py`, `api_views.py` | the row, the schedule, the lock, the folder, the file | record, resume, concatenate, recover; stop, extend, edit, delete | duplicate dispatches; crashes and shutdowns in every step; reads separated from their saves | one writer; what was taped stays |
| **Channel numbering** `apps/channels/compact_numbering.py`, `apps/m3u/tasks.py` | numbers in the database, the task lock | sync, pack, repack, hide, unhide | uncommitted numbers; a lock released before its commit | shown numbers are distinct and in range |
| **Guide** `apps/epg/tasks.py` | the file, rows, programmes, index, a counter, three locks | refresh, parse of one row, index build, deferrals | tasks keep off each other's file by a counter and locks read at different times | a mapped row has the last edition's programmes |
| **Streams** `apps/m3u/tasks.py`, `core/tasks.py` | rows by hash, links, groups, a playlist file, key setting | refresh, batches, clean-up, rehash, merge | rows shared by hash; two accounts side by side; keys that change meanwhile | a channel keeps a stream its provider lists |
| **Refresh locks** `core/utils.py` | a Redis key per task, renewed by a thread | acquire, renew, release | a dead worker's key; a release of a key that is another's by then | one holder; part of the three modules above |

`dispatcharr/persistent_lock.py` is used nowhere: the tasks take the locks of
`core/utils.py`.

### 1.2 How they interact

```
viewer --HTTP--> httpapi --Attach--> channel manager --start--> next-source (Django)
                    |                     |                         | slot script, Redis
                    |                  run loop --Write--> ring <--Read/Wait-- clients
                    |                     |  failover/Advance --> next-source (switch)
                    |                     `- end: outputs, ring, hook, release (Django)
                    `--HLS--> session table --releases--> outputs, manager
reconciler (Celery beat) --GET /channels--> relay;  --clamp script--> Redis
```

The relay calls Django synchronously (tune, switch, release); Django calls the
relay for its listing (reuse of an assignment, the reconciler). Inside the relay
components call each other directly, and back through callbacks: `onReleased`
into the manager under `m.mu`, the run-ended hook on a goroutine of its own into
the session table, a session's releases into outputs and manager. The manager's
list is therefore both what a viewer's request is decided on and what Django
believes about the provider's connections.

## 2 The modules

| Module | Models | Kind |
|---|---|---|
| `FanOut` | what a ring promises its readers: one log, read by everyone at their own pace | abstract specification |
| `RelayRing` | the ring, the run loop that feeds it, the clients that read it | detailed; implements `FanOut` |
| `RelayRing_proofs` | theorems about `RelayRing` | proofs |
| `ChannelManager` | manager, callers, run's end, HLS registration and linger, sessions' sweeps, reclaim | detailed |
| `ChannelManager_proofs` | theorems about `ChannelManager` | proofs |
| `HlsSessions` | one channel's session table, HLS pipelines and client registry under the handlers | detailed |
| `HlsSessions_proofs` | theorems about `HlsSessions` | proofs |
| `HlsPipeline` | one pipeline's generations and attempts, its readers, segmenter and hardware detector | detailed |
| `HlsStore` | one pipeline's segments in memory and on disk, under the segmenter, the writer and the requests | detailed |
| `HlsStore_proofs` | theorems about `HlsStore` | proofs |
| `RunLoop` | one channel's supervisor with its monitor, stderr reader and operator | detailed |
| `RelayDrain` | the emitter and Django's rows; the drain over channels that come and go | detailed |
| `Runs_proofs` | theorems about `RunLoop`, `HlsPipeline` and `RelayDrain` | proofs |
| `SlotPool` | the relay's calls, Django's handlers, the Redis keys, the reconciler | detailed |
| `SlotPool_proofs` | theorems about `SlotPool` | proofs |
| `VodSession` | the requests of VOD sessions and the slots they hold | detailed |
| `CatchUp` | the GETs of one catch-up session and the slot it holds | detailed |
| `Sessions_proofs` | theorems about `VodSession` and `CatchUp` | proofs |
| `DvrRecording` | one recording: its tasks, recoveries, user and disk | detailed |
| `Numbering` | the numbers of one account's channels | detailed |
| `EpgRefresh` | the guide of one XMLTV source | detailed |
| `StreamRefresh` | the streams of several accounts, their refreshes and the rehash | detailed |
| `Tasks_proofs` | theorems about `DvrRecording`, `EpgRefresh`, `StreamRefresh` and `Numbering` | proofs |
| `MCManager`, `MCSlot` | values for the instances of one module | TLC |
| `MCRing`, `MCViewers`, `MCProgress`, `MCTasks` | several modules in one run | TLC |

`MCRing` (ring, segment store), `MCViewers` (manager, sessions, drain),
`MCProgress` (manager, run loop, pipeline) and `MCTasks` (the six of Django) have a
variable `subject`, chosen at first, that
says which module's steps are taken: the modules share no state, and a run is
the union of their state spaces, not the product.

Definitions that start with `\* Mutant:` or `\* A bug to plant:` are variants of
the definition below them with a plausible bug. No next-state relation uses
one; they show that the property named for them in PROJECT.json would notice.

### 2.1 RelayRing

One action is one method of the ring, which holds `r.mu` for its whole body.
`Write`, `MarkBoundary`, `ResetPosition`, `Close` are the writer's side; `Join`,
`ReadChunks`/`ReadNothing`, `Wait`, `Wake`/`Timeout`, `FinalRead` are the lines
of `serveClient`, one per call. `RecordBoundary` is apart from `MarkBoundary`
because it is under another lock; `ResetPosition` may fall at any moment because
an Advance and the buffering failover make it from goroutines of their own.

Data: a byte is `[conn, off]`, the connection it came from and its place there,
which is all the properties tell apart. The notify channel is one Boolean per
reader: the channel it subscribed to has been closed. `log`, `from`, `got` and
`lost` are history variables.

`FanOut` knows no packets, no clock, no notify channel. The refinement maps its
`floor` to the oldest resident index, `pos` to `cursor`, and keeps `log`,
`closed` and `got`; one `Write` that publishes several chunks and evicts others
is one `Publish`.

### 2.2 ChannelManager

One action is one critical section: of `m.mu`, of a channel's `mu` or `outMu`,
or of the session table. A goroutine between two of them is a caller's `pc`, or,
when only its existence matters, a unit of a task counter:

| Variable | Goroutines it counts |
|---|---|
| `polls`, `asks`, `checks` | about to run StopIfIdle, stopWhenIdle, stopIfStillIdle |
| `fresh`, `stale` | countdowns armed since, and before, a client last joined |
| `sweeps`, `cancels` | about to end a channel's sessions, to cancel it |
| `hook` | the run-ended hook |

A channel is the number it was started under, so a successor under the same id
is another channel, as another `*Channel` is in Go. `stage` follows the run
goroutine through its deferred calls in Go's order (last declared first): outputs
stopped, ring closed, hook fired, release posted, `onReleased`.

Every caller has a client id of its own (the code's ids are per request). An HLS
caller's session lives in its `pc`: `added`, `checked`, `active`, then `taken`
(its releases are being run by whoever took them), `departing`/`leaving`/`away`
(idle departure), `joining`/`rejoined` (a resume between its steps), `doomed`
(a resume whose session was stopped meanwhile), `halted`/`swept` (stopped: the
channel's end drops its client). Left open, and so covered in every way: what a
start is answered, when a timer fires, whether a pipeline is ready, which
profiles a reclaim wants (`wanted`, any set of channels), which sessions are
silent. A reclaim may happen more than once in one start: more than the code does.

### 2.3 SlotPool

One action is one Redis command or script of a handler, or one step of the
relay. `<<run, kind, attempt>>` is a handler; `step` is where it is, `loc` are
its local variables. The relay tries a call twice: `FirstFails` loses the first
attempt before, while or after it is handled; its handler stays where it is and
goes on, or is `dead`. `GivesUp` is the end of the second, or of a first answer
that is not retried; for a failover it is the degraded mode, in which the relay
goes on with a stream it remembers, unaccounted.

`moved` and `moving` abstract `slot_version`: a version is only ever compared
with an earlier reading, so all that matters is whether a counter was written
since the snapshot's reading and since this run's. `open` and `Windows` state the
spacing rule: runs of the reconciler lie further apart than any tune, failover or
release may take, so a window open at one run's listing is shut at the next.

`owns` and `crossed` are history: the profile a run reserved a slot on, and
whether two calls of one channel were ever under way at once.

### 2.4 HlsSessions

`ChannelManager` knows an HLS viewer as one caller. Here the three registries
behind it are apart, as their locks are: the session table (`table`), the
pipelines of one key (`pipeline`, `sessionRefs`, `failedMark`, `lingering`,
and each pipeline's own `started`, `phaseOf`, `readied`), and the clients
(`registry`). An entry (`enters`), a departure (`leaving`), a stop's leftovers
(`dropping`) and a GET (`gets`) are handlers whose place says what they do next; a
resume is three steps with the other locks between them. `announced` counts
client_connect minus client_disconnect. The channel is unlisted, its outputs
stop and its ring closes at any moment after that.

### 2.5 RunLoop

`loop` follows `run` through one attempt, its verdict, the back-off and the
decision; `playing` is the loop's local source, `source` what everybody else
reads. `switchMu` is the mutex the loop, the stderr reader and an operator's
Advance take to switch; `queued`, `needsSwitch`, `needsReconnect` are the flags
they hand over through. What a clock decides (a stable run, a window that has
passed, a silent stream) is an input. `rotation` is history: switches since a run
last proved stable.

### 2.6 RelayDrain

A channel is tuned once; `life` is where its tune and run are, `viewer` where its
handler is. `phase` is the drain's. `queue`, `post` and `orphans` are the emitter's
queue, the batch the worker posts, and attempts that Django still handles
though the relay has given them up; `rows` is Django's table, of all channels, and
`said` the history of what was queued. `overrun`, `lost`
and `crossed` record that a wait was cut short, an event dropped, an attempt
given up while Django had it: the properties promise what they promise up to those.

### 2.7 VodSession and CatchUp

An action is one Redis command or script of one request; `where` and `spot` are the
places of `stream_content_with_session` and `_serve_catchup`. A VOD session's
`record` holds its profile and count; `reserved` and `counted` are the request's
locals. A catch-up session's entry (`pooled`) says on which profile it is and
whether it is busy; `turns`, `halt` and `shown` are the generation counters, the
stop keys and the stats client. `muddled` and `strayed` record the events that the
two accounts are only promised up to; each is a clause of the comment on
`SlotsFollowSessions` and `CatchUpSlotsFollowEntry`, and in section 4.

### 2.8 DvrRecording

`rec` is the row, `job` the `run_recording` tasks with what each has read, `active`
the lock and who set it, `folder` and `files` the disk, `taped` all parts ever
written. `worker` goes up, stopping, down; a start dispatches a `recovery`, which
reads the row and acts on it later. The user's stop, extension, edit and delete
are actions of their own; a delete's background thread (`cleaning`) has
captured the paths.

### 2.9 Numbering

`row` is the channel of each stream; `sync` is the stage of `sync_auto_channels`
(renumber, create, pack) with what it has loaded, `pack` a repack's plan,
`unhides` the open transactions, whose numbers nobody else sees until they commit.
`loose` are the groups that a race or a failed sync has touched since their last pack.

### 2.10 EpgRefresh

`refresh`, `parser` and `build` are the three tasks on one file; `fileLock`,
`parsing` and `parseCount` the keys by which they keep off each other; `asks`,
`parses`, `builds` the queues, to which a deferred task returns. A file and a row's
programmes are the number of the provider's edition. `owed`, `misindexed` and
`miscounted` are the events `GuideIsCurrent` is promised up to.

### 2.11 StreamRefresh

`streams` are the rows by id with the hash, account, content and day each was seen;
`links` the rows of a channel. `pull` follows a refresh from its lock and playlist
file through its batches (an entry each: found, then written) to the clean-up;
`rehash` takes the rows by id. `listedOn` is history: for a hash, the start of the last
refresh that wrote its row. Rows are found by hash alone, as in the code, so two
accounts may share one. The lock of a rehash is not renewed and may lapse; its end deletes
whatever locks there are.

### 2.12 HlsPipeline

`course` is where `run` is: probing, an attempt, drained, over; which attempt of
which generation, on which engine. An attempt is an encoder process, a feed that
reads the ring up to the next boundary, a reader per output and a segmenter; each has
its variable, and the next attempt begins when all have ended. `initOf`, `recorded`
and `played` say, per rendition, which attempt wrote the init segment, the codec
string and the media that a player gets; they are kept for the generation under way, as
no code writes to an earlier one. What a probe finds, when a process crashes and
when a wait has been long enough are inputs.

### 2.13 HlsStore

A segment is its media sequence number. `store` is the list, its totals and the
rewind window's queue; `writer` the one goroutine that copies, unlinks and keeps the
cap, whose file operations are outside the store's mutex and may fail; `reads` the
segments that requests have pinned. The clock ticks in target durations. A segment
remembers how it left the playlist (`kept`, `ticks`, `pubs`), and `forgone` holds what
the cap, the byte ceiling or a degraded window gave up: the promise is up to those.

The queue and the writer's jobs are sets: `publish` appends and the writer takes them
all, in publication order, so the set says which comes next. The cap picks a victim
under the mutex, lets it go, and looks again before it evicts (rewind.go:692-726): a
victim from the list must still be the list's head and below the newest
`StoreSegments`, one from the retired segments must still be retired. `Trim` is the three loops of `trimLocked`, each
written as where it ends: the least head at which its condition fails.

## 3 The runs

All state counts are distinct states. Deadlock is not checked anywhere: clients
leave, channels end and every instance is bounded, so each one may really stop.
The waits that must end are checked as liveness instead.

| Run | States | Shows |
|---|---|---|
| `ring` | 930k | packets and chunks are whole, of one connection, in order (`PacketsAreOneConnection`, `BytesInOrder`), every boundary is on record until later ones push it out (`BoundaryOnRecord`), no lost wakeup, `FanOut` and its liveness are implemented; the segment store: `WantedIsFetchable`, `PlaylistIsTrue`, `DiskIsAccounted` |
| `viewers` | 2.17M | manager: `OneStartPerId`, `NoStrandedUpstream`, `ListedChannelHoldsSlot`, `SessionsEndWithChannel`, `IdleIsNoticed`, `IdleStopIsFinal`, `ReclaimTakesNoViewer`; sessions: `RefsAreHeld`, `ClientsAreHeld`, `MarkExcludesPipeline`, `ConnectsAreClosed`, `StoppedIsFinal`; drain: `DrainTellsTheEnds`, `RowsKeepTheOrder` |
| `progress` | 383k | `GateOpens`, `RemovedIsReleased`; the run loop: `SwitchesStayInBudget`, `AutomaticSwitchesArePlayed`, `DeadUpstreamsEndThisRun`; the pipeline: `MediaMatchesInit`, `StopEndsPipeline` |
| `slots_accounts` | 1.95M | two channels, two runs, a failover, the reconciler: exact accounts, and no slot taken from a holder |
| `slots_reconciler` | 1.10M | one failing call of any kind: the counters converge |
| `tasks` | 2.99M | `SlotsFollowSessions`, `CatchUpSlotsFollowEntry`, `OneWriter`, `FootageIsKept`, `PackedNumbersAreDistinct`, `GuideIsCurrent`, `ChannelsKeepTheirStreams` |
| `manager_upstream`, `manager_delay`, `manager_finished`, `slots_reuse`, `slots_dropped`, `recordings_restart` | violated | see section 4 |

### 3.1 Bounds

* **Ring.** Packets of 2 bytes, chunks of 2 packets, writes of up to 8 bytes, 8
  bytes over 3 connections: every phase of partial and pending bytes meets every
  boundary and reset, and a write spans a chunk. The boundary log (2) is as large as
  the store, so a ring of one-chunk connections pushes a boundary out that a reader
  may still hold the first chunk of. So it may in the code, which keeps 64 boundaries of
  up to 300 chunks and argues by the time a connection takes (boundary.go:5-10);
  `BoundaryOnRecord` therefore names that case. A retention of 1 and a clock to 1 make
  both evictions happen, a Read cap of 1 makes the reader lag.
* **Store.** Five segments of one or two bytes, three kept and one listed, a window
  of three and a cap of three bytes, two generations, one request; in one behaviour
  a fault of the disk, a second generation or a large segment: retirement by depth,
  by bytes and by the cap each meet a segment that is queued, pinned or listed.
* **Pipeline.** One audio rendition beside the video, in automatic mode: a copy, Quick
  Sync and software are all tried, up to five attempts; two deaths, one boundary
  ahead. It is stopped or loses its ring, not both.
* **Manager.** Two callers and two tunes or resumes: a tune that waits on
  another's gate, a tune that finds a finished channel, a rejoin during a
  countdown, a resume beside a stop. Larger instances were run once beside
  these, with the same invariants and no violation: three tunes of two HLS
  clients (3.1M and 15.1M states), two channels with HLS (4.9M), delays and
  lingers both on and off with three tunes (9.5M), two ids (14.9M).
* **Sessions.** Two pipelines, so one can fail late under its successor. Three
  casts: two viewers without a GET; two viewers, one GET and one pipeline; one viewer
  with two GETs.
* **Drain.** One channel with a viewer and one attempt that fails, or two
  channels whose posts are all answered; a queue of 3, batches of 2, two tries.
* **Run loop.** Three streams on two URLs, one switch, two retries, one Advance,
  two failed checks, one run that proves stable: the budget is met from both sides.
* **Slots.** `MaxRuns` is the channels started, `Switchers` those that switch
  (each once), `Failing` the kinds of calls that may fail, `MaxFaults` how often.
  `slots_accounts` has two channels whose streams share a profile with one
  connection, and an alternate: a reserve meets a full counter, a failover moves
  to the other profile. `slots_reconciler` has room for two on one profile, so a
  slot taken twice is visible.
* **VOD.** Three requests on two sessions, profiles with room for one and for two:
  a second request joins, retakes and adopts; a full profile refuses.
* **Catch-up.** Three GETs over two feeds with room for one and for two: one to
  open, one to displace, one to come while the first two are still under way.
* **Recording.** Two dispatches, two parts, two paths, two hours, one crash or
  shutdown, one edit: a resumed recording beside the end of the first.
* **Numbering.** Three streams in a compact group with two numbers free, one in a fixed
  group; two scans; two unhides open at once.
* **Guide.** Two rows, two editions, two parsers; of two refreshes, two edits of a
  mapping, one index build and one failure, four are used, or three with a build
  or failure.
* **Streams.** Two accounts, three entries (two share a hash under one key
  setting), a retention of one day and two days; of two refreshes, two rehashes, an edit and
  a failure, four are used, three with the failure. With three refreshes and a
  second channel (1.4M) and with five steps (9.4M) it was run beside.
* `SYMMETRY` is over callers and viewers, in `viewers` only, whose one action
  property does not tell them apart.

### 3.2 Fairness

* **Ring.** A reader that can take a step takes one (`WF` of each `ReaderStep`):
  Go schedules a runnable goroutine. Nothing forces an upstream to send, a
  channel to end or the wait's deadline to pass: that a reader drains rests on
  the notify channel alone.
* **Manager.** Every goroutine that has begun goes on: a caller through its
  attach (a start is bounded by the calls' timeouts), the tasks of a channel, a
  source that was cancelled. Nothing forces a client to leave, a linger or
  countdown to end, or a source to fail. The fairness is per caller and per
  channel.
* **Run loop.** The loop goes on (`LoopStep`), a switch that has begun is answered
  or times out (`SwitchStep`), an attempt that was cancelled returns. No attempt
  is forced to end by itself and no check to fail: `DeadUpstreamsEndThisRun`
  assumes that they do, in its premise.
* **Pipeline.** The run goes on; an encoder that must exit does, being killed after
  its grace; a feed ends once its encoder or the ring has; a reader whose output is
  dead ends; what was cut before the encoder's exit is published.
* **Slots.** `GoesOn`: calls and handlers are bounded by timeouts and each takes
  finitely many steps. The beat runs the reconciler for ever (`WF`); the relay
  answers its listing again and again (`SF`: it may be unreachable at any one
  run, not at every one).
* The modules of `tasks`, `HlsSessions`, `HlsStore` and `RelayDrain` are checked for
  safety only.

### 3.3 What the properties are for

The comment above each property says what it means. The ones to know:

* `NoLostWakeup`, and the theorem on `FinalReadIsEmpty`: Read and Wait are two calls; Wait's
  snapshot of `notify`, `closed` and `head` under one lock is what closes the gap,
  and looking at `closed` after `head` is what hands the tail over.
* `NoStrandedUpstream`: between "out of the map" and "cancelled" a channel is in
  the hands of one goroutine; nothing may drop it there.
* `IdleIsNoticed`: with the drop and the decision under different locks, and a
  linger that takes the question over, an idle channel always has a pending
  question, as long as its outputs run. `manager_finished` shows what happens after.
* `RefsAreHeld`, `ClientsAreHeld`: a count and a set, each under its own lock, agree
  with the handlers that will still give back, at every moment between two locks.
* `WantedIsFetchable`, `PlaylistIsTrue`: a playlist is rendered from a list whose
  head is being retired, copied and unlinked by another goroutine, and is fetched from
  later still.
* `MediaMatchesInit`: up to five attempts write one generation, and their outputs
  are read side by side; a player gets the files of one.
* `AutomaticSwitchesArePlayed`: the monitor, the stderr reader and the loop hand
  switches over through three flags and never lose one; an operator's may be.
* `UncrossedCallsAccount`: tune, failover and release are sequences of commands.
  As long as no two calls of one channel overlap they account exactly.
* `ReconcileSparesHolders`, `CountersConverge`: while no call fails, the reconciler
  never takes a slot from a channel that runs on one it reserved, and after any failure
  the counters come back to the truth.
* `SlotsFollowSessions`, `CatchUpSlotsFollowEntry`: the same question for VOD and
  catch-up, whose slots no relay holds; both hold up to named events, all of which
  section 4 describes.
* `FootageIsKept`: whatever step the workers die in, the parts are in the folder or
  in a file.
* `GuideIsCurrent`: when everything is quiet, no mapped row is left with old
  programmes: the deferrals, counters and late dispatches lose no work.
* `ChannelsKeepTheirStreams`: a channel's last row goes only if no refresh has
  listed it for the retention.

## 4 Where the code and what is said of it differ

### 4.1 With a run

Each is a run that TLC answers with a trace; PROJECT.json has the details. The
first, second and fifth are differences from a comment; the others look like bugs.

1. **Two upstreams of one id** (`manager_upstream`, manager.go:388). The start
   gate orders starts. A stop takes a channel out of the map first and cancels
   it afterwards, and its source runs until it returns: a tune in between starts
   the successor's source beside it.
2. **A short delay** (`manager_delay`, manager.go:514). A countdown armed by an
   earlier release is not cancelled when a client rejoins. If that client leaves
   just before it fires, the channel stops without the delay.
3. **An entry nobody removes** (`manager_finished`, output.go:234). The last
   client leaves under a linger, so the idle question is the linger's; the run
   ends by itself first and ends the linger without asking. The finished channel
   stays in the map, with its ring, until someone tunes it.
4. **A slot that is not counted** (`slots_reuse`, models.py:585). A tune beside
   its predecessor's release takes that run's assignment for its own; the release
   then deletes it and gives the slot back.
5. **A holder that both listings miss** (`slots_dropped`,
   slot_reconciler.py:443). A run that is still tuning at one reconciler run and
   unlisted, but not yet released, at the next is in neither listing; its counter
   is lowered although its source may still be connected.
6. **A recording nobody resumes** (`recordings_restart`, channels/tasks.py:2608-2611).
   The lock "auto-expires within ~45s if the worker died, so this only blocks
   recovery while the recording is genuinely live". A worker that is back sooner
   finds its own lock, passes the recording over, and recovery asks only once.

### 4.2 Met while modelling

The models do all of this; the properties are promised up to it, or, where one
is named here, are in the module without a run: TLC refutes them.

**HLS sessions.** An entry that is stopped between its activation and its
announcement raises client_disconnect before client_connect, which hls.go:411 says
never happens (`ConnectPrecedesDisconnect`).

**Run loop.** An Advance that lands in a back-off finds `playing` already chosen:
the old source is played once more, while every reader of `source` believes the new
one is (advance.go:61-66). Breaking out of a wait with a pending switch leaves
`needsReconnect` set. A health verdict on the old source may be applied to the new
one. The loop makes `MaxStreamSwitches` + 1 switches and never plays the last. A
single source that stalls is reconnected for ever.

**Drain.** The process exits without waiting for the releases of slots, which are
posted from goroutines of their own (drain.go:121-122 against channel.go:513-526;
`DrainReleasesSlots`); the reconciler repairs it. An HLS tune that is past
the gate may publish its channel after StopAll has listed the map: nobody stops it.

**Segment store.** After a window degrades nothing kicks the writer, so the segments
that were retired while it persisted stay on disk until the window is removed; the
degrade takes the segments that were queued out of the store before their time. The
branch of `commit` for a segment that has left the store is never taken. Without a
window retention is counted in publications, so a burst of short segments
shortens it on the clock (store.go:186-191).

**VOD.** multi_worker_connection_manager.py:1065-1067 says of a 0-to-1
transition that the "previous stream's GeneratorExit already DECRed the profile
counter" (`PreviousStreamGaveBack`). The creator counts itself only when its
body starts (:1145): a range request in between finds 0, takes a second slot, and
with room for one is refused. Two requests that adopt one idle session
(:975-984) do the same. A body that never begins keeps its slot until the reconciler
takes it.

**Slots.** With a failing call `ReconcileSparesHolders` is false: the first attempt of a
tune is late, its handler reserves on a second profile after the retry was
answered; the reconciler finds that counter unheld and lowers it to 0 while a failover
to that profile goes on, which finds the late assignment there, takes it for its own and
moves nothing (24 states, two profiles). A release whose answer is lost is tried
again, and the second handler releases by its ids whatever the channel holds by
then.

**Catch-up.** timeshift/views.py:2160-2161 says that on a handoff "the displaced
stream kept its profile reservation" (`HandoffKeepsReservation`).
`_try_reacquire_idle_pool` (:1378) takes a busy entry over without asking: its
stream may have released already (a failed one releases before it discards
the entry, :2495; an ending one before it marks it idle), or never have held
one. The new stream runs unreserved and gives back a slot it did not take. Also: an
abandon after the entry is gone releases twice; the grace may delete a busy entry; the
superseded marker (:2312-2324) changes nothing.

**Recordings.** A stop between the shutdown signal and ffmpeg's end is overwritten
by "interrupted" and resumed at the next start; one during the last relay call is
overwritten by "completed". Recovery acts on the row it read: on larger instances
`OneWriter` and `FootageIsKept` fail without `~stale`, which says that no recovery
has acted on a read that a dispatch has overtaken. One trace: the workers are down past
a recording's end; the late beat dispatches it, and it goes through to its
last save; the recovery, which had read the row as expired, writes "interrupted"
over it; the lock has lapsed, and an edit of the end schedules the recording again;
the second task passes the guard and takes the lock; the first one's last save
then deletes that lock, a further edit dispatches a third task, and two ffmpeg
write into one folder, against the comment at tasks.py:1440. In the same way a
recovery's old row, written back, lets a folder be cleared of another task's parts.
With `MaxJobs` 3, `MaxParts` 0, `MaxPaths` 1, `MaxNow` 4, `MaxFaults` 1 and
`MaxEdits` 3 it has 34 states. A recording whose
window ends before the next start is never joined. A delete during
post-processing leaves the file. A crash between the removal of the folder and
the last save makes a second file.

**Numbering.** The task lock is released in a `finally` inside the transaction it
protects (compact_numbering.py:203-205, 227-229): the next task numbers beside
numbers that are not committed. m3u/tasks.py:2111-2113 says the renumber loop
"iterates current provider streams (which excludes hidden ones)"; it excludes
nothing, hidden channels are renumbered at every sync and a visible one
oscillates (`HiddenKeepTheirNumbers`). A sync that fails between its
creation and its pack leaves duplicates. A channel hidden while its group syncs
may be deleted as a visible one.

**Guide.** epg/tasks.py:515-516 clears the index "so stale offsets are never used
during the refresh window"; a build that holds the file lock saves its old
index after that. The parse reads the refresh's lock and then counts itself, the
refresh reads the counter and then locks (:1632-1637 against :525): both may
run. The decrement and the delete of the counter are two commands; the counter has no
TTL, so a parser that dies makes every refresh defer until it gives up. A mapping
through the serializer, and a bulk edit, queue no parse; an override's parse is
queued before its commit. A parse that meets its duplicate leaves although that one
may already have seen the row unmapped. `parse_channels_only` deletes
rows that only an override maps (:1502).

**Streams.** A rehash that is blocked leaves the new keys saved: refreshes then make
second rows, the linked ones are not seen any more and are deleted after the
retention. In a later rehash such a pair is merged; if the row kept is one the
loop has yet to reach, it is then compared with itself, its links are deleted as
duplicates and so is it (core/tasks.py:585-637; `MeetsItself`). A merge keeps the
older row's date. A row that was merged away stays in the batch that was read and
is met again. "This task checks for and blocks M3U refresh tasks" (core/tasks.py:480): for
300 s, and its end deletes locks that a refresh holds by then. A row found by hash may
be another account's: it gets the content and keeps its account, whose clean-up may
delete it by its group. A failed batch is logged and the refresh succeeds. With
an empty key setting all streams have one hash. The playlist file of a
groups-only refresh or of a dead worker is used as if it were new and its
groups are not looked at: all group settings count as unseen and, once older than the
retention, are deleted with what the user had set.

## 5 The proofs

Every theorem is of the whole specification, for every value of the constants that the
module's `ASSUME` admits: sizes and budgets are naturals, sets that are counted are
finite, and a value that stands for "none" is not one of the others. The assumptions
that say more are named below.

### 5.1 RelayRing

`RelayRing_proofs` proves, for every packet and chunk size, capacity, retention,
read cap and set of readers (`ConstantsAssumption`: the sizes are positive
naturals, the bounds naturals; `ChunksArePackets`: a chunk is a whole number of
packets, 1361 of them in buffer.go:58, as ring.go:54 says of its data):

| Theorem | States |
|---|---|
| `RingTypes` | `Spec => []TypeOK` |
| `RingStore` | `Spec => [](StoreIsContiguous /\ ResidentIsLog)` |
| `RingAccounts` | `Spec => []EveryIndexAccountedFor` |
| `RingNoLostWakeup` | `Spec => []NoLostWakeup` |
| `RingFinalRead` | `Spec => []FinalReadIsEmpty` |
| `RingImplementsFanOut` | `Spec => ImplementsFanOut` |
| `RingPackets` | `Spec => []PacketsAreOneConnection` |
| `RingBoundaries` | `Spec => []BoundaryOnRecord` |
| `RingOrder` | `Spec => []BytesInOrder` |

**The inductive invariant.** `IInv` is `TypeOK`, `StoreInv`, `ReaderInv` and
`ClosedIsEnded`. None of the invariants above is inductive alone.
`EveryIndexAccountedFor` needs the store to be contiguous (a Read's `skipped` is
computed from one index and the cursor) and every cursor to be within the log;
`NoLostWakeup` needs the cursor's bound for the publish step; `FinalReadIsEmpty`
needs that nothing is published once the ring is closed, which the ring does not
check by itself in `Write` as modelled but gets from the loop having ended
(`ClosedIsEnded`). `StoreInv` relates the store to the history `log`: the store
is the last `Len(chunks)` entries of it.

**The argument.** `SuffixExtended` and `SuffixDropped` say that appending the
same chunks to the log and the store, and dropping a prefix of the store, keep
the store a suffix; `PublishStore` composes them into one lemma about `Publish`,
which `Write` and `MarkBoundary` both use. `BatchIsNext` says what a Read's batch
does to the cursor. `LoopKeepsIInv` and `ReaderKeepsIInv` have one step per
action. The refinement (`StepImplements`) maps each action to a step of `FanOut`
or to a stutter: a publish to `Publish`, an end to `Close`, a join behind the
live end to a `Join` within the floor (`JoinInRange`), a batch to `Deliver`
(`BatchIsLog`), `FinalRead` to `Drain`.

**The bytes.** Three invariants follow, each on top of `IInv`. `PacketInv`: the
carry is a run of consecutive bytes of the running connection that ends with the last
byte sent, the write unit is a run that is broken at packet boundaries only, and so is
every chunk. It is inductive because a reset drops the carry and a mark flushes the
write unit before the connection changes. `OrderInv`: each chunk is sorted and
before the next, the write unit and the carry, and all is no later than what was
sent. `BoundaryInv`: the boundaries are increasing and none is past `head + 1`; as
long as the running connection has published nothing its boundary is `head + 1`, so
its first chunk is found on record, or has been pushed out by as many later ones as
the log holds. The arithmetic of chunks and packets is in `PacketsAdd`, `PacketsSubtract` and
`PacketsMod`, the cutting of a byte string in `WholeIsPackets`, `CutPacked` and
`CutSorted`.

### 5.2 ChannelManager

Proved for any ids, callers, HLS callers, delays, lingers and bounds
(`ConstantsAssumption`: there is an id, `None` is no caller, HLS callers are
callers, the bounds are naturals); every invariant that the manager's passing runs
check is among them:

| Theorem | States |
|---|---|
| `Types` | `Spec => []TypeOK` |
| `OneStart` | `Spec => []OneStartPerId` |
| `NoneStranded` | `Spec => []NoStrandedUpstream` |
| `ReleasingOutstanding` | `Spec => []ReleasingIsOutstanding` |
| `ListedHolds` | `Spec => []ListedChannelHoldsSlot` |
| `IdleNoticed` | `Spec => []IdleIsNoticed` |
| `IdleStopFinal` | `Spec => []IdleStopIsFinal` |
| `ReclaimSparesViewers` | `Spec => []ReclaimTakesNoViewer` |
| `SessionsEnd` | `Spec => []SessionsEndWithChannel` |

**The map and the runs.** `IInv` is `TypeOK`, `MapInv`, `BirthInv` and `RunInv`.
What makes it inductive:

* `UnbornIsFresh` and `CallersHoldBorn`: a channel that is not started yet has no
  goroutine, no linger and no caller, so a publish disturbs nothing;
* `SpawnsWhatItMade` with the exclusive gate: two callers never spawn one channel;
* `StoppingIsUnlisted`: whoever is about to cancel a channel does so after it has
  left the map, so a listed channel never says "stopping", and
* `OverIsReported`: a listed channel whose run is over says stopped or error. That
  is why the reconciler may read a slot's holder off the list.

Steps that move callers only among places where they have a channel (`QuietStep`)
are dealt with by `QuietKeeps`, steps at one channel by `UnbornKept`, the four ways
out of the map by `Removed`, the deferred calls by `StageAdvances`; `TypesKept`,
`MapKept` and `RunKept` have one step per action.

**The viewers.** `VInv` adds what ties callers to channels:

* `ClientsAreAttached`: a caller is in a channel's clients exactly while its `pc` is
  at a place where it is registered and that is its channel. A linger can
  therefore only begin or end under a registered client, which is what
  `IdleStopIsFinal` and `IdleIsNoticed` turn on;
* `LeftIsUnlisted`: how a channel left is settled once, and it never comes back;
* `HookFollowsRing` and `NoneServedAfterSweep`: the hook fires after the ring has
  closed, so an entry that saw the ring open was added before the sweep, and the
  sweep finds it, whether it is checked, active or in the middle of a resume;
* `StoppedSessionsAreMoot`: a stopped session's client is dropped without an idle
  question, which is harmless because its channel is out of the map or its outputs
  are gone.

`ClientsKept`, `LeavesOnce`, `FinalKept`, `ReclaimKept`, `SessionsKept` and
`IdleKept` have one step per action and one lemma for each kind of change
(`JoinsListed`, `RemovedLeaves`, `LeaversKept`, `CallersOnly`, `JoinNoticed`).

### 5.3 HlsSessions

Proved for any finite sets of viewers and GETs, any number of pipelines, lingers on
or off: `CustodyHolds` and `RefsInvHolds` are the inductive invariants, `ClientsHeld`,
`ConnectsClosed`, `RefsHeld`, `MarkAndPipelineExclude` and `StoppedStaysStopped` the
five properties that `viewers` checks of the module.

The promises relate registries under three locks, so each says who will give back
what, at every moment between two locks. `SessCustodyInv` is layered:

* `FitsInv` says where an entry, its session, its departure and a GET can be at one
  time: the table's states alone allow combinations the handlers never make;
* `CustodyInv`: a client is registered exactly while one of an entry, a session
  that holds its releases, a departure, a resume and the leftovers of a stop is going to
  drop it, and never two of them;
* `AnnouncedInv`: connects less disconnects, with the resumes that have committed and
  not announced yet, are the disconnects that somebody still owes.

`CountedInv` is the same for `sessionRefs`, whose holders are four kinds of
handler (`HolderCount`). A sweep discards releases, so afterwards the count
may be too high and never too low; `RefsAreHeld` promises equality up to it.
`PipesStarted` says that a number not handed out yet is nobody's, which is why a
new pipeline starts with no holder, and why a late release finds another number
than its own. `MarkExcludesPipeline` is inductive as it stands, and
`StoppedIsFinal` follows from `SessCustodyInv` for one step (`EndStands`).

### 5.4 HlsPipeline

`PipelineTypes` and `PublishedMediaPlays`, for any audio renditions, both modes, any
bounds. `PipeInv` adds to the types: attempts of one generation are numbered in
order within each engine (`TriesInOrder`); between attempts nothing is open or cut
(`NothingBetween`); a reader that is past its init segment has stored this attempt's, a
segment that is cut has video, and what was published in this generation this attempt
published (`OwnMedia`), since only an attempt that published nothing is followed by
another of its generation; and the multivariant's strings are made once
(`StringsOfOne`).

### 5.5 RunLoop

`RunTypes`, `SwitchesInBudget`, `AutomaticSwitchesPlayed`, for any streams and
budgets. The reader reads the budget before it takes `switchMu` and parks its
switch after it has given it up, so the lock does not keep it and the loop apart; what
does is that its failover lies within the attempt it holds open
(`ReaderWithinAttempt`), in which the loop counts nothing. `RoomToCount` has the room
that an attempt leaves in both budgets, and `SourceOnItsWay` says that without an
operator the loop plays the channel's source, or the reader is handing it
over.

### 5.6 DvrRecording

`DvrTypes`, `OneTaskWrites`, `FootageStays`, for any number of tasks, parts,
paths, hours, faults and edits. `DvrInv` holds until `stale` and adds:

* a task holds the lock up to the end of its taping, and from its first look at the
  row on the row says "recording" or "stopped", which the guard refuses: the lock may
  lapse during post-processing, and the marked row stands in for it (`HeldLock`,
  `MarkedRow`, `OneTask`);
* the folder has all that its file has, until the parts are joined (`RowsFolder`,
  `TasksFolder`), so that neither the removal of one nor a rewrite of the other loses
  a part;
* what a task or recovery will write back is what the row says (`HeldRows`): the
  saves write whole rows.

### 5.7 VodSession and CatchUp

`Sessions_proofs` proves `CatchUpSlots` for any number of GETs and feeds and
`VodSlots` for any finite set of requests, any sessions and profiles, up to the
events that `strayed` and `muddled` record.

* **Catch-up.** At most one GET holds the slot of the entry or has just given it
  back (`OnePart`), a displaced one never does (`OnlyUsers`), and the counter of a
  feed is its reservations that have no entry yet and the seat, which counts until
  its holder has released it (`Counted`).
* **VOD.** A request's locals tell where it is (`FlagsTell`); a session is being opened
  by one request, during which nobody hands it back, and whoever counts on it
  meets one that is about to take its slot (`OpensAlone`); the record counts the
  requests whose `counted` is set (`CountsTell`). A profile's slots are then the
  sessions that stream on it and the requests that hold one in between
  (`SlotsTell`); every action moves at most one session or request from the one set to
  the other, which is what the cardinality lemmas are about.

### 5.8 EpgRefresh, StreamRefresh and Numbering

`Tasks_proofs` proves `GuideTypes` and `GuideStaysCurrent`, `StreamsAreTyped` and
`LastStreamsAreStale`, and `NumbersAreDistinct`.

* **The guide.** A refresh and a parse keep off each other by a counter and a lock that
  are read at different times, so no single key says who is at the file. `EpgInv`
  says: while the refresh is past its fetch the file lock is its own, and a build that
  holds the lock reads a file that stays; the counter is at least the parses that are in
  it, unless it was deleted under them, and whoever was counted after the refresh had
  looked knows it (`raced`). Each mapped row then is one of five: owed (an event that
  `GuideIsCurrent` names), queued or begun, being parsed, ahead of the running
  refresh, which will queue it, or current. Every step moves a row among the five.
* **The streams.** `StreamInv` has the types (one row per hash, links to rows
  only, a refresh belongs to its day) and the bookkeeping of dates: what a refresh has
  noted is no older than its start, and a row is no older than the last refresh that
  wrote its hash. A clean-up deletes by the row's date, a merge keeps the older
  date, so a row that goes for its age has a hash that was not written for longer.
* **The numbers.** The numbers of a group that somebody may yet see, in a row, in a
  pack's plan or in an open transaction, are apart from each other and from what is
  taken, unless the group is `loose` or was created and not packed yet. What
  packs keep apart is what `Numbered` gives: each stream the least number that is free
  after those of the streams before it. It is stated without recursion (the
  stream's rank among the streams is the number's rank among the free ones), so
  `NumberedFits` can be proved for any streams and any reserved numbers.

### 5.9 SlotPool

`PoolTyped`; `UncrossedCalls`, for any channels, runs and profiles; `HoldersAreSpared`.

* **The accounts.** A channel has at most one run that is not gone while no calls
  cross. Its assignment and the run's place say, at every step of a handler, on
  which profile the slot is, or is about to be (`RunFits`), and a counter is the
  cardinality of the runs that own a slot on it (`Counted`). This needs `OwnStreams`: no
  two channels have a candidate stream in common. `stream_profile` is keyed by the
  stream alone (models.py:644); where channels do share one, each overwrites the
  other's profile, a release gives back the wrong slot, and the theorem is false. TLC's
  instances satisfy it.
* **The reconciler.** It lowers a counter to the holders it listed if the
  counter's version is what it was at two readings. `Sparing` follows every
  reservation from the moment the profile's version was last read: either the version tells
  of it, or the run is in the listing, or its call was open at the listing before and
  is shut at this one, since no call lasts from one run of the reconciler to the
  next. Here calls may cross and channels may share streams; only failing calls are
  excluded (section 4.2, Slots).

### 5.10 RelayDrain

`DrainTypes`, `DrainTellsEnds` and `RowsInOrder`, for any channels, depth of the queue,
limit of a batch, number of attempts and of failures. An event is raised once, by the
step that takes its channel past the place where it is raised (`SaidFits`), so its
place in `said` is a number that orders it. The queue, the batch and, until an attempt
is given up that Django has, the table rise in that order, each below the next
(`OrderFits`). Copies of an event in the table and in given-up attempts are at most
the attempts made (`CopiesFit`). Unless something is lost, what was said is in the table,
the batch or the queue, and every channel that is over has said so (`EndsFit`); a
drain that waits for each step leaves queue and batch empty (`WaitsFit`).

### 5.11 HlsStore

`HlsStore_proofs` proves `StoreIsTyped`, `StoreServesThePlaylist`,
`StorePlaylistIsTrue` and `StoreDiskIsAccounted`, for any number of segments,
`StoreSegments` and `LiveEdge`, depth, ceiling, cap, sizes, generations, reads and
faults of the disk. `StoreInvHolds` is the invariant behind them:

* **Where a segment is** (`PlaceIsSound`): not published, in the list, retired (out of
  the list, its file still served), or gone. What is in the list is in memory or on
  disk; what is pending is in memory.
* **What has passed since it left the playlist** (`PastIsSound`). This is what makes
  `WantedIsFetchable` inductive: of a segment that memory alone holds, the
  publications since count up to `Unlisted`, and it leaves the list only when it is
  `StoreSegments` behind; of a retired one the ticks are no fewer than its `age`, by
  which the writer decides.
* **The writer** (`WriterIsSound`): its jobs are pending until the window degrades, and
  the file of its victim is there until it goes.
* **The files** (`FilesAreSound`): only files of no use wait to be unlinked, and what is
  read keeps its file, also when it was evicted meanwhile.

An operation is a change of the store, then a trim, then the note of what has left the
playlist. `SoundStore(st, k)` is the invariant of a store on its way: with `k = 1`
a publication has been made and not noted yet, so each segment is one further behind
than its history says. `TrimShrinks` says what a trim may do, whatever it decides:
heads leave, data is given up that the disk has. `TrimFollows`, `DegradeFollows` and
`NotedFollows` carry `SoundStore` through the three; then each action has a lemma of
its own. `AtRest` is what holds only between calls. The sums of sizes are cardinalities
of sets of bytes (`SizeOf`), so they are added without induction (`SizeOfParts`).
`PlaylistIsTrue` and `DiskIsAccounted` are inductive beside the rest, and conjuncts of
the invariant.

TLC checked `StoreInv` on the instance of `ring` and on three others (other depths,
ceilings and caps, two requests) before it was proved.

### 5.12 Only model-checked

Every invariant of a passing run, and every property of one that is not liveness, is a
theorem. What is left:

* **Liveness** (`DeliversLikeFanOut`, `GateOpens`, `RemovedIsReleased`,
  `DeadUpstreamsEndThisRun`, `StopEndsPipeline`, `CountersConverge`) is outside what
  the prover does: it needs fairness and ENABLED.
* The disagreements of section 4 are counterexamples, not theorems.

`StoreIsContiguous`, `ResidentIsLog`, `EveryIndexAccountedFor`, `FinalReadIsEmpty`,
`ReleasingIsOutstanding` and the type invariants are theorems and no longer in a run.

## 6 What is left out

The map covers about a sixth of the Python and Go lines. What is not modelled is,
in this order of size, rendering and CRUD (output, views and serializers,
plug-ins, accounts, backups), the parsing of foreign formats (XMLTV, Schedules
Direct, M3U, MPEG-TS, fMP4), and the following.

* **Ring.** The attached readers' bookkeeping and samples; the drop of a slow
  client (a `Leave`); headers and pacing.
* **Manager.** What a start asks of Django, durations (only the order of timers),
  fMP4 outputs and output profiles, the order in which a reclaim weighs idle
  channels, admission limits, the silence predicate's numbers. The cancel of a
  channel and the drop of its sessions' clients may come in either order;
  `setState` and `stop` are one step.
* **Sessions.** One pipeline key; the thresholds by which a session is idle.
* **Run loop.** The degraded failover's cache, events, statistics, the buffering
  state.
* **Drain.** Event details, statistics, the push to browsers, trimmed rows.
* **Slots.** Shared-login (credential) counters, profiles without a limit,
  previews by stream, redirect tunes, the snapshot's expiry, VOD and catch-up
  holders. A tune after a reclaim is another start. The failover's order of
  candidates is left open and its reads are taken together (that two failovers can
  go over `max_streams` is documented in the code); the counters of one
  reconciler run are clamped together. Channels of one instance share profiles,
  not streams: what two channels on one stream do to `stream_profile` is a listed
  hazard without a property.
* **VOD, catch-up.** TTLs, ranges, users' stream limits, other sessions' stops.
* **Recordings.** Recurring and series rules, comskip, artwork.
* **Numbering.** Channels of several streams, group overrides, orphans.
* **Guide.** Schedules Direct, local files, a file that vanishes.
* **Streams.** Filters, attributes, inactive accounts; a batch of a rehash is one
  row, so a failed batch loses one row's work; an XC account's playlist file holds no
  entries and is fetched again, which the model does not tell apart; a user's unlinking.
* **Packaging.** Probes, plans and command lines, fMP4, WebVTT, the parsing of
  boxes; of the store, windows that share the cap and the files of init segments.
* **Components** with status `not_modelled` in PROJECT.json: I/O, database rows and
  rendering.

## 7 The plan

| | Module | Status | Next |
|---|---|---|---|
| 1 | `RelayRing`, `FanOut` | checked, proved | |
| 2 | `ChannelManager` | checked, proved | an abstract lifecycle of one id (idle, starting, listed, leaving) that it implements |
| 3 | `HlsSessions`, `RunLoop`, `HlsPipeline` | checked, proved | liveness of departures |
| 4 | `VodSession`, `CatchUp`, `DvrRecording` | checked, proved | several users, stream limits; recurring and series rules |
| 5 | `EpgRefresh`, `StreamRefresh`, `Numbering` | checked, proved | Schedules Direct; several streams of a channel |
| 6 | `SlotPool` | checked, proved | shared streams; credentials |
| 7 | `RelayDrain` | checked, proved | the rewind directory |
| 8 | `HlsStore` | checked, proved | several windows under one cap |
| 9 | `Fragments` | planned | the fMP4 ring and `AttachOutput` |
| 10 | VOD catalogue | planned | two accounts' refreshes and the clean-up of orphans |

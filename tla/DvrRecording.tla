---------------------------- MODULE DvrRecording ----------------------------
(***************************************************************************)
(* One scheduled recording: its row, the run_recording tasks that are      *)
(* dispatched for it (apps/channels/tasks.py), the recovery that a worker  *)
(* start asks for, the one-off schedule (signals.py), the user's stop,     *)
(* extend, edit and delete (api_views.py), and the disk.                   *)
(*                                                                         *)
(* ffmpeg writes numbered parts into the recording's hidden folder; a      *)
(* finished recording is the file its parts were joined into.  The workers *)
(* die together and their ffmpeg with them, as recovery takes it: "this    *)
(* function runs on worker_ready, meaning all previous workers are dead".  *)
(* A read of the row and a save that follows at once are one step; a read  *)
(* that a slow call separates from its save is not.  Priming a recording   *)
(* takes less than the 45 s of the active lock.  Left out: artwork, titles,*)
(* URLs, comskip, stream statistics, events.                               *)
(***************************************************************************)
EXTENDS Naturals, FiniteSets

CONSTANTS
  MaxJobs,      \* bound: dispatches of run_recording
  MaxParts,     \* bound: segments that ffmpeg writes
  MaxPaths,     \* bound: output paths
  MaxNow,       \* bound: the clock; a recording starts at 1
  MaxFaults,    \* bound: crashes and shutdowns
  MaxEdits      \* bound: extensions and edits of the end

ASSUME DvrAssumption ==
  /\ MaxJobs \in Nat /\ MaxParts \in Nat /\ MaxPaths \in Nat \ {0}
  /\ MaxNow \in Nat \ {0} /\ MaxFaults \in Nat /\ MaxEdits \in Nat

VARIABLES
  rec,          \* Recording: custom_properties' status, _hls_dir, file_path; end_time
  beat,         \* the one-off PeriodicTask is there and enabled
  now,
  folder,       \* the HLS directory
  files,        \* what each output path holds
  job,          \* the run_recording tasks and their locals
  active,       \* dvr:recording-active, and who set it
  worker,       \* "up", "stopping" (_DVR_SHUTTING_DOWN) or "down"
  dispatchLock, \* dvr:recover_dispatch_lock
  recoverLock,  \* dvr:recover_lock
  recovery,     \* recover_recordings_on_startup, the row it has read, and
                \* whether a task has run since
  stale,        \* history: a recovery has acted on such a read
  cleaning,     \* destroy's background thread and the paths it captured
  taped,        \* parts ever written
  faults, edits \* counters of the two bounds

dvrVars == <<rec, beat, now, folder, files, job, active, worker, dispatchLock, recoverLock,
             recovery, stale, cleaning, taped, faults, edits>>

diskVars   == <<folder, files, taped>>
lockVars   == <<active, dispatchLock, recoverLock>>
workerVars == <<worker, faults>>
startVars  == <<recovery, stale>>

Jobs      == 1..MaxJobs    \* numbered as they are dispatched
NoJob     == 0
Paths     == 1..MaxPaths
NoPath    == 0
Statuses  == {"none", "recording", "stopped", "interrupted", "completed"}
JobPlaces == {"guard", "prepare", "prime", "check", "loop", "taping", "backoff",
              "ended", "concat", "waiting", "unset", "final", "save", "done"}
Rows  == [there : BOOLEAN, status : Statuses, dir : BOOLEAN, file : Paths \cup {NoPath},
          end : 0..MaxNow]
NewRec == [there |-> TRUE, status |-> "none", dir |-> FALSE, file |-> NoPath, end |-> 1]
Gone   == [NewRec EXCEPT !.there = FALSE]
NoRecovery == [at |-> "idle", rec |-> Gone, crossed |-> FALSE]
Folder(there, parts) == [there |-> there, parts |-> parts]

DvrTypeOK ==
  /\ rec \in Rows /\ beat \in BOOLEAN /\ now \in 0..MaxNow
  /\ folder \in [there : BOOLEAN, parts : SUBSET (1..MaxParts)]
  /\ files \in [Paths -> SUBSET (1..MaxParts)]
  /\ job \in [Jobs -> [at : JobPlaces \cup {"idle"}, deadline : 0..MaxNow,
                       file : Paths \cup {NoPath}, confirmed : BOOLEAN, interrupted : BOOLEAN,
                       draft : Rows]]
  /\ active \in Jobs \cup {NoJob} /\ worker \in {"up", "stopping", "down"}
  /\ dispatchLock \in BOOLEAN /\ recoverLock \in BOOLEAN
  /\ recovery \in [at : {"idle", "queued", "active", "expired", "saving"}, rec : Rows, crossed : BOOLEAN]
  /\ stale \in BOOLEAN
  /\ cleaning \in [on : BOOLEAN, file : Paths \cup {NoPath}, dir : BOOLEAN]
  /\ taped \in 0..MaxParts /\ faults \in 0..MaxFaults /\ edits \in 0..MaxEdits

DvrInit ==
  /\ rec = NewRec /\ beat = TRUE /\ now = 0
  /\ folder = Folder(FALSE, {}) /\ files = [f \in Paths |-> {}]
  /\ job = [j \in Jobs |-> [at |-> "idle", deadline |-> 0, file |-> NoPath,
                            confirmed |-> FALSE, interrupted |-> FALSE, draft |-> Gone]]
  /\ active = NoJob /\ worker = "up" /\ dispatchLock = FALSE /\ recoverLock = FALSE
  /\ recovery = NoRecovery /\ stale = FALSE
  /\ cleaning = [on |-> FALSE, file |-> NoPath, dir |-> FALSE]
  /\ taped = 0 /\ faults = 0 /\ edits = 0

----------------------------------------------------------------------------
InWindow(r) == 1 <= now /\ now <= r.end
Stopped     == rec.there /\ rec.status = "stopped"

\* A worker start's recovery gets to the rows in their window before a lock's
\* 45 s, an outage's 80 s or a recording's end have passed.
Recovering == recovery.at \in {"queued", "active"}

\* Past the guard and not yet done.
Running(j)     == job[j].at \notin {"idle", "guard", "done"}
At(j, place)   == job[j].at = place /\ worker # "down"
Goes(j, place) == job' = [job EXCEPT ![j].at = place]

Dispatched(j) ==
  /\ job[j].at = "idle" /\ \A k \in Jobs : k < j => job[k].at # "idle"
  /\ job' = [job EXCEPT ![j].at = "guard", ![j].deadline = rec.end]

\* _build_output_paths: the first path with nothing at it.
FreePath(f) == files[f] = {} /\ \A g \in Paths : g < f => files[g] # {}

----------------------------------------------------------------------------
(* run_recording                                                           *)

\* Celery Beat dispatches a schedule that is due.
BeatFires(j) ==
  /\ beat /\ now >= 1 /\ worker = "up" /\ Dispatched(j)
  /\ beat' = FALSE
  /\ UNCHANGED <<rec, now, diskVars, lockVars, workerVars, startVars, cleaning, edits>>

\* Mutant: SET without NX.
TakeAnyLock(j) == active' = j /\ Goes(j, "prepare") /\ beat' = FALSE

\* The active lock, then the schedule that dispatched the task is deleted.
TakeLock(j) ==
  IF active # NoJob THEN Goes(j, "done") /\ UNCHANGED <<active, beat>>
  ELSE active' = j /\ Goes(j, "prepare") /\ beat' = FALSE

\* The guard against a second run, and the lock at once after it.
Guard(j) ==
  /\ At(j, "guard")
  /\ IF ~rec.there \/ rec.status \in {"recording", "completed", "stopped"}
     THEN Goes(j, "done") /\ UNCHANGED <<active, beat>>
     ELSE TakeLock(j)
  /\ recovery' = [recovery EXCEPT !.crossed =
                     @ \/ (job'[j].at = "prepare" /\ recovery.at \in {"active", "expired", "saving"})]
  /\ UNCHANGED <<rec, now, diskVars, dispatchLock, recoverLock, workerVars, stale, cleaning,
                 edits>>

\* The row is read and the paths chosen: those of an earlier run whose folder
\* is still there, or new ones.  Without a row the task goes on, without paths.
Prepare(j) ==
  /\ At(j, "prepare")
  /\ CASE ~rec.there -> Goes(j, "check")
       [] Stopped    -> Goes(j, "done")
       [] OTHER ->
            \E f \in Paths :
              /\ IF rec.dir /\ rec.file # NoPath /\ folder.there THEN f = rec.file
                 ELSE FreePath(f)
              /\ job' = [job EXCEPT ![j].at = "prime", ![j].file = f]
  /\ UNCHANGED <<rec, beat, now, diskVars, lockVars, workerVars, startVars, cleaning, edits>>

\* The row is read again after the posters and primed.
Prime(j) ==
  /\ At(j, "prime")
  /\ Goes(j, IF Stopped THEN "done" ELSE "check")
  /\ rec' = IF ~rec.there \/ Stopped THEN rec
            ELSE [rec EXCEPT !.status = "recording", !.dir = TRUE, !.file = job[j].file]
  /\ UNCHANGED <<beat, now, diskVars, lockVars, workerVars, startVars, cleaning, edits>>

\* The folder is made; a deleted recording is not begun.  (One that was
\* stopped is: the first poll of the attempt ends it.)
Check(j) ==
  /\ At(j, "check")
  /\ folder' = IF job[j].file = NoPath THEN folder ELSE [folder EXCEPT !.there = TRUE]
  /\ job' = [job EXCEPT ![j].at = IF rec.there THEN "loop" ELSE "ended",
                        ![j].interrupted = ~rec.there]
  /\ UNCHANGED <<rec, beat, now, files, taped, lockVars, workerVars, startVars, cleaning, edits>>

\* The loop's condition, and the start of ffmpeg.
StartTaping(j) ==
  /\ At(j, "loop")
  /\ Goes(j, IF job[j].file # NoPath /\ now <= job[j].deadline /\ worker # "stopping"
             THEN "taping" ELSE "ended")
  /\ UNCHANGED <<rec, beat, now, diskVars, lockVars, workerVars, startVars, cleaning, edits>>

\* ffmpeg closes a segment.
Tape(j) ==
  /\ At(j, "taping") /\ folder.there /\ taped < MaxParts
  /\ taped' = taped + 1
  /\ folder' = Folder(TRUE, folder.parts \cup {taped'})
  /\ job' = [job EXCEPT ![j].confirmed = TRUE]
  /\ UNCHANGED <<rec, beat, now, files, lockVars, workerVars, startVars, cleaning, edits>>

\* A poll of the row while ffmpeg runs: the end may have been put off.
PollEnd(j) ==
  /\ At(j, "taping") /\ rec.there /\ rec.end > job[j].deadline
  /\ job' = [job EXCEPT ![j].deadline = rec.end]
  /\ UNCHANGED <<rec, beat, now, diskVars, lockVars, workerVars, startVars, cleaning, edits>>

\* ffmpeg is told to stop: the shutdown, the end, a delete or a stop.
TapingEnds(j) ==
  /\ At(j, "taping")
  /\ worker = "stopping" \/ now > job[j].deadline \/ ~rec.there \/ Stopped
  /\ Goes(j, "ended")
  /\ UNCHANGED <<rec, beat, now, diskVars, lockVars, workerVars, startVars, cleaning, edits>>

\* ffmpeg exits, stalls or brings nothing: retried after a back-off, until the
\* outage has lasted too long.
TapingFails(j) ==
  /\ At(j, "taping")
  /\ \/ Goes(j, "backoff")
     \/ ~Recovering
        /\ job' = [job EXCEPT ![j].at = "ended", ![j].interrupted = job[j].confirmed]
  /\ UNCHANGED <<rec, beat, now, diskVars, lockVars, workerVars, startVars, cleaning, edits>>

BackoffElapses(j) ==
  /\ At(j, "backoff")
  /\ job' = [job EXCEPT ![j].at = IF ~rec.there \/ Stopped THEN "ended" ELSE "loop",
                        ![j].interrupted = ~rec.there]
  /\ UNCHANGED <<rec, beat, now, diskVars, lockVars, workerVars, startVars, cleaning, edits>>

\* The folder is listed twice a second; when a delete has removed it the
\* listing raises, and nothing of the task runs after that.
FolderVanished(j) ==
  /\ At(j, "taping") /\ ~folder.there
  /\ Goes(j, "done")
  /\ UNCHANGED <<rec, beat, now, diskVars, lockVars, workerVars, startVars, cleaning, edits>>

\* After the loop.  A shutdown within the window leaves all to recovery; of a
\* deleted recording nothing stays on disk; any other is joined into its file.
\* The active lock is left to expire in the first two.
TapeEnds(j) ==
  /\ At(j, "ended")
  /\ \/ /\ worker = "stopping" /\ now <= job[j].deadline
        /\ rec' = IF rec.there THEN [rec EXCEPT !.status = "interrupted"] ELSE rec
        /\ Goes(j, "done")
        /\ UNCHANGED <<folder, files>>
     \/ /\ ~(worker = "stopping" /\ now <= job[j].deadline)
        /\ UNCHANGED rec
        /\ IF rec.there
           THEN /\ job' = [job EXCEPT ![j].at = "concat",
                                      ![j].interrupted = @ \/ ~job[j].confirmed]
                /\ UNCHANGED <<folder, files>>
           ELSE /\ Goes(j, "done")
                /\ folder' = IF job[j].file = NoPath THEN folder ELSE Folder(FALSE, {})
                /\ files' = [f \in Paths |-> IF f = job[j].file THEN {} ELSE files[f]]
  /\ UNCHANGED <<beat, now, taped, lockVars, workerVars, startVars, cleaning, edits>>

\* Mutant: the folder goes whether or not the file came about.
ConcatAlwaysClears(j) ==
  /\ At(j, "concat")
  /\ \/ Goes(j, "waiting") /\ UNCHANGED files
     \/ /\ folder.parts # {}
        /\ files' = [files EXCEPT ![job[j].file] = folder.parts]
        /\ Goes(j, "waiting")
  /\ UNCHANGED <<rec, beat, now, folder, taped, lockVars, workerVars, startVars, cleaning, edits>>

\* The segments are joined, or are kept because that failed; without segments
\* there is nothing to do.
Concat(j) ==
  /\ At(j, "concat")
  /\ \/ Goes(j, "final") /\ UNCHANGED files
     \/ /\ folder.parts # {}
        /\ files' = [files EXCEPT ![job[j].file] = folder.parts]
        /\ Goes(j, "waiting")
  /\ UNCHANGED <<rec, beat, now, folder, taped, lockVars, workerVars, startVars, cleaning, edits>>

\* The last viewer of the folder has gone, or four hours have.
ClearFolder(j) ==
  /\ At(j, "waiting")
  /\ folder' = Folder(FALSE, {})
  /\ Goes(j, "unset")
  /\ UNCHANGED <<rec, beat, now, files, taped, lockVars, workerVars, startVars, cleaning, edits>>

UnsetFolder(j) ==
  /\ At(j, "unset")
  /\ rec' = IF rec.there THEN [rec EXCEPT !.dir = FALSE] ELSE rec
  /\ Goes(j, "final")
  /\ UNCHANGED <<beat, now, diskVars, lockVars, workerVars, startVars, cleaning, edits>>

\* The row is read for its final status ...
Finalize(j) ==
  /\ At(j, "final")
  /\ IF ~rec.there THEN active' = NoJob /\ Goes(j, "done")
     ELSE /\ job' = [job EXCEPT ![j].at = "save",
               ![j].draft = [rec EXCEPT !.status = CASE Stopped            -> "stopped"
                                                     [] job[j].interrupted -> "interrupted"
                                                     [] OTHER              -> "completed"]]
          /\ UNCHANGED active
  /\ UNCHANGED <<rec, beat, now, diskVars, dispatchLock, recoverLock, workerVars, startVars,
                 cleaning, edits>>

\* ... and saved after the relay has answered with the stream's statistics;
\* then the lock is deleted, whoever set it.  A recording deleted meanwhile ends
\* the task there, its lock still set.
SaveFinal(j) ==
  /\ At(j, "save")
  /\ IF rec.there
     THEN rec' = [job[j].draft EXCEPT !.end = rec.end] /\ active' = NoJob
     ELSE UNCHANGED <<rec, active>>
  /\ Goes(j, "done")
  /\ UNCHANGED <<beat, now, diskVars, dispatchLock, recoverLock, workerVars, startVars, cleaning,
                 edits>>

\* The lock's 45 s, which only the polls of a running ffmpeg renew.
ActiveLapses ==
  /\ active # NoJob
  /\ \/ job[active].at = "done"
     \/ job[active].at \in {"concat", "waiting", "unset", "final", "save"} /\ ~Recovering
  /\ active' = NoJob
  /\ UNCHANGED <<rec, beat, now, diskVars, job, dispatchLock, recoverLock, workerVars,
                 startVars, cleaning, edits>>

----------------------------------------------------------------------------
(* recover_recordings_on_startup                                           *)

RecoveryIs(place) == recovery.at = place /\ worker # "down"

\* It is done with this row: the schedule of a recording to come is seen to,
\* and the lock released.
RecoveryDone == recovery' = NoRecovery /\ recoverLock' = FALSE

Reads(as)  == recovery' = [at |-> as, rec |-> rec, crossed |-> \E j \in Jobs : Running(j)]
ActsOnRead == stale' = (stale \/ recovery.crossed)

\* One recovery at a time.  It reads the rows that are in their window, and
\* those past it that still say "recording".
RecoverFetch ==
  /\ RecoveryIs("queued")
  /\ IF recoverLock THEN recovery' = NoRecovery /\ UNCHANGED <<recoverLock, beat>>
     ELSE CASE rec.there /\ InWindow(rec) ->
                 Reads("active") /\ recoverLock' = TRUE
                 /\ UNCHANGED beat
            [] rec.there /\ now > rec.end /\ rec.status = "recording" ->
                 Reads("expired") /\ recoverLock' = TRUE
                 /\ UNCHANGED beat
            [] OTHER -> RecoveryDone /\ beat' = (beat \/ (rec.there /\ now < 1))
  /\ UNCHANGED <<rec, now, diskVars, job, active, dispatchLock, workerVars, stale, cleaning, edits>>

\* In the window: neither a recording that has ended nor one whose lock is
\* held is touched; any other is marked, its schedule revoked, and dispatched.
RecoverSkips ==
  /\ RecoveryIs("active")
  /\ recovery.rec.status \in {"completed", "stopped"} \/ active # NoJob \/ ~rec.there
  /\ RecoveryDone
  /\ UNCHANGED <<rec, beat, now, diskVars, job, active, dispatchLock, workerVars, stale, cleaning,
                 edits>>

RecoverResumes(j) ==
  /\ RecoveryIs("active")
  /\ recovery.rec.status \notin {"completed", "stopped"} /\ active = NoJob /\ rec.there
  /\ rec' = [recovery.rec EXCEPT !.status = "interrupted", !.end = rec.end]
  /\ beat' = FALSE
  /\ Dispatched(j)
  /\ RecoveryDone
  /\ ActsOnRead
  /\ UNCHANGED <<now, diskVars, active, dispatchLock, workerVars, cleaning, edits>>

\* Past it: what was taped is joined, if it can be.
RecoverJoins ==
  /\ RecoveryIs("expired")
  /\ \/ UNCHANGED <<folder, files>>
     \/ /\ recovery.rec.dir /\ recovery.rec.file # NoPath
        /\ folder.there /\ folder.parts # {}
        /\ files' = [files EXCEPT ![recovery.rec.file] = folder.parts]
        /\ folder' = Folder(FALSE, {})
  /\ recovery' = [recovery EXCEPT !.at = "saving"]
  /\ ActsOnRead
  /\ UNCHANGED <<rec, beat, now, taped, job, lockVars, workerVars, cleaning, edits>>

RecoverSaves ==
  /\ RecoveryIs("saving")
  /\ rec' = IF rec.there THEN [recovery.rec EXCEPT !.status = "interrupted", !.end = rec.end]
            ELSE rec
  /\ RecoveryDone
  /\ ActsOnRead
  /\ UNCHANGED <<beat, now, diskVars, job, active, dispatchLock, workerVars, cleaning, edits>>

----------------------------------------------------------------------------
(* The workers and Redis                                                   *)

Shutdown ==
  /\ worker = "up" /\ faults < MaxFaults
  /\ worker' = "stopping" /\ faults' = faults + 1
  /\ UNCHANGED <<rec, beat, now, diskVars, job, lockVars, startVars, cleaning, edits>>

\* The workers die: at once, or at the end of a shutdown.
Crash ==
  /\ \/ worker = "up" /\ faults < MaxFaults /\ faults' = faults + 1
     \/ worker = "stopping" /\ UNCHANGED faults
  /\ worker' = "down"
  /\ job' = [j \in Jobs |-> IF job[j].at = "idle" THEN job[j] ELSE [job[j] EXCEPT !.at = "done"]]
  /\ recovery' = NoRecovery
  /\ UNCHANGED <<rec, beat, now, diskVars, lockVars, stale, cleaning, edits>>

\* worker_ready: one worker asks for the recovery, if the claim of an earlier
\* start has lapsed.  Redis may have restarted as well, and have lost its keys.
Boot ==
  /\ worker = "down" /\ worker' = "up"
  /\ \E kept \in BOOLEAN :
       /\ active' = IF kept THEN active ELSE NoJob
       /\ recoverLock' = (kept /\ recoverLock)
       /\ recovery' = [recovery EXCEPT !.at = IF kept /\ dispatchLock THEN "idle" ELSE "queued"]
  /\ dispatchLock' = TRUE
  /\ UNCHANGED <<rec, beat, now, diskVars, job, faults, stale, cleaning, edits>>

StartLocksLapse ==
  /\ \/ dispatchLock /\ dispatchLock' = FALSE /\ UNCHANGED recoverLock
     \/ recoverLock /\ recovery.at = "idle" /\ recoverLock' = FALSE /\ UNCHANGED dispatchLock
  /\ UNCHANGED <<rec, beat, now, diskVars, job, active, workerVars, startVars, cleaning, edits>>

TimePasses ==
  /\ now < MaxNow /\ ~Recovering
  /\ now' = now + 1
  /\ UNCHANGED <<rec, beat, diskVars, job, lockVars, workerVars, startVars, cleaning, edits>>

----------------------------------------------------------------------------
(* The user                                                                *)

Stop ==
  /\ rec.there /\ rec.status \in {"none", "recording"}
  /\ rec' = [rec EXCEPT !.status = "stopped"]
  /\ beat' = FALSE
  /\ UNCHANGED <<now, diskVars, job, lockVars, workerVars, startVars, cleaning, edits>>

\* extend goes past the signals: nothing is rescheduled.
Extend ==
  /\ rec.there /\ rec.status \in {"none", "recording"}
  /\ rec.end < MaxNow /\ edits < MaxEdits /\ edits' = edits + 1
  /\ rec' = [rec EXCEPT !.end = @ + 1]
  /\ UNCHANGED <<beat, now, diskVars, job, lockVars, workerVars, startVars, cleaning>>

\* An edit of the end revokes the schedule and makes another when the end is
\* to come, unless the recording runs.
Edit ==
  /\ rec.there /\ rec.end < MaxNow /\ edits < MaxEdits /\ edits' = edits + 1
  /\ rec' = [rec EXCEPT !.end = @ + 1]
  /\ beat' = IF rec.status = "recording" THEN beat ELSE now < rec.end + 1
  /\ UNCHANGED <<now, diskVars, job, lockVars, workerVars, startVars, cleaning>>

\* destroy: the paths are captured, the row and its schedule deleted ...
Destroy ==
  /\ rec.there
  /\ rec' = Gone /\ beat' = FALSE
  /\ cleaning' = [on |-> TRUE, file |-> rec.file, dir |-> rec.dir]
  /\ UNCHANGED <<now, diskVars, job, lockVars, workerVars, startVars, edits>>

\* ... and a thread removes what was there.
Clean ==
  /\ cleaning.on /\ cleaning' = [cleaning EXCEPT !.on = FALSE]
  /\ files' = [f \in Paths |-> IF f = cleaning.file THEN {} ELSE files[f]]
  /\ folder' = IF cleaning.dir THEN Folder(FALSE, {}) ELSE folder
  /\ UNCHANGED <<rec, beat, now, taped, job, lockVars, workerVars, startVars, edits>>

----------------------------------------------------------------------------
JobBegins(j) == BeatFires(j) \/ Guard(j) \/ Prepare(j) \/ Prime(j) \/ Check(j)
JobTapes(j) ==
  \/ StartTaping(j) \/ Tape(j) \/ PollEnd(j) \/ TapingEnds(j) \/ TapingFails(j)
  \/ BackoffElapses(j) \/ FolderVanished(j)
JobFinishes(j) ==
  \/ TapeEnds(j) \/ Concat(j) \/ ClearFolder(j) \/ UnsetFolder(j) \/ Finalize(j) \/ SaveFinal(j)
RecoveryStep ==
  \/ RecoverFetch \/ RecoverSkips \/ RecoverJoins \/ RecoverSaves
  \/ \E j \in Jobs : RecoverResumes(j)
FaultStep == Shutdown \/ Crash \/ Boot
LapseStep == ActiveLapses \/ StartLocksLapse \/ TimePasses
UserStep  == Stop \/ Extend \/ Edit \/ Destroy \/ Clean

DvrNext ==
  \/ \E j \in Jobs : JobBegins(j) \/ JobTapes(j) \/ JobFinishes(j)
  \/ RecoveryStep \/ FaultStep \/ LapseStep \/ UserStep

DvrSpec == DvrInit /\ [][DvrNext]_dvrVars

----------------------------------------------------------------------------
(* Properties.                                                             *)

\* tasks.py:1440, "prevents concurrent ffmpeg processes writing to the same
\* HLS dir when duplicate recovery dispatches occur": a schedule, its
\* replacement by an edit and the recoveries of several starts never have two
\* ffmpeg at work, until a recovery writes back a row that it read before or
\* while a task ran; then they may: README, section 4.
OneWriter == ~stale => Cardinality({j \in Jobs : job[j].at = "taping"}) <= 1

\* What has been taped of a recording that has not been deleted is on disk: in
\* its folder or in a file, across stops, crashes, shutdowns, failed joins and
\* resumed or repeated runs; until, likewise, a recovery acts on an old read.
FootageIsKept ==
  rec.there /\ ~stale => \A p \in 1..taped : p \in folder.parts \/ \E f \in Paths : p \in files[f]

\* tasks.py:2611, "this only blocks recovery while the recording is genuinely
\* live": a recording that recovery passes over for its lock has a task.
RecoverySkipsOnlyLive ==
  [][ (/\ RecoverSkips /\ rec.there
       /\ recovery.rec.status \notin {"completed", "stopped"})
      => job[active].at # "done" ]_dvrVars
=============================================================================

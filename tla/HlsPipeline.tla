----------------------------- MODULE HlsPipeline -----------------------------
(***************************************************************************)
(* One HLS pipeline's run (relay/hls/pipeline.go): its generations, the    *)
(* attempts at each, the readers of an attempt's outputs, its segmenter    *)
(* (segmenter.go), and the Quick Sync detector (detect.go).                *)
(*                                                                         *)
(* An attempt is an encoder process, a feed, a reader per output and a     *)
(* segmenter; the next begins when all have ended.  An init segment, a     *)
(* codec string and a segment's media are the number of the attempt that   *)
(* wrote them, and kept for the current generation: no code writes to an   *)
(* earlier one.  What a probe finds, when a process crashes and when a     *)
(* wait has been long enough are inputs.  The segments themselves are      *)
(* HlsStore's; what a plan asks of the encoder is left out.                *)
(***************************************************************************)
EXTENDS Naturals, FiniteSets

CONSTANTS
  AudioTracks,   \* audio renditions of the output
  Automatic,     \* the HLS profile's mode: video may be copied
  MaxDeaths,     \* deaths within deathWindow that fail the output
  MaxAhead       \* bound: source boundaries that wait in the ring

ASSUME PipelineAssumption ==
  /\ "video" \notin AudioTracks /\ Automatic \in BOOLEAN
  /\ MaxDeaths \in Nat \ {0} /\ MaxAhead \in Nat

VARIABLES
  course,    \* run and generation: place, whether it is the first, attempt, engine
  encoder,   \* the attempt's process
  input,     \* the attempt's feed
  output,    \* per rendition, its reader
  cutting,   \* the attempt's segmenter
  initOf,    \* Store.inits of the generation: per rendition, whose it is
  recorded,  \* initCodecs, likewise
  manifest,  \* codecs: whether its strings are of one attempt
  readiness, \* readyCh and readyErr
  deaths,    \* those still within deathWindow
  ahead,     \* boundaries in the ring past the generation's start
  upstream,  \* the ring is open; the pipeline's context
  quickSync, \* the Detector: its answer, whether it was written off, a recheck
  played     \* history: per rendition, whose media the generation last published

pipelineVars == <<course, encoder, input, output, cutting, initOf, recorded, manifest, readiness,
                  deaths, ahead, upstream, quickSync, played>>
attemptVars == <<encoder, input, output, cutting>>
servedVars  == <<initOf, recorded, manifest, readiness>>
worldVars   == <<ahead, upstream>>

Renditions  == AudioTracks \cup {"video"}
ByNobody    == [r \in Renditions |-> 0]
NothingCut  == [cut |-> FALSE, published |-> FALSE, overlong |-> FALSE]
NoOutput    == [r \in Renditions |-> "off"]

PipelineTypeOK ==
  /\ course.at \in {"probing", "drained", "begin", "attempt", "over"}
  /\ course.later \in BOOLEAN
  /\ course.try \in 0..5 /\ course.engine \in {"copy", "qsv", "software"}
  /\ course.err \in {"none", "stopped", "failed", "no video"}
  /\ encoder \in {"none", "running", "exited"}
  /\ input \in {"none", "feeding", "boundary", "closed", "failed"}
  /\ output \in [Renditions -> {"off", "silent", "open", "stored", "media", "empty", "ended"}]
  /\ readiness \in {"no", "ok", "failed"} /\ manifest \in {"none", "one", "mixed"}
  /\ deaths \in 0..MaxDeaths /\ ahead \in 0..MaxAhead
  /\ {initOf, recorded, played} \subseteq [Renditions -> 0..5]

PipelineInit ==
  /\ course = [at |-> "probing", later |-> FALSE, try |-> 0, first |-> 1, engine |-> "software",
               forced |-> FALSE, err |-> "none", decided |-> FALSE]
  /\ encoder = "none" /\ input = "none" /\ output = NoOutput
  /\ cutting = NothingCut
  /\ initOf = ByNobody /\ recorded = ByNobody /\ played = ByNobody
  /\ manifest = "none" /\ readiness = "no"
  /\ deaths = 0 /\ ahead = 0 /\ upstream = [open |-> TRUE, halted |-> FALSE]
  /\ quickSync = [checked |-> FALSE, usable |-> FALSE, off |-> FALSE, recheck |-> FALSE]

----------------------------------------------------------------------------
(* The run                                                                 *)

\* Mutant: who waits for the multivariant hears nothing of the end.
FinishesQuietly(c, err) ==
  /\ course' = [c EXCEPT !.at = "over", !.err = err]
  /\ UNCHANGED <<initOf, recorded, played, readiness>>

\* finish, and the deferred Close and done.
Finish(c, err) ==
  /\ course' = [c EXCEPT !.at = "over", !.err = err]
  /\ readiness' = IF readiness = "no" THEN "failed" ELSE readiness
  /\ UNCHANGED <<initOf, recorded, played>>

\* The next generation, whose bytes begin with the boundary or at the ring's
\* head, where a ring that is closed has none.
NextGeneration(c, atBoundary) ==
  /\ course' = [c EXCEPT !.at = IF atBoundary \/ upstream.open THEN "probing" ELSE "drained",
                         !.later = TRUE, !.try = 0, !.first = 1, !.engine = "software"]
  /\ ahead' = IF atBoundary THEN ahead - 1 ELSE 0
  /\ initOf' = ByNobody /\ recorded' = ByNobody /\ played' = ByNobody
  /\ UNCHANGED readiness

Probing == course.at \in {"probing", "drained"}

ProbeStops ==
  /\ Probing /\ upstream.halted
  /\ Finish(course, "stopped")
  /\ UNCHANGED <<attemptVars, manifest, deaths, worldVars, quickSync>>

\* The probe's feed meets the end of the ring or of its connection before the
\* probe can describe it.
ProbeFindsEnd ==
  /\ Probing /\ ~upstream.halted
  /\ \/ ~upstream.open /\ Finish(course, "stopped") /\ UNCHANGED ahead
     \/ /\ ahead > 0
        /\ IF course.later THEN NextGeneration(course, TRUE)
           ELSE ahead' = ahead - 1 /\ UNCHANGED <<course, initOf, recorded, played, readiness>>
  /\ UNCHANGED <<attemptVars, manifest, deaths, upstream, quickSync>>

\* It fails, or finds no video: fatal, for the source or for the output.
ProbeFails ==
  /\ course.at = "probing" /\ ~upstream.halted
  /\ \/ Finish(course, "failed")
     \/ Finish(course, IF course.decided THEN "failed" ELSE "no video")
  /\ UNCHANGED <<attemptVars, manifest, deaths, worldVars, quickSync>>

\* EngineFor: a first detection that its caller's end cuts short is no answer.
DetectorAnswers ==
  IF quickSync.checked THEN {quickSync}
  ELSE {[quickSync EXCEPT !.checked = TRUE, !.usable = b] : b \in BOOLEAN}
         \cup (IF upstream.halted THEN {quickSync} ELSE {})
EngineOf(q) == IF q.checked /\ q.usable /\ ~q.off THEN "qsv" ELSE "software"

\* generation: video that qualifies is copied in automatic mode, unless the run
\* is encoded from here.
Decides ==
  /\ course.at = "probing" /\ ~upstream.halted
  /\ \/ /\ Automatic /\ ~course.forced
        /\ course' = [course EXCEPT !.at = "begin", !.try = 1, !.first = 1, !.engine = "copy",
                                    !.decided = TRUE]
        /\ UNCHANGED quickSync
     \/ \E q \in DetectorAnswers :
          /\ quickSync' = q
          /\ course' = [course EXCEPT !.at = "begin", !.try = 1, !.first = 1,
                                      !.engine = EngineOf(q), !.decided = TRUE]
  /\ UNCHANGED <<attemptVars, servedVars, deaths, worldVars, played>>

----------------------------------------------------------------------------
(* An attempt                                                              *)

\* noteInit's second half: the first strings that are complete are the
\* multivariant's.
Complete(now) ==
  IF \A r \in Renditions : now[r] # 0
  THEN /\ manifest' = IF \E t \in 1..5 : \A r \in Renditions : now[r] = t THEN "one" ELSE "mixed"
       /\ recorded' = ByNobody
       /\ readiness' = IF readiness = "no" THEN "ok" ELSE readiness
  ELSE recorded' = now /\ UNCHANGED <<manifest, readiness>>
Records(r) ==
  IF manifest # "none" THEN UNCHANGED <<recorded, manifest, readiness>>
  ELSE Complete([recorded EXCEPT ![r] = course.try])

\* Mutant: the strings of an attempt that failed stay.
StartsOnOldStrings(silent) == [r \in Renditions |-> IF r \in silent THEN course.try ELSE recorded[r]]

\* An attempt starts from an empty set; the renditions that are filled with
\* silence have their string at once.
StartsEmpty(silent) == [r \in Renditions |-> IF r \in silent THEN course.try ELSE 0]

Fills(silent) ==
  /\ initOf' = [r \in Renditions |-> IF r \in silent THEN course.try ELSE initOf[r]]
  /\ IF manifest # "none" THEN UNCHANGED <<recorded, manifest, readiness>>
     ELSE Complete(StartsEmpty(silent))

AttemptStarts ==
  /\ course.at = "begin"
  /\ \E silent \in SUBSET AudioTracks :
       /\ Fills(silent)
       /\ output' = [r \in Renditions |-> IF r \in silent THEN "silent" ELSE "open"]
  /\ course' = [course EXCEPT !.at = "attempt"]
  /\ encoder' = "running" /\ input' = "feeding"
  /\ cutting' = NothingCut
  /\ UNCHANGED <<deaths, worldVars, quickSync, played>>

\* generation and encodeGeneration, after an attempt that ended before its first
\* segment: where the next begins.
NextAttempts ==
  LET c    == course
      From(n, first, engine) == [c EXCEPT !.at = "begin", !.try = n, !.first = first, !.engine = engine]
  IN CASE c.engine = "copy" /\ c.try = 1 -> {<<From(2, 1, "copy"), quickSync>>}
       [] c.engine = "copy" /\ c.try = 2 -> {<<From(3, 3, EngineOf(q)), q>> : q \in DetectorAnswers}
       [] c.engine # "copy" /\ c.try = c.first ->
            {<<From(c.try + 1, c.first, c.engine), quickSync>>}
       [] c.engine = "qsv" /\ c.try = c.first + 1 ->
            {<<From(c.try + 1, c.first, "software"), quickSync>>}
       [] OTHER -> {}

GivesUp   == /\ NextAttempts = {} /\ Finish(course, "failed") /\ UNCHANGED <<manifest, quickSync>>
TakesNext == \E next \in NextAttempts : course' = next[1] /\ quickSync' = next[2]

\* The silence or the process cannot be made: the renditions before it are filled.
AttemptCannotStart ==
  /\ course.at = "begin"
  /\ \/ upstream.halted /\ Finish(course, "stopped") /\ UNCHANGED <<manifest, quickSync>>
     \/ ~upstream.halted /\ GivesUp
     \/ /\ ~upstream.halted /\ TakesNext /\ UNCHANGED played
        /\ \E silent \in SUBSET AudioTracks : Fills(silent)
  /\ UNCHANGED <<attemptVars, deaths, worldVars>>

During == course.at = "attempt"
Moves(r, to) == output' = [output EXCEPT ![r] = to]

StoresInit(r) == initOf' = [initOf EXCEPT ![r] = course.try]

\* onInit: SetInit first, then the string.
ReaderStores(r) ==
  /\ During /\ output[r] = "open"
  /\ StoresInit(r) /\ Moves(r, "stored")
  /\ UNCHANGED <<course, encoder, input, cutting, recorded, manifest, readiness, deaths, worldVars,
                 quickSync, played>>

ReaderRecords(r) ==
  /\ During /\ output[r] = "stored"
  /\ Records(r) /\ Moves(r, "media")
  /\ UNCHANGED <<course, encoder, input, cutting, initOf, deaths, worldVars, quickSync, played>>

\* An output ends, with its process or before it; or it is no fragmented MP4 and
\* the process is killed.
ReaderEnds(r) ==
  /\ During /\ output[r] \in {"open", "media"}
  /\ Moves(r, IF output[r] = "open" THEN "empty" ELSE "ended")
  /\ encoder' \in {encoder, "exited"}
  /\ UNCHANGED <<course, input, cutting, servedVars, deaths, worldVars, quickSync, played>>

\* cutLocked: a video segment is cut; or a copied one is too long, which ends the
\* generation, as it kills the process.
CutsVideo ==
  /\ During /\ output["video"] = "media" /\ ~cutting.cut /\ ~cutting.overlong
  /\ \/ cutting' = [cutting EXCEPT !.cut = TRUE] /\ UNCHANGED encoder
     \/ /\ course.engine = "copy" /\ cutting' = [cutting EXCEPT !.overlong = TRUE]
        /\ encoder' = "exited"
  /\ UNCHANGED <<course, input, output, servedVars, deaths, worldVars, quickSync, played>>

\* publishLocked and publishOneLocked: the audio has come as far, has ended, or
\* was waited for.  A rendition without media gets an empty fragment; the last
\* segment, if an audio is empty, is not published at all.
Publishes ==
  /\ During /\ cutting.cut
  /\ \E with \in SUBSET {a \in AudioTracks : output[a] \in {"media", "ended"}} :
       LET bare  == {a \in AudioTracks : output[a] # "silent"} \ with
           last  == output["video"] = "ended"
           media == with \cup {"video"} \cup {a \in AudioTracks : output[a] = "silent"}
       IN IF last /\ bare # {}
          THEN cutting' = [cutting EXCEPT !.cut = FALSE] /\ UNCHANGED <<played, quickSync>>
          ELSE /\ cutting' = [cutting EXCEPT !.cut = FALSE, !.published = TRUE]
               /\ played' = [r \in Renditions |-> IF r \in media THEN course.try ELSE played[r]]
               \* onFirst of software's turn after Quick Sync.
               /\ quickSync' = [quickSync EXCEPT !.recheck = @ \/
                     (~cutting.published /\ course.try = course.first + 2)]
  /\ UNCHANGED <<course, encoder, input, output, servedVars, deaths, worldVars>>

\* The detection encode again, on its own goroutine.
RecheckEnds ==
  /\ quickSync.recheck
  /\ quickSync' \in {[quickSync EXCEPT !.recheck = FALSE], [quickSync EXCEPT !.recheck = FALSE, !.off = TRUE]}
  /\ UNCHANGED <<course, attemptVars, servedVars, deaths, worldVars, played>>

\* The feed stops at a boundary or at the ring's end and closes the process's
\* input; or the process or the attempt has ended.
FeedEnds ==
  /\ During /\ input = "feeding"
  /\ \/ ahead > 0 /\ input' = "boundary"
     \/ ~upstream.open /\ input' = "closed"
     \/ encoder = "exited" /\ input' = "failed"
  /\ UNCHANGED <<course, encoder, output, cutting, servedVars, deaths, worldVars, quickSync, played>>

\* It exits by itself, crashes, is killed by watch as stalled, by the grace after
\* its input closed, or with the context.
EncoderExits ==
  /\ During /\ encoder = "running" /\ encoder' = "exited"
  /\ UNCHANGED <<course, input, output, cutting, servedVars, deaths, worldVars, quickSync, played>>
MustExit == upstream.halted \/ input \in {"boundary", "closed"}

Joined == /\ encoder = "exited" /\ input # "feeding" /\ ~cutting.cut
          /\ \A r \in Renditions : output[r] \in {"silent", "empty", "ended"}

\* A death or an over-long copy: the third within the window fails the output.
Dies(c) ==
  IF deaths + 1 >= MaxDeaths
  THEN Finish(c, "failed") /\ deaths' = deaths + 1 /\ UNCHANGED ahead
  ELSE NextGeneration(c, FALSE) /\ deaths' = deaths + 1

\* How attempt classifies its end, and what run does of it.
AttemptEnds ==
  /\ During /\ Joined
  /\ CASE upstream.halted ->
            Finish(course, "stopped") /\ UNCHANGED <<manifest, deaths, ahead, quickSync>>
       [] ~upstream.halted /\ cutting.overlong ->
            Dies([course EXCEPT !.forced = TRUE]) /\ UNCHANGED <<manifest, quickSync>>
       [] ~upstream.halted /\ ~cutting.overlong /\ input = "boundary" ->
            NextGeneration(course, TRUE) /\ UNCHANGED <<manifest, deaths, quickSync>>
       [] ~upstream.halted /\ ~cutting.overlong /\ input = "closed" ->
            Finish(course, "stopped") /\ UNCHANGED <<manifest, deaths, ahead, quickSync>>
       [] ~upstream.halted /\ ~cutting.overlong /\ input = "failed" /\ ~cutting.published ->
            /\ GivesUp \/ (TakesNext /\ UNCHANGED <<servedVars, played>>)
            /\ UNCHANGED <<deaths, ahead>>
       [] OTHER -> Dies(course) /\ UNCHANGED <<manifest, quickSync>>
  /\ encoder' = "none" /\ input' = "none" /\ output' = NoOutput /\ cutting' = NothingCut
  /\ UNCHANGED upstream

----------------------------------------------------------------------------
(* The channel                                                             *)

ChannelStep ==
  /\ course.at # "over"
  /\ \/ ahead < MaxAhead /\ upstream.open /\ ahead' = ahead + 1 /\ UNCHANGED upstream
     \/ upstream.open /\ upstream' = [upstream EXCEPT !.open = FALSE] /\ UNCHANGED ahead
     \/ ~upstream.halted /\ upstream' = [upstream EXCEPT !.halted = TRUE] /\ UNCHANGED ahead
  /\ UNCHANGED <<course, attemptVars, servedVars, deaths, quickSync, played>>

DeathLapses ==
  /\ deaths > 0 /\ course.at # "over" /\ deaths' = deaths - 1
  /\ UNCHANGED <<course, attemptVars, servedVars, worldVars, quickSync, played>>

CourseStep ==
  \/ ProbeStops \/ ProbeFindsEnd \/ ProbeFails \/ Decides
  \/ AttemptStarts \/ AttemptCannotStart \/ AttemptEnds \/ RecheckEnds
OutputStep ==
  \/ \E r \in Renditions : ReaderStores(r) \/ ReaderRecords(r) \/ ReaderEnds(r)
  \/ CutsVideo \/ Publishes \/ FeedEnds \/ EncoderExits

PipelineNext == CourseStep \/ OutputStep \/ ChannelStep \/ DeathLapses
DeadOutputEnds == encoder = "exited" /\ \E r \in Renditions : ReaderEnds(r) \/ ReaderRecords(r)

\* The run goes on, an input that has ended and a killed process are noticed, and
\* what a dead process leaves is read to its end.
PipelineFairness ==
  /\ WF_pipelineVars(CourseStep)
  /\ WF_pipelineVars(MustExit /\ EncoderExits)
  /\ WF_pipelineVars((encoder = "exited" \/ ~upstream.open) /\ FeedEnds)
  /\ WF_pipelineVars(DeadOutputEnds)
  /\ WF_pipelineVars(encoder = "exited" /\ Publishes)
PipelineSpec == PipelineInit /\ [][PipelineNext]_pipelineVars /\ PipelineFairness

----------------------------------------------------------------------------
(* Properties                                                              *)

\* A player decodes what it is given: media that was published has beside it
\* the init segment of the attempt that encoded it, and the multivariant's codec
\* strings are of one attempt, whose init segments are all stored (pipeline.go:
\* 379-396, :838-845), although a generation is tried up to five times, on two
\* engines and as a copy, and its outputs are read side by side.
MediaMatchesInit ==
  /\ \A r \in Renditions : played[r] # 0 => initOf[r] = played[r]
  /\ readiness = "ok" => manifest = "one"

\* When the pipeline is stopped or the channel's ring closes, the run ends, in
\* whatever it is, and who waits for the multivariant has an answer.
StopEndsPipeline ==
  (upstream.halted \/ ~upstream.open) ~> (course.at = "over" /\ readiness # "no" /\ ~quickSync.recheck)
=============================================================================

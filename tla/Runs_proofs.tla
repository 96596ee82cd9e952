----------------------------- MODULE Runs_proofs -----------------------------
(***************************************************************************)
(* What a run keeps to between its start and its end: its loop over the    *)
(* sources (RunLoop), the packager of its HLS renditions (HlsPipeline) and *)
(* the events it raises, the drain included (RelayDrain), for every budget *)
(* and every set of streams, renditions and channels.                      *)
(***************************************************************************)
EXTENDS RunLoop, HlsPipeline, RelayDrain, FiniteSetTheorems, SequenceTheorems, TLAPS

----------------------------------------------------------------------------
(* The run loop's safety, for every budget and every set of streams.  None of *)
(* the three switchers holds the others back: a reader reads the budget before *)
(* it takes switchMu, and parks after it has given it up.  What keeps them     *)
(* apart is where the loop is, and that is what the invariant adds.            *)

\* The lock is its holder's: the loop asks between attempts, the reader while
\* its call is under way.
LockIsHeld ==
  /\ switchMu = "loop" => loop \in {"health", "retries"}
  /\ switchMu = "reader" <=> reader = "calling"
  /\ switchMu = "operator" => parked.operator # Nobody /\ advances > 0

\* A buffering failover lies within its attempt, which it holds open, and leaves
\* the budget as it found it.
ReaderWithinAttempt ==
  /\ reader \in {"waiting", "calling", "parking"} => loop = "attempt"
       /\ switches < MaxStreamSwitches
  /\ reader = "parking" => parked.reader # Nobody
  /\ rotation = switches + (IF reader = "parking" THEN 1 ELSE 0)

\* Within a round there is room for one more switch, and within an attempt for
\* one more failure.
RoomToCount ==
  /\ loop \notin {"outer", "done"} => switches <= MaxStreamSwitches
  /\ loop \in {"attempt", "returned", "judge"} => failures < MaxRetries

\* Without an operator the loop's source is the channel's, or is on its way
\* through the reader's hand-over, or the run is over.
SourceOnItsWay ==
  advances = 0 =>
    /\ reader = "parking" => parked.reader = source
    /\ queued = Nobody => playing = source \/ loop = "done" \/ reader = "parking"
    /\ queued # Nobody => queued = source /\ reader = "spent"
                          /\ ((loop = "attempt" /\ cut) \/ loop = "returned")

RunInv == RunTypeOK /\ LockIsHeld /\ ReaderWithinAttempt /\ RoomToCount /\ SourceOnItsWay

\* Every step keeps it.
LEMMA StepRunInv == RunInv /\ [RunNext]_runLoopVars => RunInv'
<1> SUFFICES ASSUME RunInv, [RunNext]_runLoopVars PROVE RunInv'
  OBVIOUS
<1> USE RunLoopAssumption
    DEF RunInv, RunTypeOK, LockIsHeld, ReaderWithinAttempt, RoomToCount, SourceOnItsWay,
        LoopPlaces, ReaderPlaces, LoopGoes,
        runnerVars, switchVars, monitorVars, boundVars, handVars
<1>1. CASE Outer
  <2>1. RunTypeOK'
    BY <1>1 DEF Outer
  <2>2. LockIsHeld'
    BY <1>1 DEF Outer
  <2>3. ReaderWithinAttempt'
    BY <1>1 DEF Outer
  <2>4. RoomToCount'
    BY <1>1 DEF Outer
  <2>5. SourceOnItsWay'
    BY <1>1 DEF Outer
  <2> QED
    BY <2>1, <2>2, <2>3, <2>4, <2>5
<1>2. CASE Attempt
  <2>1. RunTypeOK'
    BY <1>2 DEF Attempt
  <2>2. LockIsHeld'
    BY <1>2 DEF Attempt
  <2>3. ReaderWithinAttempt'
    BY <1>2 DEF Attempt
  <2>4. RoomToCount'
    BY <1>2 DEF Attempt
  <2>5. SourceOnItsWay'
    BY <1>2 DEF Attempt
  <2> QED
    BY <2>1, <2>2, <2>3, <2>4, <2>5
<1>3. CASE Return
  BY <1>3 DEF Return
<1>4. CASE TakePending
  BY <1>4 DEF TakePending
<1>5. CASE Judge
  <2>1. RunTypeOK'
    <3>1. failures' \in 0..MaxRetries
      <4>1. CASE UNCHANGED failures
        BY <4>1
      <4>2. CASE failures' = failures + 1
        BY <1>5, <4>2 DEF Judge
      <4>3. CASE failures' = 1
        BY <4>3
      <4> QED
        BY <1>5, <4>1, <4>2, <4>3, Zenon DEF Judge, CountFailure, CountAfresh
    <3>2. urlFailed' \in BOOLEAN
      <4>1. (failures' >= MaxRetries) \in BOOLEAN /\ (MaxRetries = 1) \in BOOLEAN
        BY <3>1
      <4> QED
        BY <1>5, <4>1, Zenon DEF Judge, CountFailure, CountAfresh
    <3>3. tried' \subseteq Streams /\ source' \in Streams
      BY <1>5 DEF Judge, Calm, Stable, CountFailure, CountAfresh
    <3>4. /\ switches' \in 0..(MaxStreamSwitches + 1)
          /\ calm' \in 0..MaxCalm /\ rotation' \in Nat
      BY <1>5 DEF Judge, Calm, Stable, CountFailure, CountAfresh
    <3>5. loop' \in LoopPlaces /\ needsReconnect' \in BOOLEAN
      BY <1>5 DEF Judge, Calm, Stable, CountFailure, CountAfresh
    <3> QED
      BY <1>5, <3>1, <3>2, <3>3, <3>4, <3>5 DEF Judge
  <2>2. LockIsHeld'
    BY <1>5 DEF Judge, Calm, Stable, CountFailure, CountAfresh
  <2>3. ReaderWithinAttempt'
    BY <1>5 DEF Judge, Calm, Stable, CountFailure, CountAfresh
  <2>4. RoomToCount'
    BY <1>5 DEF Judge, Calm, Stable, CountFailure, CountAfresh
  <2>5. SourceOnItsWay'
    BY <1>5 DEF Judge, Calm, Stable, CountFailure, CountAfresh
  <2> QED
    BY <2>1, <2>2, <2>3, <2>4, <2>5
<1>6. CASE BackoffEnds
  BY <1>6 DEF BackoffEnds
<1>7. CASE Decide
  <2>1. RunTypeOK'
    BY <1>7 DEF Decide
  <2>2. LockIsHeld'
    BY <1>7 DEF Decide
  <2>3. ReaderWithinAttempt'
    BY <1>7 DEF Decide
  <2>4. RoomToCount'
    BY <1>7 DEF Decide
  <2>5. SourceOnItsWay'
    BY <1>7 DEF Decide
  <2> QED
    BY <2>1, <2>2, <2>3, <2>4, <2>5
<1>8. CASE LoopAsks
  BY <1>8 DEF LoopAsks, Lock
<1>9. CASE LoopSwitches
  BY <1>9 DEF LoopSwitches, Resolved, ApplySwitch, Excluded
<1>10. CASE LoopRefused
  BY <1>10 DEF LoopRefused, Refused, Excluded
<1>11. CASE ReaderTimesOut
  BY <1>11 DEF ReaderTimesOut
<1>12. CASE ReaderAsks
  BY <1>12 DEF ReaderAsks, Lock
<1>13. CASE ReaderAnswered
  BY <1>13 DEF ReaderAnswered, Refused, Resolved, ApplySwitch, Excluded
<1>14. CASE ReaderParks
  BY <1>14 DEF ReaderParks
<1>15. CASE Advance
  BY <1>15 DEF Advance
<1>16. CASE AdvanceParks
  BY <1>16 DEF AdvanceParks
<1>17. CASE CheckFails
  <2>1. RunTypeOK'
    <3>1. cut' \in BOOLEAN /\ needsSwitch' \in BOOLEAN /\ needsReconnect' \in BOOLEAN
      BY <1>17, Zenon DEF CheckFails
    <3>2. unhealthy' \in 0..MaxUnhealthyChecks
      BY <1>17 DEF CheckFails
    <3> QED
      BY <1>17, <3>1, <3>2 DEF CheckFails
  <2>2. LockIsHeld'
    BY <1>17 DEF CheckFails
  <2>3. ReaderWithinAttempt'
    BY <1>17 DEF CheckFails
  <2>4. RoomToCount'
    BY <1>17 DEF CheckFails
  <2>5. SourceOnItsWay'
    BY <1>17 DEF CheckFails
  <2> QED
    BY <2>1, <2>2, <2>3, <2>4, <2>5
<1>18. CASE CheckPasses
  BY <1>18 DEF CheckPasses
<1>19. CASE Halt
  BY <1>19 DEF Halt
<1>20. CASE UNCHANGED runLoopVars
  BY <1>20 DEF runLoopVars
<1> QED
  BY <1>1, <1>2, <1>3, <1>4, <1>5, <1>6, <1>7, <1>8, <1>9, <1>10, <1>11,
     <1>12, <1>13, <1>14, <1>15, <1>16, <1>17, <1>18, <1>19, <1>20
  DEF RunNext, LoopStep, SwitchStep

\* The runner starts in it, so every state of every run satisfies it.
LEMMA RunInvHolds == RunSpec => []RunInv
<1>1. RunInit => RunInv
  <2> SUFFICES ASSUME RunInit PROVE RunInv
    OBVIOUS
  <2> USE RunLoopAssumption DEF RunInit
  <2>1. RunTypeOK
    <3>1. parked \in [reader : Streams \cup {Nobody}, operator : Streams \cup {Nobody}]
      OBVIOUS
    <3>2. tried \subseteq Streams
      OBVIOUS
    <3>3. cut \in BOOLEAN /\ halted \in BOOLEAN /\ urlFailed \in BOOLEAN
      OBVIOUS
    <3>4. needsSwitch \in BOOLEAN /\ needsReconnect \in BOOLEAN /\ healthy \in BOOLEAN
      OBVIOUS
    <3> QED
      BY <3>1, <3>2, <3>3, <3>4 DEF RunTypeOK, LoopPlaces, ReaderPlaces
  <2>2. LockIsHeld /\ ReaderWithinAttempt /\ RoomToCount /\ SourceOnItsWay
    BY DEF LockIsHeld, ReaderWithinAttempt, RoomToCount, SourceOnItsWay
  <2> QED
    BY <2>1, <2>2 DEF RunInv
<1> QED
  BY <1>1, StepRunInv, PTL DEF RunSpec

\* Every variable of the run loop keeps its type: no counter passes its budget
\* and no stream of another channel is ever played, tried or parked.
THEOREM RunTypes == RunSpec => []RunTypeOK
<1>1. RunInv => RunTypeOK
  BY DEF RunInv
<1> QED
  BY <1>1, RunInvHolds, PTL

\* Issue #221 for every budget: the loop's switches and the buffering reader's
\* together stay within MaxStreamSwitches + 1 since a run last proved stable.
THEOREM SwitchesInBudget == RunSpec => []SwitchesStayInBudget
<1>1. RunInv => SwitchesStayInBudget
  BY RunLoopAssumption
  DEF RunInv, RunTypeOK, ReaderWithinAttempt, SwitchesStayInBudget
<1> QED
  BY <1>1, RunInvHolds, PTL

\* As long as no operator switches, an attempt that nobody is ending plays the
\* stream that the channel names as its source.
THEOREM AutomaticSwitchesPlayed == RunSpec => []AutomaticSwitchesArePlayed
<1>1. RunInv => AutomaticSwitchesArePlayed
  BY DEF RunInv, SourceOnItsWay, AutomaticSwitchesArePlayed, PlaysItsSource
<1> QED
  BY <1>1, RunInvHolds, PTL

----------------------------------------------------------------------------
(* What a player is given, for every set of renditions and every bound: the    *)
(* init segment beside published media is of the attempt that encoded it.  The *)
(* induction is over where an attempt's outputs are: a reader that is past its *)
(* init has stored this attempt's, a segment that is cut has video, and what   *)
(* was published in this generation was published by this attempt, since only  *)
(* an attempt that published nothing is followed by another of its generation. *)

Courses == [at : {"probing", "drained", "begin", "attempt", "over"}, later : BOOLEAN,
            try : 0..5, first : {1, 3}, engine : {"copy", "qsv", "software"},
            forced : BOOLEAN, err : {"none", "stopped", "failed", "no video"}, decided : BOOLEAN]
Cuttings == [cut : BOOLEAN, published : BOOLEAN, overlong : BOOLEAN]
Detectors == [checked : BOOLEAN, usable : BOOLEAN, off : BOOLEAN, recheck : BOOLEAN]

CourseTyped == course \in Courses
AttemptTyped ==
  /\ encoder \in {"none", "running", "exited"}
  /\ input \in {"none", "feeding", "boundary", "closed", "failed"}
  /\ output \in [Renditions -> {"off", "silent", "open", "stored", "media", "empty", "ended"}]
  /\ cutting \in Cuttings
Served == [Renditions -> 0..5]
ServedTyped ==
  /\ initOf \in Served /\ recorded \in Served /\ played \in Served
  /\ readiness \in {"no", "ok", "failed"} /\ manifest \in {"none", "one", "mixed"}
WorldTyped ==
  /\ deaths \in 0..MaxDeaths /\ ahead \in 0..MaxAhead
  /\ upstream \in [open : BOOLEAN, halted : BOOLEAN] /\ quickSync \in Detectors

PipeTypes == CourseTyped /\ AttemptTyped /\ ServedTyped /\ WorldTyped

\* A copy is tried twice, an encode up to three times: at most five attempts.
TriesInOrder ==
  course.at \in {"begin", "attempt"} =>
    \/ course.engine = "copy" /\ course.first = 1 /\ course.try \in {1, 2}
    \/ course.engine # "copy" /\ course.try \in course.first..(course.first + 2)

\* Between attempts no output is read and nothing is cut; and until an attempt
\* has published, its generation has played nothing.
NothingBetween ==
  /\ course.at # "attempt" => output = NoOutput /\ cutting = NothingCut /\ input = "none"
  /\ course.at \in {"probing", "drained", "begin"} => played = ByNobody

\* What an attempt has stored, recorded, cut and published is its own.
OwnMedia ==
  course.at = "attempt" =>
    /\ \A r \in Renditions :
         /\ output[r] \in {"silent", "stored", "media", "ended"} => initOf[r] = course.try
         /\ recorded[r] \in {0, course.try}
         /\ played[r] # 0 => /\ played[r] = course.try /\ cutting.published
                             /\ output[r] \in {"silent", "media", "ended"}
    /\ cutting.cut => output["video"] \in {"media", "ended"}

\* The strings are made once, those of one attempt, and none is kept after.
StringsOfOne == manifest # "mixed" /\ (manifest # "none" => recorded = ByNobody)

\* An output that has failed has ended, and a feed stops at a boundary there is.
BoundsHold ==
  /\ course.at # "over" => deaths < MaxDeaths
  /\ input = "boundary" => ahead > 0

PipeInv ==
  /\ PipeTypes /\ TriesInOrder /\ NothingBetween /\ OwnMedia /\ StringsOfOne /\ BoundsHold
  /\ MediaMatchesInit

----------------------------------------------------------------------------
(* What the helpers of the steps leave.                                        *)

\* What the detector answers is typed.
LEMMA DetectorAnswersTyped ==
  ASSUME quickSync \in Detectors, NEW q \in DetectorAnswers PROVE q \in Detectors
<1>1. CASE q = quickSync
  BY <1>1
<1>2. CASE q # quickSync
  <2>1. PICK b \in BOOLEAN : q = [quickSync EXCEPT !.checked = TRUE, !.usable = b]
    BY <1>2 DEF DetectorAnswers
  <2> QED
    BY <2>1 DEF Detectors
<1> QED
  BY <1>1, <1>2

\* The attempt that follows one is the next number of its generation.
LEMMA NextIsInOrder ==
  ASSUME PipeTypes, TriesInOrder, course.at \in {"begin", "attempt"}, NEW next \in NextAttempts
  PROVE  /\ next[1] \in Courses /\ next[1].at = "begin" /\ next[2] \in Detectors
         /\ \/ next[1].engine = "copy" /\ next[1].first = 1 /\ next[1].try \in {1, 2}
            \/ next[1].engine # "copy" /\ next[1].try \in next[1].first..(next[1].first + 2)
<1> DEFINE From(n, first, engine) ==
             [course EXCEPT !.at = "begin", !.try = n, !.first = first, !.engine = engine]
<1>1. \A q \in DetectorAnswers : q \in Detectors
  BY DetectorAnswersTyped DEF PipeTypes, WorldTyped
<1>2. \A q : EngineOf(q) \in {"qsv", "software"}
  BY DEF EngineOf
<1>3. \A n \in 0..5, first \in {1, 3}, engine \in {"copy", "qsv", "software"} :
        /\ From(n, first, engine) \in Courses
        /\ From(n, first, engine).at = "begin" /\ From(n, first, engine).try = n
        /\ From(n, first, engine).first = first /\ From(n, first, engine).engine = engine
  <2>1. course \in Courses
    BY DEF PipeTypes, CourseTyped
  <2>2. \A n \in 0..5, first \in {1, 3}, engine \in {"copy", "qsv", "software"} :
          From(n, first, engine) \in Courses
    BY <2>1 DEF Courses
  <2>3. \A n \in 0..5, first \in {1, 3}, engine \in {"copy", "qsv", "software"} :
          /\ From(n, first, engine).at = "begin" /\ From(n, first, engine).try = n
          /\ From(n, first, engine).first = first /\ From(n, first, engine).engine = engine
    BY <2>1 DEF Courses
  <2> HIDE DEF From
  <2> QED
    BY <2>2, <2>3
<1>4. quickSync \in Detectors /\ course.first \in {1, 3} /\ course.try \in 0..5
      /\ course.engine \in {"copy", "qsv", "software"}
  BY DEF PipeTypes, CourseTyped, WorldTyped, Courses
<1>5. CASE course.engine = "copy" /\ course.try = 1
  <2>1. next = <<From(2, 1, "copy"), quickSync>>
    BY <1>5 DEF NextAttempts
  <2> HIDE DEF From
  <2> QED
    BY <2>1, <1>3, <1>4
<1>6. CASE course.engine = "copy" /\ course.try = 2
  <2>1. PICK q \in DetectorAnswers : next = <<From(3, 3, EngineOf(q)), q>>
    <3>1. NextAttempts = {<<From(3, 3, EngineOf(q)), q>> : q \in DetectorAnswers}
      <4>1. ~(course.engine = "copy" /\ course.try = 1)
        BY <1>6
      <4>2. ~(course.engine # "copy" /\ course.try = course.first)
            /\ ~(course.engine = "qsv" /\ course.try = course.first + 1)
        BY <1>6
      <4> QED
        BY <4>1, <4>2, <1>6, Zenon DEF NextAttempts
    <3> QED
      BY <3>1
  <2> HIDE DEF From
  <2> QED
    BY <2>1, <1>1, <1>2, <1>3
<1>7. CASE course.engine # "copy" /\ course.try = course.first
  <2>1. next = <<From(course.try + 1, course.first, course.engine), quickSync>>
    BY <1>4, <1>7 DEF NextAttempts
  <2> HIDE DEF From
  <2>2. course.try + 1 \in 0..5 /\ course.try + 1 \in course.first..(course.first + 2)
    BY <1>7, <1>4
  <2> QED
    BY <2>1, <2>2, <1>3, <1>4, <1>7
<1>8. CASE course.engine = "qsv" /\ course.try = course.first + 1
  <2>1. next = <<From(course.try + 1, course.first, "software"), quickSync>>
    BY <1>8, <1>4 DEF NextAttempts
  <2> HIDE DEF From
  <2>2. course.try + 1 \in 0..5 /\ course.try + 1 \in course.first..(course.first + 2)
    BY <1>8, <1>4
  <2> QED
    BY <2>1, <2>2, <1>3, <1>4
<1>9. CASE ~(\/ course.engine = "copy" /\ course.try = 1
             \/ course.engine = "copy" /\ course.try = 2
             \/ course.engine # "copy" /\ course.try = course.first
             \/ course.engine = "qsv" /\ course.try = course.first + 1)
  BY <1>9 DEF NextAttempts
<1> QED
  BY <1>5, <1>6, <1>7, <1>8, <1>9

\* The empty tables are of their types.
LEMMA EmptyTyped ==
  /\ ByNobody \in Served /\ NothingCut \in Cuttings
  /\ NoOutput \in [Renditions -> {"off", "silent", "open", "stored", "media", "empty", "ended"}]
BY DEF ByNobody, Served, NothingCut, Cuttings, NoOutput

\* finish leaves the run over, and what was published as it was.
LEMMA FinishLeaves ==
  ASSUME NEW c \in Courses, NEW err \in {"stopped", "failed", "no video"}, Finish(c, err),
         ServedTyped
  PROVE  /\ course' \in Courses /\ course'.at = "over"
         /\ UNCHANGED <<initOf, recorded, played>>
         /\ readiness' \in {readiness, "failed"}
BY DEF Finish, Courses, ServedTyped

\* The next generation has nothing yet.
LEMMA NextGenerationLeaves ==
  ASSUME NEW c \in Courses, NEW b \in BOOLEAN, NextGeneration(c, b)
  PROVE  /\ course' \in Courses /\ course'.at \in {"probing", "drained"}
         /\ initOf' = ByNobody /\ recorded' = ByNobody /\ played' = ByNobody
         /\ readiness' = readiness /\ ahead' = IF b THEN ahead - 1 ELSE 0
<1>1. PICK at \in {"probing", "drained"} :
        course' = [c EXCEPT !.at = at, !.later = TRUE, !.try = 0, !.first = 1, !.engine = "software"]
  BY DEF NextGeneration
<1>2. course' \in Courses /\ course'.at = at
  <2>1. [c EXCEPT !.at = at, !.later = TRUE] \in Courses
    BY DEF Courses
  <2>2. \A d \in Courses, n \in 0..5 : [d EXCEPT !.try = n, !.first = 1, !.engine = "software"] \in Courses
    BY DEF Courses
  <2>3. course' = [[c EXCEPT !.at = at, !.later = TRUE] EXCEPT !.try = 0, !.first = 1, !.engine = "software"]
    BY <1>1 DEF Courses
  <2>4. 0 \in 0..5
    OBVIOUS
  <2>5. course' \in Courses
    BY <2>1, <2>2, <2>3, <2>4
  <2>6. course'.at = at
    <3>1. [c EXCEPT !.at = at, !.later = TRUE].at = at
      BY DEF Courses
    <3> QED
      BY <2>1, <2>3, <3>1 DEF Courses
  <2> QED
    BY <2>5, <2>6
<1> QED
  BY <1>2 DEF NextGeneration

\* A step that ends the run keeps the invariant.
LEMMA EndKeeps ==
  ASSUME PipeInv, course' \in Courses, course'.at = "over", WorldTyped',
         UNCHANGED <<initOf, recorded, played, manifest>>, readiness' \in {readiness, "failed"},
         encoder' \in {"none", "running", "exited"}, input' = "none", output' = NoOutput, cutting' = NothingCut
  PROVE  PipeInv'
<1> USE DEF PipeInv
<1>1. PipeTypes'
  BY EmptyTyped DEF PipeTypes, CourseTyped, AttemptTyped, ServedTyped
<1>2. TriesInOrder' /\ NothingBetween' /\ OwnMedia' /\ StringsOfOne' /\ BoundsHold'
  BY DEF TriesInOrder, NothingBetween, OwnMedia, StringsOfOne, BoundsHold
<1>3. MediaMatchesInit'
  BY DEF MediaMatchesInit
<1> QED
  BY <1>1, <1>2, <1>3

\* So does one that begins the next generation,
LEMMA RenewalKeeps ==
  ASSUME PipeInv, course' \in Courses, course'.at \in {"probing", "drained"}, WorldTyped',
         initOf' = ByNobody, recorded' = ByNobody, played' = ByNobody,
         UNCHANGED <<manifest, readiness>>, deaths' < MaxDeaths,
         encoder' \in {"none", "running", "exited"}, input' = "none", output' = NoOutput, cutting' = NothingCut
  PROVE  PipeInv'
<1> USE DEF PipeInv
<1>1. PipeTypes'
  BY EmptyTyped DEF PipeTypes, CourseTyped, AttemptTyped, ServedTyped
<1>2. TriesInOrder' /\ NothingBetween' /\ OwnMedia' /\ StringsOfOne' /\ BoundsHold'
  BY DEF TriesInOrder, NothingBetween, OwnMedia, StringsOfOne, BoundsHold
<1>3. MediaMatchesInit'
  BY DEF MediaMatchesInit, ByNobody
<1> QED
  BY <1>1, <1>2, <1>3

\* and one that goes to the next attempt of a generation that has played nothing.
LEMMA RetryKeeps ==
  ASSUME PipeInv, course' \in Courses, course'.at = "begin", TriesInOrder', WorldTyped',
         played' = ByNobody, initOf' \in Served, recorded' \in Served,
         manifest' \in {"none", "one"}, readiness' \in {"no", "ok", "failed"},
         readiness' = "ok" => manifest' = "one", manifest' # "none" => recorded' = ByNobody,
         deaths' < MaxDeaths,
         encoder' \in {"none", "running", "exited"}, input' = "none", output' = NoOutput, cutting' = NothingCut
  PROVE  PipeInv'
<1> USE DEF PipeInv
<1>1. PipeTypes'
  BY EmptyTyped DEF PipeTypes, CourseTyped, AttemptTyped, ServedTyped
<1>2. NothingBetween' /\ OwnMedia' /\ StringsOfOne' /\ BoundsHold'
  BY DEF NothingBetween, OwnMedia, StringsOfOne, BoundsHold
<1>3. MediaMatchesInit'
  BY DEF MediaMatchesInit, ByNobody
<1> QED
  BY <1>1, <1>2, <1>3

\* Strings that are all of attempt t, or not yet there, make a multivariant of one.
LEMMA CompleteLeaves ==
  ASSUME NEW t \in 1..5, NEW now \in Served, \A r \in Renditions : now[r] \in {0, t}, Complete(now),
         manifest = "none", ServedTyped, StringsOfOne, MediaMatchesInit
  PROVE  /\ recorded' \in Served /\ \A r \in Renditions : recorded'[r] \in {0, t}
         /\ manifest' \in {"none", "one"} /\ readiness' \in {"no", "ok", "failed"}
         /\ readiness' = "ok" => manifest' = "one"
         /\ manifest' # "none" => recorded' = ByNobody
<1>1. CASE \A r \in Renditions : now[r] # 0
  <2>1. \A r \in Renditions : now[r] = t
    BY <1>1
  <2>2. manifest' = "one" /\ recorded' = ByNobody
    BY <1>1, <2>1 DEF Complete
  <2>3. readiness' = IF readiness = "no" THEN "ok" ELSE readiness
    BY <1>1 DEF Complete
  <2>4. readiness' \in {"no", "ok", "failed"}
    BY <2>3 DEF ServedTyped
  <2>5. \A r \in Renditions : recorded'[r] = 0
    BY <2>2 DEF ByNobody
  <2> QED
    BY <2>2, <2>4, <2>5, EmptyTyped
<1>2. CASE ~\A r \in Renditions : now[r] # 0
  BY <1>2 DEF Complete, ServedTyped, StringsOfOne, MediaMatchesInit
<1> QED
  BY <1>1, <1>2

\* Filling with silence is this attempt's work, and begins its strings.
LEMMA FillsLeaves ==
  ASSUME PipeInv, course.at = "begin", NEW silent \in SUBSET AudioTracks, Fills(silent)
  PROVE  /\ course.try \in 1..5 /\ initOf' \in Served /\ recorded' \in Served
         /\ \A r \in silent : initOf'[r] = course.try
         /\ \A r \in Renditions : recorded'[r] \in {0, course.try}
         /\ manifest' \in {"none", "one"} /\ (manifest' # "none" => recorded' = ByNobody)
         /\ readiness' \in {"no", "ok", "failed"}
         /\ readiness' = "ok" => manifest' = "one"
<1> USE DEF PipeInv
<1>1. course.try \in 1..5
  <2>1. course.first \in {1, 3} /\ course.engine \in {"copy", "qsv", "software"}
          /\ course.try \in 0..5
    BY DEF PipeTypes, CourseTyped, Courses
  <2>2. \/ course.try \in {1, 2} \/ course.try \in course.first..(course.first + 2)
    BY DEF TriesInOrder
  <2> QED
    BY <2>1, <2>2
<1>2. initOf' = [r \in Renditions |-> IF r \in silent THEN course.try ELSE initOf[r]]
  BY DEF Fills
<1>3. initOf' \in Served /\ \A r \in silent : initOf'[r] = course.try
  BY <1>1, <1>2 DEF PipeTypes, ServedTyped, Served, Renditions
<1>4. CASE manifest # "none"
  BY <1>1, <1>3, <1>4 DEF Fills, PipeTypes, ServedTyped, StringsOfOne, MediaMatchesInit, ByNobody
<1>5. CASE manifest = "none"
  <2>1. Complete(StartsEmpty(silent))
    BY <1>5 DEF Fills
  <2>2. StartsEmpty(silent) \in Served
          /\ \A r \in Renditions : StartsEmpty(silent)[r] \in {0, course.try}
    BY <1>1 DEF StartsEmpty, Served
  <2> QED
    BY <1>1, <1>3, <1>5, <2>1, <2>2, CompleteLeaves DEF PipeTypes
<1> QED
  BY <1>4, <1>5

----------------------------------------------------------------------------
(* Every step keeps the invariant.                                             *)

\* What the run itself does (begin an attempt, hand over to another engine or
\* copy, try again, stop: pipeline.go's run and its attempts) keeps the
\* invariant: an attempt begins with nothing cut, stored or fed.
LEMMA CourseStepKeeps == PipeInv /\ CourseStep => PipeInv'
<1> SUFFICES ASSUME PipeInv, CourseStep PROVE PipeInv'
  OBVIOUS
<1> USE PipelineAssumption DEF PipeInv
<1> USE DEF attemptVars, servedVars, worldVars
<1>0. /\ course \in Courses /\ ServedTyped /\ WorldTyped /\ quickSync \in Detectors
      /\ deaths \in 0..MaxDeaths /\ ahead \in 0..MaxAhead /\ MaxAhead \in Nat /\ MaxDeaths \in Nat
      /\ upstream \in [open : BOOLEAN, halted : BOOLEAN]
      /\ encoder \in {"none", "running", "exited"}
  BY DEF PipeTypes, CourseTyped, AttemptTyped, WorldTyped
<1>00. ASSUME course.at # "attempt"
       PROVE  output = NoOutput /\ cutting = NothingCut /\ input = "none"
  BY <1>00 DEF NothingBetween
<1>1. CASE ProbeStops
  <2>1. Finish(course, "stopped") /\ course.at # "attempt"
    BY <1>1 DEF ProbeStops, Probing
  <2>2. WorldTyped'
    BY <1>0, <1>1 DEF ProbeStops, WorldTyped
  <2> QED
    BY <1>0, <1>00, <1>1, <2>1, <2>2, FinishLeaves, EndKeeps DEF ProbeStops
<1>2. CASE ProbeFindsEnd
  <2>1. course.at # "attempt" /\ course.at # "over"
    BY <1>2 DEF ProbeFindsEnd, Probing
  <2>2. CASE Finish(course, "stopped") /\ UNCHANGED ahead
    <3>1. WorldTyped'
      BY <1>0, <1>2, <2>2 DEF ProbeFindsEnd, WorldTyped
    <3> QED
      BY <1>0, <1>00, <1>2, <2>1, <2>2, <3>1, FinishLeaves, EndKeeps DEF ProbeFindsEnd
  <2>3. CASE ahead > 0 /\ NextGeneration(course, TRUE)
    <3>1. ahead' = ahead - 1
      BY <1>0, <2>3, NextGenerationLeaves
    <3>2. ahead' \in 0..MaxAhead
      BY <1>0, <2>3, <3>1
    <3>3. WorldTyped'
      BY <1>0, <1>2, <3>2 DEF ProbeFindsEnd, WorldTyped
    <3>4. deaths' < MaxDeaths
      BY <1>2, <2>1 DEF ProbeFindsEnd, BoundsHold
    <3> QED
      BY <1>0, <1>00, <1>2, <2>1, <2>3, <3>3, <3>4, NextGenerationLeaves, RenewalKeeps
         DEF ProbeFindsEnd
  <2>4. CASE ahead > 0 /\ ahead' = ahead - 1
               /\ UNCHANGED <<course, initOf, recorded, played, readiness>>
    <3>1. ahead' \in 0..MaxAhead
      BY <1>0, <2>4
    <3>2. PipeTypes'
      BY <1>0, <1>2, <2>4, <3>1
         DEF ProbeFindsEnd, PipeTypes, CourseTyped, AttemptTyped, ServedTyped, WorldTyped
    <3>3. TriesInOrder' /\ NothingBetween' /\ OwnMedia' /\ StringsOfOne' /\ MediaMatchesInit'
      BY <1>2, <2>1, <2>4
         DEF ProbeFindsEnd, TriesInOrder, NothingBetween, OwnMedia, StringsOfOne, MediaMatchesInit
    <3>4. BoundsHold'
      BY <1>00, <1>2, <2>1, <2>4 DEF ProbeFindsEnd, BoundsHold
    <3> QED
      BY <3>2, <3>3, <3>4
  <2> QED
    BY <1>2, <2>2, <2>3, <2>4 DEF ProbeFindsEnd
<1>3. CASE ProbeFails
  <2>1. course.at # "attempt" /\ \E err \in {"failed", "no video"} : Finish(course, err)
    BY <1>3 DEF ProbeFails
  <2>2. WorldTyped'
    BY <1>0, <1>3 DEF ProbeFails, WorldTyped
  <2>3. PICK err \in {"stopped", "failed", "no video"} : Finish(course, err)
    BY <2>1
  <2>4. /\ course' \in Courses /\ course'.at = "over" /\ UNCHANGED <<initOf, recorded, played>>
        /\ readiness' \in {readiness, "failed"}
    BY <1>0, <2>3, FinishLeaves
  <2> QED
    BY <1>0, <1>00, <1>3, <2>1, <2>2, <2>4, EndKeeps DEF ProbeFails
<1>4. CASE Decides
  <2>1. PICK engine \in {"copy", "qsv", "software"} :
          course' = [course EXCEPT !.at = "begin", !.try = 1, !.first = 1, !.engine = engine, !.decided = TRUE]
    BY <1>4 DEF Decides, EngineOf
  <2>2. course' \in Courses /\ course'.at = "begin" /\ course'.try = 1 /\ course'.first = 1
    <3>1. [course EXCEPT !.at = "begin", !.decided = TRUE] \in Courses
      BY <1>0 DEF Courses
    <3>2. \A d \in Courses, n \in 0..5 : [d EXCEPT !.try = n, !.first = 1, !.engine = engine] \in Courses
      BY DEF Courses
    <3>3. course' = [[course EXCEPT !.at = "begin", !.decided = TRUE]
                       EXCEPT !.try = 1, !.first = 1, !.engine = engine]
      BY <1>0, <2>1 DEF Courses
    <3>4. 1 \in 0..5
      OBVIOUS
    <3>5. course' \in Courses
      BY <3>1, <3>2, <3>3, <3>4
    <3>6. \A d \in Courses : \A e \in {"copy", "qsv", "software"} :
            LET c == [d EXCEPT !.at = "begin", !.try = 1, !.first = 1, !.engine = e, !.decided = TRUE]
            IN  c.at = "begin" /\ c.try = 1 /\ c.first = 1
      BY DEF Courses
    <3>7. course'.at = "begin" /\ course'.try = 1 /\ course'.first = 1
      BY <1>0, <2>1, <3>6 DEF PipeTypes, CourseTyped
    <3> QED
      BY <3>5, <3>7
  <2>3. TriesInOrder'
    BY <2>2 DEF TriesInOrder
  <2>4. quickSync' \in Detectors
    <3>1. quickSync' \in DetectorAnswers \/ quickSync' = quickSync
      BY <1>4 DEF Decides
    <3> QED
      BY <1>0, <3>1, DetectorAnswersTyped
  <2>5. WorldTyped'
    BY <1>0, <1>4, <2>4 DEF Decides, WorldTyped
  <2>6. /\ UNCHANGED <<attemptVars, servedVars, deaths, played>> /\ course.at = "probing"
    BY <1>4 DEF Decides
  <2>7. /\ played' = ByNobody /\ deaths' < MaxDeaths
        /\ output' = NoOutput /\ cutting' = NothingCut /\ input' = "none"
    BY <1>00, <2>6 DEF NothingBetween, BoundsHold
  <2>8. /\ manifest' \in {"none", "one"} /\ (readiness' = "ok" => manifest' = "one")
        /\ manifest' # "none" => recorded' = ByNobody
        /\ initOf' \in Served /\ recorded' \in Served /\ readiness' \in {"no", "ok", "failed"}
    BY <1>0, <2>6 DEF ServedTyped, StringsOfOne, MediaMatchesInit
  <2> QED
    BY <1>0, <2>2, <2>3, <2>5, <2>6, <2>7, <2>8, RetryKeeps
<1>5. CASE AttemptStarts
  <2>1. PICK silent \in SUBSET AudioTracks :
          /\ Fills(silent)
          /\ output' = [r \in Renditions |-> IF r \in silent THEN "silent" ELSE "open"]
    BY <1>5 DEF AttemptStarts
  <2>2. course.at = "begin" /\ course' = [course EXCEPT !.at = "attempt"]
        /\ encoder' = "running" /\ input' = "feeding" /\ cutting' = NothingCut
        /\ UNCHANGED <<deaths, worldVars, quickSync, played>>
    BY <1>5 DEF AttemptStarts
  <2>3. course' \in Courses /\ course'.at = "attempt" /\ course'.try = course.try
        /\ course'.first = course.first /\ course'.engine = course.engine
    BY <1>0, <2>2 DEF Courses
  <2>4. played = ByNobody
    BY <2>2 DEF NothingBetween
  <2>5. /\ course.try \in 1..5 /\ initOf' \in Served /\ recorded' \in Served
        /\ \A r \in silent : initOf'[r] = course.try
        /\ \A r \in Renditions : recorded'[r] \in {0, course.try}
        /\ manifest' \in {"none", "one"} /\ (manifest' # "none" => recorded' = ByNobody)
        /\ readiness' \in {"no", "ok", "failed"}
        /\ readiness' = "ok" => manifest' = "one"
    BY <2>1, <2>2, FillsLeaves
  <2>6. output' \in [Renditions -> {"off", "silent", "open", "stored", "media", "empty", "ended"}]
    BY <2>1
  <2>7. PipeTypes'
    BY <1>0, <2>2, <2>3, <2>4, <2>5, <2>6, EmptyTyped
       DEF PipeTypes, CourseTyped, AttemptTyped, ServedTyped, WorldTyped
  <2>8. TriesInOrder' /\ NothingBetween' /\ StringsOfOne' /\ BoundsHold'
    BY <2>2, <2>3, <2>5 DEF TriesInOrder, NothingBetween, StringsOfOne, BoundsHold
  <2>9. OwnMedia'
    <3>1. ASSUME NEW r \in Renditions
          PROVE  /\ output'[r] \in {"silent", "stored", "media", "ended"} => initOf'[r] = course.try
                 /\ recorded'[r] \in {0, course.try} /\ played'[r] = 0
      BY <2>1, <2>2, <2>4, <2>5 DEF ByNobody
    <3>2. ~cutting'.cut
      BY <2>2 DEF NothingCut
    <3> QED
      BY <2>3, <3>1, <3>2 DEF OwnMedia
  <2>10. MediaMatchesInit'
    BY <2>2, <2>4, <2>5 DEF MediaMatchesInit, ByNobody
  <2> QED
    BY <2>7, <2>8, <2>9, <2>10
<1>6. CASE AttemptCannotStart
  <2>1. course.at = "begin" /\ UNCHANGED <<attemptVars, deaths, worldVars>>
    BY <1>6 DEF AttemptCannotStart
  <2>2. CASE \E err \in {"stopped", "failed"} : Finish(course, err)
                                                  /\ UNCHANGED <<manifest, quickSync>>
    <3>1. PICK err \in {"stopped", "failed", "no video"} : Finish(course, err)
      BY <2>2
    <3>2. WorldTyped'
      BY <1>0, <2>1, <2>2 DEF WorldTyped
    <3>3. /\ course' \in Courses /\ course'.at = "over" /\ UNCHANGED <<initOf, recorded, played>>
          /\ readiness' \in {readiness, "failed"}
      BY <1>0, <3>1, FinishLeaves
    <3> QED
      BY <1>0, <1>00, <2>1, <2>2, <3>2, <3>3, EndKeeps
  <2>3. CASE TakesNext /\ UNCHANGED played /\ \E silent \in SUBSET AudioTracks : Fills(silent)
    <3>1. PICK next \in NextAttempts : course' = next[1] /\ quickSync' = next[2]
      BY <2>3 DEF TakesNext
    <3>2. /\ course' \in Courses /\ course'.at = "begin" /\ quickSync' \in Detectors
          /\ \/ course'.engine = "copy" /\ course'.first = 1 /\ course'.try \in {1, 2}
             \/ course'.engine # "copy" /\ course'.try \in course'.first..(course'.first + 2)
      BY <2>1, <3>1, NextIsInOrder
    <3>3. TriesInOrder'
      BY <3>2 DEF TriesInOrder
    <3>4. WorldTyped'
      BY <1>0, <2>1, <3>2 DEF WorldTyped
    <3>5. PICK silent \in SUBSET AudioTracks : Fills(silent)
      BY <2>3
    <3>6. /\ initOf' \in Served /\ recorded' \in Served
          /\ manifest' \in {"none", "one"} /\ (manifest' # "none" => recorded' = ByNobody)
          /\ readiness' \in {"no", "ok", "failed"} /\ (readiness' = "ok" => manifest' = "one")
      BY <2>1, <3>5, FillsLeaves
    <3>7. /\ played' = ByNobody /\ deaths' < MaxDeaths
          /\ output' = NoOutput /\ cutting' = NothingCut /\ input' = "none"
      BY <1>00, <2>1, <2>3 DEF NothingBetween, BoundsHold
    <3> QED
      BY <1>0, <2>1, <3>2, <3>3, <3>4, <3>6, <3>7, RetryKeeps
  <2> QED
    BY <1>6, <2>2, <2>3 DEF AttemptCannotStart, GivesUp
<1>7. CASE AttemptEnds
  <2>1. /\ course.at = "attempt" /\ input # "feeding" /\ UNCHANGED upstream
        /\ encoder' = "none" /\ input' = "none" /\ output' = NoOutput /\ cutting' = NothingCut
    BY <1>7 DEF AttemptEnds, During, Joined
  <2>2. CASE /\ \E err \in {"stopped", "failed"} : Finish(course, err)
             /\ UNCHANGED <<manifest, deaths, ahead, quickSync>>
    <3>1. PICK err \in {"stopped", "failed", "no video"} : Finish(course, err)
      BY <2>2
    <3>2. WorldTyped'
      BY <1>0, <2>1, <2>2 DEF WorldTyped
    <3>3. /\ course' \in Courses /\ course'.at = "over" /\ UNCHANGED <<initOf, recorded, played>>
          /\ readiness' \in {readiness, "failed"}
      BY <1>0, <3>1, FinishLeaves
    <3> QED
      BY <2>1, <2>2, <3>2, <3>3, EndKeeps
  <2>3. CASE /\ \E c \in {course, [course EXCEPT !.forced = TRUE]} : Dies(c)
             /\ UNCHANGED <<manifest, quickSync>>
    <3>1. PICK c \in Courses : Dies(c)
      BY <1>0, <2>3 DEF Courses
    <3>2. deaths < MaxDeaths
      BY <2>1 DEF BoundsHold
    <3>3. CASE Finish(c, "failed") /\ deaths' = deaths + 1 /\ UNCHANGED ahead
      <4>1. deaths' \in 0..MaxDeaths
        BY <1>0, <3>2, <3>3
      <4>2. WorldTyped'
        BY <1>0, <2>1, <2>3, <3>3, <4>1 DEF WorldTyped
      <4> QED
        BY <1>0, <2>1, <2>3, <3>3, <4>2, FinishLeaves, EndKeeps
    <3>4. CASE NextGeneration(c, FALSE) /\ deaths' = deaths + 1 /\ deaths + 1 < MaxDeaths
      <4>1. deaths' \in 0..MaxDeaths /\ deaths' < MaxDeaths
        BY <1>0, <3>2, <3>4
      <4>2. ahead' = 0
        BY <3>1, <3>4, NextGenerationLeaves
      <4>4. ahead' \in 0..MaxAhead
        BY <1>0, <4>2
      <4>3. WorldTyped'
        BY <1>0, <2>1, <2>3, <4>1, <4>4 DEF WorldTyped
      <4> QED
        BY <2>1, <2>3, <3>4, <4>1, <4>3, NextGenerationLeaves, RenewalKeeps
    <3>5. ~(deaths + 1 >= MaxDeaths) => deaths + 1 < MaxDeaths
      BY <1>0
    <3> QED
      BY <3>1, <3>3, <3>4, <3>5 DEF Dies
  <2>4. CASE /\ input = "boundary" /\ NextGeneration(course, TRUE)
             /\ UNCHANGED <<manifest, deaths, quickSync>>
    <3>1. ahead > 0 /\ deaths < MaxDeaths
      BY <2>1, <2>4 DEF BoundsHold
    <3>2. ahead' = ahead - 1
      BY <1>0, <2>4, NextGenerationLeaves
    <3>3. ahead' \in 0..MaxAhead
      BY <1>0, <3>1, <3>2
    <3>4. WorldTyped'
      BY <1>0, <2>1, <2>4, <3>3 DEF WorldTyped
    <3>5. deaths' < MaxDeaths
      BY <2>4, <3>1
    <3> QED
      BY <1>0, <2>1, <2>4, <3>4, <3>5, NextGenerationLeaves, RenewalKeeps
  <2>5. CASE /\ ~cutting.published /\ TakesNext /\ UNCHANGED <<servedVars, played>>
             /\ UNCHANGED <<deaths, ahead>>
    <3>1. PICK next \in NextAttempts : course' = next[1] /\ quickSync' = next[2]
      BY <2>5 DEF TakesNext
    <3>2. /\ course' \in Courses /\ course'.at = "begin" /\ quickSync' \in Detectors
          /\ \/ course'.engine = "copy" /\ course'.first = 1 /\ course'.try \in {1, 2}
             \/ course'.engine # "copy" /\ course'.try \in course'.first..(course'.first + 2)
      BY <2>1, <3>1, NextIsInOrder
    <3>3. TriesInOrder'
      BY <3>2 DEF TriesInOrder
    <3>4. WorldTyped'
      BY <1>0, <2>1, <2>5, <3>2 DEF WorldTyped
    <3>5. played' = ByNobody
      <4>1. \A r \in Renditions : played[r] = 0
        BY <2>1, <2>5 DEF OwnMedia
      <4> QED
        BY <1>0, <2>5, <4>1 DEF ServedTyped, Served, ByNobody
    <3>6. /\ manifest' \in {"none", "one"} /\ (readiness' = "ok" => manifest' = "one")
          /\ manifest' # "none" => recorded' = ByNobody
          /\ initOf' \in Served /\ recorded' \in Served /\ readiness' \in {"no", "ok", "failed"}
      BY <1>0, <2>5 DEF ServedTyped, StringsOfOne, MediaMatchesInit
    <3>7. deaths' < MaxDeaths
      BY <2>1, <2>5 DEF BoundsHold
    <3> QED
      BY <2>1, <3>2, <3>3, <3>4, <3>5, <3>6, <3>7, RetryKeeps
  <2> QED
    BY <1>7, <2>2, <2>3, <2>4, <2>5 DEF AttemptEnds, GivesUp
<1>8. CASE RecheckEnds
  <2>1. quickSync' \in Detectors
    BY <1>0, <1>8 DEF RecheckEnds, Detectors
  <2>2. PipeTypes'
    BY <1>0, <1>8, <2>1 DEF RecheckEnds, PipeTypes, CourseTyped, AttemptTyped, ServedTyped,
       WorldTyped
  <2>3. TriesInOrder' /\ NothingBetween' /\ OwnMedia' /\ StringsOfOne' /\ BoundsHold'
          /\ MediaMatchesInit'
    BY <1>8 DEF RecheckEnds, TriesInOrder, NothingBetween, OwnMedia, StringsOfOne, BoundsHold,
       MediaMatchesInit
  <2> QED
    BY <2>2, <2>3
<1> QED
  BY <1>1, <1>2, <1>3, <1>4, <1>5, <1>6, <1>7, <1>8 DEF CourseStep

\* What an attempt's readers, cutter and feed do, and the encoder's exit, keep
\* the invariant: they only add to what the attempt under way has written.
LEMMA OutputStepKeeps == PipeInv /\ OutputStep => PipeInv'
<1> SUFFICES ASSUME PipeInv, OutputStep PROVE PipeInv'
  OBVIOUS
<1> USE DEF PipeInv, attemptVars, servedVars, worldVars
<1>0. /\ course \in Courses /\ AttemptTyped /\ ServedTyped /\ WorldTyped /\ quickSync \in Detectors
      /\ initOf \in Served /\ recorded \in Served /\ played \in Served /\ cutting \in Cuttings
      /\ output \in [Renditions -> {"off", "silent", "open", "stored", "media", "empty", "ended"}]
  BY DEF PipeTypes, CourseTyped, AttemptTyped, ServedTyped, WorldTyped
<1>1. course.at = "attempt" /\ course' = course /\ deaths' = deaths /\ worldVars' = worldVars
  BY DEF OutputStep, ReaderStores, ReaderRecords, ReaderEnds, CutsVideo, Publishes, FeedEnds,
         EncoderExits, During
<1>2. course.try \in 1..5
  <2>1. course.first \in {1, 3} /\ course.engine \in {"copy", "qsv", "software"}
          /\ course.try \in 0..5
    BY <1>0 DEF Courses
  <2>2. \/ course.try \in {1, 2} \/ course.try \in course.first..(course.first + 2)
    BY <1>1 DEF TriesInOrder
  <2> QED
    BY <2>1, <2>2
<1>3. TriesInOrder' /\ NothingBetween'
  BY <1>1 DEF TriesInOrder, NothingBetween
<1>4. ASSUME NEW r \in Renditions, ReaderStores(r) PROVE PipeInv'
  <2>1. initOf' = [initOf EXCEPT ![r] = course.try] /\ output' = [output EXCEPT ![r] = "stored"]
        /\ output[r] = "open"
    BY <1>4 DEF ReaderStores, StoresInit, Moves
  <2>2. initOf' \in Served
        /\ output' \in [Renditions -> {"off", "silent", "open", "stored", "media", "empty", "ended"}]
    BY <1>0, <1>2, <2>1 DEF Served
  <2>3. PipeTypes'
    BY <1>0, <1>4, <2>2
       DEF ReaderStores, PipeTypes, CourseTyped, AttemptTyped, ServedTyped, WorldTyped
  <2>4. OwnMedia' /\ MediaMatchesInit'
    <3>1. ASSUME NEW q \in Renditions
          PROVE  /\ output'[q] \in {"silent", "stored", "media", "ended"} => initOf'[q] = course.try
                 /\ recorded'[q] \in {0, course.try}
                 /\ played'[q] # 0 => /\ played'[q] = course.try /\ cutting'.published
                                      /\ output'[q] \in {"silent", "media", "ended"}
      BY <1>0, <1>1, <1>4, <2>1 DEF ReaderStores, OwnMedia, Served
    <3>2. cutting'.cut => output'["video"] \in {"media", "ended"}
      BY <1>0, <1>1, <1>4, <2>1 DEF ReaderStores, OwnMedia
    <3>3. OwnMedia'
      BY <1>1, <3>1, <3>2 DEF OwnMedia
    <3> QED
      BY <1>4, <3>1, <3>3 DEF ReaderStores, MediaMatchesInit
  <2>5. StringsOfOne' /\ BoundsHold'
    BY <1>1, <1>4 DEF ReaderStores, StringsOfOne, BoundsHold
  <2> QED
    BY <1>3, <2>3, <2>4, <2>5
<1>5. ASSUME NEW r \in Renditions, ReaderRecords(r) PROVE PipeInv'
  <2>1. output' = [output EXCEPT ![r] = "media"] /\ output[r] = "stored"
    BY <1>5 DEF ReaderRecords, Moves
  <2>2. output' \in [Renditions -> {"off", "silent", "open", "stored", "media", "empty", "ended"}]
    BY <1>0, <2>1
  <2>3. /\ recorded' \in Served /\ \A q \in Renditions : recorded'[q] \in {0, course.try}
        /\ manifest' \in {"none", "one"} /\ readiness' \in {"no", "ok", "failed"}
        /\ readiness' = "ok" => manifest' = "one"
        /\ manifest' # "none" => recorded' = ByNobody
    <3>1. \A q \in Renditions : recorded[q] \in {0, course.try}
      BY <1>1 DEF OwnMedia
    <3>2. CASE manifest # "none"
      BY <1>0, <1>5, <3>1, <3>2
         DEF ReaderRecords, Records, ServedTyped, StringsOfOne, MediaMatchesInit
    <3>3. CASE manifest = "none"
      <4> DEFINE now == [recorded EXCEPT ![r] = course.try]
      <4>1. now \in Served /\ \A q \in Renditions : now[q] \in {0, course.try}
        BY <1>0, <1>2, <3>1 DEF Served
      <4>2. Complete(now)
        BY <1>5, <3>3 DEF ReaderRecords, Records
      <4> HIDE DEF now
      <4> QED
        BY <1>0, <1>2, <3>3, <4>1, <4>2, CompleteLeaves
    <3> QED
      BY <3>2, <3>3
  <2>4. PipeTypes'
    BY <1>0, <1>5, <2>2, <2>3
       DEF ReaderRecords, PipeTypes, CourseTyped, AttemptTyped, ServedTyped, WorldTyped
  <2>5. OwnMedia' /\ MediaMatchesInit'
    <3>1. ASSUME NEW q \in Renditions
          PROVE  /\ output'[q] \in {"silent", "stored", "media", "ended"} => initOf'[q] = course.try
                 /\ recorded'[q] \in {0, course.try}
                 /\ played'[q] # 0 => /\ played'[q] = course.try /\ cutting'.published
                                      /\ output'[q] \in {"silent", "media", "ended"}
      <4>1. initOf' = initOf /\ played' = played /\ cutting' = cutting
        BY <1>5 DEF ReaderRecords
      <4>2. output'[q] = IF q = r THEN "media" ELSE output[q]
        BY <1>0, <2>1
      <4> QED
        BY <1>1, <2>1, <2>3, <4>1, <4>2 DEF OwnMedia
    <3>2. cutting'.cut => output'["video"] \in {"media", "ended"}
      BY <1>0, <1>1, <1>5, <2>1 DEF ReaderRecords, OwnMedia
    <3>3. OwnMedia'
      BY <1>1, <3>1, <3>2 DEF OwnMedia
    <3> QED
      BY <1>5, <2>3, <3>3 DEF ReaderRecords, MediaMatchesInit
  <2>6. StringsOfOne' /\ BoundsHold'
    BY <1>1, <1>5, <2>3 DEF ReaderRecords, StringsOfOne, BoundsHold
  <2> QED
    BY <1>3, <2>4, <2>5, <2>6
<1>6. ASSUME NEW r \in Renditions, ReaderEnds(r) PROVE PipeInv'
  <2>1. output' = [output EXCEPT ![r] = IF output[r] = "open" THEN "empty" ELSE "ended"]
        /\ output[r] \in {"open", "media"}
    BY <1>6 DEF ReaderEnds, Moves
  <2>2. output' \in [Renditions -> {"off", "silent", "open", "stored", "media", "empty", "ended"}]
    BY <1>0, <2>1
  <2>3. encoder' \in {"none", "running", "exited"}
    BY <1>0, <1>6 DEF ReaderEnds, AttemptTyped
  <2>4. PipeTypes'
    BY <1>0, <1>6, <2>2, <2>3
       DEF ReaderEnds, PipeTypes, CourseTyped, AttemptTyped, ServedTyped, WorldTyped
  <2>5. OwnMedia' /\ MediaMatchesInit'
    <3>0. initOf' = initOf /\ played' = played /\ cutting' = cutting /\ recorded' = recorded
      BY <1>6 DEF ReaderEnds
    <3>1. ASSUME NEW q \in Renditions
          PROVE  /\ output'[q] \in {"silent", "stored", "media", "ended"} => initOf'[q] = course.try
                 /\ recorded'[q] \in {0, course.try}
                 /\ played'[q] # 0 => /\ played'[q] = course.try /\ cutting'.published
                                      /\ output'[q] \in {"silent", "media", "ended"}
      <4>1. output'[q] = IF q = r THEN (IF output[r] = "open" THEN "empty" ELSE "ended") ELSE output[q]
        BY <1>0, <2>1
      <4> QED
        BY <1>1, <2>1, <3>0, <4>1 DEF OwnMedia
    <3>2. cutting'.cut => output'["video"] \in {"media", "ended"}
      BY <1>0, <1>1, <3>0, <2>1 DEF OwnMedia
    <3>3. OwnMedia'
      BY <1>1, <3>1, <3>2 DEF OwnMedia
    <3> QED
      BY <1>6, <3>0, <3>3 DEF ReaderEnds, MediaMatchesInit
  <2>6. StringsOfOne' /\ BoundsHold'
    BY <1>1, <1>6 DEF ReaderEnds, StringsOfOne, BoundsHold
  <2> QED
    BY <1>3, <2>4, <2>5, <2>6
<1>7. CASE CutsVideo
  <2>1. /\ output["video"] = "media" /\ cutting' \in Cuttings
             /\ encoder' \in {"none", "running", "exited"}
        /\ cutting'.published = cutting.published
        /\ UNCHANGED <<input, output, servedVars, quickSync, played>>
    BY <1>0, <1>7 DEF CutsVideo, Cuttings, AttemptTyped
  <2>2. PipeTypes'
    BY <1>0, <1>1, <2>1 DEF PipeTypes, CourseTyped, AttemptTyped, ServedTyped, WorldTyped
  <2>3. OwnMedia'
    BY <1>1, <2>1 DEF OwnMedia
  <2>4. StringsOfOne' /\ BoundsHold' /\ MediaMatchesInit'
    BY <1>1, <2>1 DEF StringsOfOne, BoundsHold, MediaMatchesInit
  <2> QED
    BY <1>3, <2>2, <2>3, <2>4
<1>8. CASE Publishes
  <2>1. UNCHANGED <<encoder, input, output, servedVars>> /\ cutting.cut
    BY <1>8 DEF Publishes
  <2>2. output["video"] \in {"media", "ended"}
    BY <1>1, <2>1 DEF OwnMedia
  <2>3. PICK with \in SUBSET {a \in AudioTracks : output[a] \in {"media", "ended"}} :
          \/ /\ cutting' = [cutting EXCEPT !.cut = FALSE] /\ UNCHANGED <<played, quickSync>>
          \/ /\ cutting' = [cutting EXCEPT !.cut = FALSE, !.published = TRUE]
             /\ played' = [r \in Renditions |->
                  IF r \in with \cup {"video"} \cup {a \in AudioTracks : output[a] = "silent"}
                  THEN course.try ELSE played[r]]
             /\ quickSync' = [quickSync EXCEPT !.recheck = @ \/
                   (~cutting.published /\ course.try = course.first + 2)]
    BY <1>8 DEF Publishes
  <2>4. ASSUME NEW q \in Renditions, played'[q] # played[q]
        PROVE  /\ played'[q] = course.try /\ cutting'.published
               /\ output[q] \in {"silent", "media", "ended"}
    <3>1. /\ cutting' = [cutting EXCEPT !.cut = FALSE, !.published = TRUE]
          /\ played' = [r \in Renditions |->
               IF r \in with \cup {"video"} \cup {a \in AudioTracks : output[a] = "silent"}
               THEN course.try ELSE played[r]]
      BY <2>3, <2>4
    <3>2. q \in with \cup {"video"} \cup {a \in AudioTracks : output[a] = "silent"}
      BY <2>4, <3>1
    <3>3. output[q] \in {"silent", "media", "ended"}
      BY <2>2, <3>2
    <3>4. cutting'.published
      BY <1>0, <3>1 DEF Cuttings
    <3> QED
      BY <3>1, <3>2, <3>3, <3>4
  <2>5. /\ cutting' \in Cuttings /\ ~cutting'.cut /\ (cutting.published => cutting'.published)
    BY <1>0, <2>3 DEF Cuttings
  <2>6. quickSync' \in Detectors
    BY <1>0, <2>3 DEF Detectors, Cuttings
  <2>7. played' \in Served
    BY <1>0, <1>2, <2>3 DEF Served
  <2>8. PipeTypes'
    BY <1>0, <1>1, <2>1, <2>5, <2>6, <2>7
       DEF PipeTypes, CourseTyped, AttemptTyped, ServedTyped, WorldTyped
  <2>9. OwnMedia' /\ MediaMatchesInit'
    <3>1. ASSUME NEW q \in Renditions
          PROVE  /\ output'[q] \in {"silent", "stored", "media", "ended"} => initOf'[q] = course.try
                 /\ recorded'[q] \in {0, course.try}
                 /\ played'[q] # 0 => /\ played'[q] = course.try /\ cutting'.published
                                      /\ output'[q] \in {"silent", "media", "ended"}
      <4>1. CASE played'[q] # played[q]
        BY <1>1, <2>1, <2>4, <4>1 DEF OwnMedia
      <4>2. CASE played'[q] = played[q]
        BY <1>1, <2>1, <2>5, <4>2 DEF OwnMedia
      <4> QED
        BY <4>1, <4>2
    <3>2. OwnMedia'
      BY <1>1, <2>5, <3>1 DEF OwnMedia
    <3>3. \A q \in Renditions : played'[q] # 0 => initOf'[q] = played'[q]
      BY <3>1
    <3>4. readiness' = readiness /\ manifest' = manifest
      BY <2>1
    <3>5. MediaMatchesInit'
      BY <3>3, <3>4 DEF MediaMatchesInit
    <3> QED
      BY <3>2, <3>5
  <2>10. StringsOfOne' /\ BoundsHold'
    BY <1>1, <2>1 DEF StringsOfOne, BoundsHold
  <2> QED
    BY <1>3, <2>8, <2>9, <2>10
<1>9. CASE FeedEnds
  <2>1. UNCHANGED <<encoder, output, cutting, servedVars, quickSync, played>>
    BY <1>9 DEF FeedEnds
  <2>2. input' \in {"none", "feeding", "boundary", "closed", "failed"}
          /\ (input' = "boundary" => ahead > 0)
    BY <1>9 DEF FeedEnds
  <2>3. PipeTypes'
    BY <1>0, <1>1, <2>1, <2>2 DEF PipeTypes, CourseTyped, AttemptTyped, ServedTyped, WorldTyped
  <2>4. OwnMedia' /\ StringsOfOne' /\ BoundsHold' /\ MediaMatchesInit'
    BY <1>1, <2>1, <2>2 DEF OwnMedia, StringsOfOne, BoundsHold, MediaMatchesInit
  <2> QED
    BY <1>3, <2>3, <2>4
<1>10. CASE EncoderExits
  <2>1. encoder' = "exited" /\ UNCHANGED <<input, output, cutting, servedVars, quickSync, played>>
    BY <1>10 DEF EncoderExits
  <2>2. PipeTypes'
    BY <1>0, <1>1, <2>1 DEF PipeTypes, CourseTyped, AttemptTyped, ServedTyped, WorldTyped
  <2>3. OwnMedia' /\ StringsOfOne' /\ BoundsHold' /\ MediaMatchesInit'
    BY <1>1, <2>1 DEF OwnMedia, StringsOfOne, BoundsHold, MediaMatchesInit
  <2> QED
    BY <1>3, <2>2, <2>3
<1> QED
  BY <1>4, <1>5, <1>6, <1>7, <1>8, <1>9, <1>10 DEF OutputStep

\* What happens outside the pipeline (the ring's boundaries, its close, a death
\* leaving the window) keeps the invariant: it writes nothing an attempt wrote.
LEMMA WorldStepKeeps == PipeInv /\ (ChannelStep \/ DeathLapses \/ UNCHANGED pipelineVars)
  => PipeInv'
<1> SUFFICES ASSUME PipeInv, ChannelStep \/ DeathLapses \/ UNCHANGED pipelineVars PROVE PipeInv'
  OBVIOUS
<1> USE PipelineAssumption DEF PipeInv, attemptVars, servedVars, worldVars
<1>1. UNCHANGED <<course, attemptVars, servedVars, quickSync, played>>
  BY DEF ChannelStep, DeathLapses, pipelineVars
<1>2. WorldTyped' /\ BoundsHold'
  <2>1. /\ deaths \in 0..MaxDeaths /\ ahead \in 0..MaxAhead /\ MaxAhead \in Nat /\ MaxDeaths \in Nat
        /\ upstream \in [open : BOOLEAN, halted : BOOLEAN]
    BY DEF PipeTypes, WorldTyped
  <2>2. deaths' \in 0..MaxDeaths /\ (deaths' = deaths \/ deaths' = deaths - 1)
    BY <2>1 DEF ChannelStep, DeathLapses, pipelineVars
  <2>3. ahead' \in 0..MaxAhead /\ (ahead' = ahead \/ ahead' = ahead + 1)
    BY <2>1 DEF ChannelStep, DeathLapses, pipelineVars
  <2>4. upstream' \in [open : BOOLEAN, halted : BOOLEAN]
    BY <2>1 DEF ChannelStep, DeathLapses, pipelineVars
  <2>5. WorldTyped'
    BY <1>1, <2>2, <2>3, <2>4 DEF PipeTypes, WorldTyped
  <2>6. BoundsHold'
    BY <1>1, <2>1, <2>2, <2>3 DEF BoundsHold
  <2> QED
    BY <2>5, <2>6
<1>3. PipeTypes'
  BY <1>1, <1>2 DEF PipeTypes, CourseTyped, AttemptTyped, ServedTyped
<1>4. TriesInOrder' /\ NothingBetween' /\ OwnMedia' /\ StringsOfOne' /\ MediaMatchesInit'
  BY <1>1 DEF TriesInOrder, NothingBetween, OwnMedia, StringsOfOne, MediaMatchesInit
<1> QED
  BY <1>2, <1>3, <1>4

\* Every step of the pipeline and of its surroundings keeps the invariant.
LEMMA StepPipeInv == PipeInv /\ [PipelineNext]_pipelineVars => PipeInv'
BY CourseStepKeeps, OutputStepKeeps, WorldStepKeeps DEF PipelineNext

\* A pipeline starts, before its first attempt, with the invariant.
LEMMA InitPipeInv == PipelineInit => PipeInv
<1> SUFFICES ASSUME PipelineInit PROVE PipeInv
  OBVIOUS
<1> USE PipelineAssumption DEF PipelineInit
<1>1. CourseTyped
  <2>1. 0 \in 0..5
    OBVIOUS
  <2> QED
    BY <2>1 DEF CourseTyped, Courses
<1>2. AttemptTyped /\ ServedTyped
  BY EmptyTyped DEF AttemptTyped, ServedTyped
<1>3. WorldTyped /\ BoundsHold
  BY DEF WorldTyped, BoundsHold, Detectors
<1>4. TriesInOrder /\ NothingBetween /\ OwnMedia /\ StringsOfOne /\ MediaMatchesInit
  BY DEF TriesInOrder, NothingBetween, OwnMedia, StringsOfOne, MediaMatchesInit, ByNobody
<1> QED
  BY <1>1, <1>2, <1>3, <1>4 DEF PipeInv, PipeTypes

\* The invariant holds of every state of every run of the pipeline.
LEMMA PipeInvHolds == PipelineSpec => []PipeInv
BY InitPipeInv, StepPipeInv, PTL DEF PipelineSpec

----------------------------------------------------------------------------
(* What the runs check.                                                        *)

\* The pipeline's variables are of their types, in every state: an attempt's
\* number never leaves 1..5, whatever engines and copies are tried, and a feed
\* never passes a boundary that is not in the ring.
THEOREM PipelineTypes == PipelineSpec => []PipelineTypeOK
<1>1. PipeInv => PipelineTypeOK
  <2> SUFFICES ASSUME PipeInv PROVE PipelineTypeOK
    OBVIOUS
  <2> USE DEF PipeInv, PipeTypes
  <2>1. /\ course.at \in {"probing", "drained", "begin", "attempt", "over"}
             /\ course.later \in BOOLEAN
        /\ course.try \in 0..5 /\ course.engine \in {"copy", "qsv", "software"}
        /\ course.err \in {"none", "stopped", "failed", "no video"}
    BY DEF CourseTyped, Courses
  <2> QED
    BY <2>1 DEF PipelineTypeOK, AttemptTyped, ServedTyped, WorldTyped, Served
<1> QED
  BY <1>1, PipeInvHolds, PTL

\* Published media has beside it the init segment of the attempt that encoded
\* it, and the multivariant's strings are of one attempt (pipeline.go), for any
\* audio renditions, in either mode.
THEOREM PublishedMediaPlays == PipelineSpec => []MediaMatchesInit
BY PipeInvHolds, PTL DEF PipeInv

----------------------------------------------------------------------------
(* The drain and the events, for every set of channels, depth of the queue,   *)
(* limit of a batch and number of attempts.  An event is raised once, so the   *)
(* history of what was raised gives each its place, and queue, post and table  *)
(* are in the order of those places.                                           *)

Batches == [events : Seq(Events), try : 0..MaxTries]
Lives   == {"idle", "starting", "published", "running", "closed", "announced", "done", "released"}

\* The types of the drain and the tunes, and those of the events.
TunesT ==
  /\ phase \in {"up", "grace", "stopping", "shutdown", "flushing", "exited"}
  /\ life \in [Channels -> Lives]
  /\ viewer \in [Channels -> {"none", "attached", "serving", "leaving", "gone"}]
  /\ inMap \subseteq Channels /\ ending \subseteq Channels
  /\ toStop \subseteq Channels /\ awaited \subseteq Channels
  /\ {closed, overrun, lost} \subseteq BOOLEAN

EventsT ==
  /\ queue \in Seq(Events) /\ Len(queue) <= QueueDepth
  /\ post \in Batches /\ Len(post.events) <= MaxBatch
  /\ IF post.try = 0 THEN post = Idle ELSE post.events # <<>>
  /\ orphans \subseteq Batches /\ IsFiniteSet(orphans)
  /\ \A o \in orphans : o.events # <<>> /\ o.try # 0
  /\ rows \in Seq(Events) /\ said \in Seq(Events)
  /\ misses \in 0..MaxMisses /\ crossed \in BOOLEAN

In(e, s) == \E i \in 1..Len(s) : s[i] = e

\* Every event is raised once, by the step that brings its channel to where it
\* is from then on.
SaidFits ==
  /\ \A i, j \in 1..Len(said) : said[i] = said[j] => i = j
  /\ \A c \in Channels :
       /\ In([type |-> "channel_start", of |-> c], said)
            => life[c] \notin {"idle", "starting", "published"}
       /\ In([type |-> "channel_stop", of |-> c], said)
            => life[c] \in {"announced", "done", "released"}
       /\ In([type |-> "client_connect", of |-> c], said)
            => viewer[c] \in {"serving", "leaving", "gone"}
       /\ In([type |-> "client_disconnect", of |-> c], said) => viewer[c] \in {"leaving", "gone"}
       /\ viewer[c] = "none" <=> life[c] \in {"idle", "starting", "published"}

\* The events of s have been raised, and are in that order.
Rising(s) ==
  /\ \A i \in 1..Len(s) : In(s[i], said)
  /\ \A i, j \in 1..Len(s) : i < j => Place(s[i]) < Place(s[j])
Below(s, t) == \A i \in 1..Len(s), j \in 1..Len(t) : Place(s[i]) < Place(t[j])

\* The queue follows what is being posted, and as long as no attempt has crossed
\* a later one, that follows what is on record.
OrderFits ==
  /\ Rising(queue) /\ Rising(post.events) /\ Below(post.events, queue)
  /\ \A o \in orphans : Rising(o.events)
  /\ \A i \in 1..Len(rows) : In(rows[i], said)
  /\ ~crossed => orphans = {} /\ Rising(rows) /\ Below(rows, post.events) /\ Below(rows, queue)

RowsOf(e)    == {i \in 1..Len(rows) : rows[i] = e}
OrphansOf(e) == {o \in orphans : In(e, o.events)}
Copies(e)    == Cardinality(RowsOf(e)) + Cardinality(OrphansOf(e))

\* Every attempt leaves one copy at most.
CopiesFit ==
  \A e \in Events :
    /\ Copies(e) <= MaxTries
    /\ In(e, post.events) => Copies(e) <= post.try - 1
    /\ In(e, queue) => Copies(e) = 0

\* A drain whose waits were not cut short has waited for what it names.
WaitsFit == ~overrun =>
  /\ phase = "exited" => queue = <<>> /\ post = Idle
  /\ closed => phase \in {"flushing", "exited"}
  /\ \A c \in Channels :
       /\ phase \in {"flushing", "exited"}
            => life[c] \in {"idle", "done", "released"} /\ viewer[c] \in {"none", "gone"}
       /\ viewer[c] = "gone" => life[c] \in {"done", "released"}

\* What a channel has come to has been said, and what has been said is on its
\* way, unless something was lost or cut short.
OnItsWay == \A i \in 1..Len(said) :
  In(said[i], rows) \/ In(said[i], post.events) \/ In(said[i], queue)
EndsFit == ~overrun /\ ~lost =>
  /\ OnItsWay
  /\ \A c \in Channels :
       /\ life[c] \in {"announced", "done", "released"}
            => In([type |-> "channel_stop", of |-> c], said)
       /\ viewer[c] \in {"leaving", "gone"} /\ In([type |-> "client_connect", of |-> c], said)
            => In([type |-> "client_disconnect", of |-> c], said)


Quiet == UNCHANGED <<queue, said, rows, post, orphans, misses, crossed>>
Emits(type, c) ==
  Emit(type, c) /\ c \in Channels /\ type \in EventTypes
    /\ UNCHANGED <<rows, post, orphans, misses, crossed>>

\* What an event adds to the queue.
LEMMA EmitAdds ==
  ASSUME EventsT, NEW type, NEW c, Emits(type, c)
  PROVE  \/ UNCHANGED <<queue, said>> /\ (~closed => lost') /\ (lost => lost')
         \/ LET e == [type |-> type, of |-> c]
            IN  /\ e \in Events /\ ~closed /\ lost' = lost
                /\ said' = Append(said, e) /\ queue' = Append(queue, e) /\ Len(queue) # QueueDepth
BY DEF Emits, Emit, Events

\* The events' types are kept by every step.
LEMMA EventsTyped ==
  ASSUME EventsT, EventStep \/ Quiet \/ \E type, c : Emits(type, c) PROVE EventsT'
<1>1. CASE Quiet
  BY <1>1 DEF EventsT, Quiet
<1>2. CASE \E type, c : Emits(type, c)
  <2>1. PICK type, c : Emits(type, c)
    BY <1>2
  <2>2. UNCHANGED <<rows, post, orphans, misses, crossed>>
    BY <2>1 DEF Emits
  <2>3. CASE UNCHANGED <<queue, said>>
    BY <2>2, <2>3 DEF EventsT
  <2>4. CASE \E e \in Events : said' = Append(said, e) /\ queue' = Append(queue, e)
                               /\ Len(queue) # QueueDepth
    <3>1. said' \in Seq(Events) /\ queue' \in Seq(Events) /\ Len(queue') = Len(queue) + 1
      BY <2>4 DEF EventsT
    <3>2. Len(queue') <= QueueDepth
      BY <2>4, <3>1, DrainAssumption DEF EventsT
    <3> QED
      BY <2>2, <3>1, <3>2 DEF EventsT
  <2> QED
    BY <2>1, <2>3, <2>4, EmitAdds
<1>3. CASE TakeBatch
  <2> DEFINE n == IF Len(queue) < MaxBatch THEN Len(queue) ELSE MaxBatch
             first == SubSeq(queue, 1, n)
             rest  == SubSeq(queue, n + 1, Len(queue))
  <2>1. /\ queue # <<>> /\ post' = [events |-> first, try |-> 1] /\ queue' = rest
        /\ UNCHANGED <<said, rows, orphans, misses, crossed>>
    BY <1>3 DEF TakeBatch, djangoVars
  <2>2. n \in Nat /\ 1 <= n /\ n <= Len(queue) /\ n <= MaxBatch /\ Len(queue) <= QueueDepth
        /\ Len(queue) \in Nat
    BY <2>1, DrainAssumption DEF EventsT
  <2> HIDE DEF n
  <2>3. /\ first \in Seq(Events) /\ Len(first) = n
        /\ rest \in Seq(Events) /\ Len(rest) = Len(queue) - n
    BY <2>2 DEF EventsT
  <2>4. Len(rest) <= QueueDepth /\ first # <<>>
    BY <2>2, <2>3, DrainAssumption
  <2> HIDE DEF first, rest
  <2>5. post' \in Batches /\ post'.events = first /\ post'.try = 1
    BY <2>1, <2>3, DrainAssumption DEF Batches
  <2> QED
    BY <2>1, <2>2, <2>3, <2>4, <2>5 DEF EventsT
<1>4. Idle \in Batches /\ Idle.try = 0 /\ Len(Idle.events) = 0
  BY DrainAssumption DEF Idle, Batches
<1>5. CASE Answered
  <2>1. /\ post' = Idle /\ rows' = rows \o post.events
        /\ UNCHANGED <<queue, said, orphans, misses, crossed>>
    BY <1>5 DEF Answered, Apply, queueVars
  <2>2. rows' \in Seq(Events)
    BY <2>1 DEF EventsT, Batches
  <2> QED
    BY <1>4, <2>1, <2>2, DrainAssumption DEF EventsT
<1>6. CASE Missed
  <2>1. /\ post # Idle /\ misses < MaxMisses /\ misses' = misses + 1
        /\ post' = IF post.try < MaxTries THEN [post EXCEPT !.try = @ + 1] ELSE Idle
        /\ \/ UNCHANGED <<orphans, crossed>>
           \/ orphans' = orphans \cup {post} /\ crossed' = TRUE
        /\ UNCHANGED <<queue, said, rows>>
    BY <1>6 DEF Missed
  <2>2. post.try # 0 /\ post.events # <<>>
    BY <2>1 DEF EventsT
  <2>3. /\ post' \in Batches /\ Len(post'.events) <= MaxBatch
        /\ IF post'.try = 0 THEN post' = Idle ELSE post'.events # <<>>
    <3>1. CASE post.try < MaxTries
      <4>1. /\ post.events \in Seq(Events) /\ post.try \in Nat /\ post.try + 1 \in 0..MaxTries
            /\ Len(post.events) <= MaxBatch
        BY <3>1, DrainAssumption DEF EventsT, Batches
      <4>2. post' = [events |-> post.events, try |-> post.try + 1]
        BY <2>1, <3>1 DEF EventsT, Batches
      <4> QED
        BY <2>2, <4>1, <4>2 DEF Batches
    <3>2. CASE ~(post.try < MaxTries)
      BY <1>4, <2>1, <3>2, DrainAssumption
    <3> QED
      BY <3>1, <3>2
  <2>4. orphans' \subseteq Batches /\ IsFiniteSet(orphans')
    BY <2>1, FS_AddElement DEF EventsT
  <2>5. \A o \in orphans' : o.events # <<>> /\ o.try # 0
    BY <2>1, <2>2 DEF EventsT
  <2>6. misses' \in 0..MaxMisses /\ crossed' \in BOOLEAN
    <3>1. misses \in Nat /\ MaxMisses \in Nat
      BY DrainAssumption DEF EventsT
    <3>2. misses' \in 0..MaxMisses
      BY <2>1, <3>1
    <3>3. crossed' = crossed \/ crossed' = TRUE
      BY <2>1
    <3>4. crossed' \in BOOLEAN
      BY <3>3 DEF EventsT
    <3> QED
      BY <3>2, <3>4
  <2> QED
    BY <2>1, <2>3, <2>4, <2>5, <2>6 DEF EventsT
<1>7. CASE BatchRefused
  <2>1. post' = Idle /\ misses' \in 0..MaxMisses
          /\ UNCHANGED <<queue, said, rows, orphans, crossed>>
    BY <1>7, DrainAssumption DEF BatchRefused, EventsT, djangoVars
  <2> QED
    BY <1>4, <2>1, DrainAssumption DEF EventsT
<1>8. CASE \E o \in orphans : AppliedLate(o)
  <2>1. PICK o \in orphans : /\ rows' = rows \o o.events /\ orphans' = orphans \ {o}
                             /\ UNCHANGED <<queue, said, post, misses, crossed>>
    BY <1>8 DEF AppliedLate, Apply, queueVars, postVars
  <2>2. rows' \in Seq(Events) /\ IsFiniteSet(orphans')
    BY <2>1, FS_RemoveElement DEF EventsT, Batches
  <2> QED
    BY <2>1, <2>2 DEF EventsT
<1> QED
  BY <1>1, <1>2, <1>3, <1>5, <1>6, <1>7, <1>8 DEF EventStep

\* Where an event is that has been raised once.
LEMMA PlaceOf ==
  ASSUME said \in Seq(Events), \A i, j \in 1..Len(said) : said[i] = said[j] => i = j,
         NEW i \in 1..Len(said)
  PROVE  Place(said[i]) = i
BY DEF Place

LEMMA PlaceKnown ==
  ASSUME said \in Seq(Events), NEW e, In(e, said)
  PROVE  Place(e) \in 1..Len(said) /\ said[Place(e)] = e
BY DEF Place, In

\* Another event leaves the others where they are.
LEMMA PlacesStay ==
  ASSUME EventsT, SaidFits, NEW e \in Events, ~In(e, said), said' = Append(said, e)
  PROVE  /\ \A x : In(x, said) => In(x, said') /\ Place(x)' = Place(x) /\ Place(x) <= Len(said)
         /\ In(e, said') /\ Place(e)' = Len(said) + 1
         /\ \A i, j \in 1..Len(said') : said'[i] = said'[j] => i = j
<1>1. /\ said' \in Seq(Events) /\ Len(said') = Len(said) + 1 /\ Len(said) \in Nat
      /\ \A i \in 1..Len(said) : said'[i] = said[i]
      /\ said'[Len(said) + 1] = e
  BY DEF EventsT
<1>2. \A i, j \in 1..Len(said') : said'[i] = said'[j] => i = j
  <2> SUFFICES ASSUME NEW i \in 1..Len(said'), NEW j \in 1..Len(said'), said'[i] = said'[j] PROVE i = j
    OBVIOUS
  <2>1. CASE i = Len(said) + 1 \/ j = Len(said) + 1
    BY <1>1, <2>1 DEF In
  <2>2. CASE i # Len(said) + 1 /\ j # Len(said) + 1
    BY <1>1, <2>2 DEF SaidFits
  <2> QED
    BY <2>1, <2>2
<1>3. In(e, said')
  BY <1>1 DEF In
<1>4. \A x, i : i \in 1..Len(said') /\ said'[i] = x
                  => (CHOOSE k \in 1..Len(said') : said'[k] = x) = i
  BY <1>2
<1>5. Place(e)' = Len(said) + 1
  BY <1>1, <1>4 DEF Place
<1>6. ASSUME NEW x, In(x, said) PROVE In(x, said') /\ Place(x)' = Place(x) /\ Place(x) <= Len(said)
  <2>1. Place(x) \in 1..Len(said) /\ said[Place(x)] = x
    BY <1>6, PlaceKnown DEF EventsT
  <2>2. Place(x) \in 1..Len(said') /\ said'[Place(x)] = x
    BY <1>1, <2>1
  <2>3. Place(x)' = Place(x)
    BY <1>4, <2>2 DEF Place
  <2> QED
    BY <2>1, <2>2, <2>3 DEF In
<1> QED
  BY <1>2, <1>3, <1>5, <1>6

\* Raising an event keeps the order of all others and puts it last.
LEMMA EmitKeepsOrder ==
  ASSUME EventsT, SaidFits, OrderFits, NEW e \in Events, ~In(e, said),
         said' = Append(said, e), queue' = Append(queue, e),
         UNCHANGED <<rows, post, orphans, misses, crossed>>
  PROVE  OrderFits'
<1>1. /\ \A x : In(x, said) => In(x, said') /\ Place(x)' = Place(x) /\ Place(x) <= Len(said)
      /\ In(e, said') /\ Place(e)' = Len(said) + 1
  BY PlacesStay
<1>2. \A x : In(x, said) => Place(x) \in Nat
  BY PlaceKnown DEF EventsT
<1>3. Len(said) \in Nat
  BY DEF EventsT
<1>4. \A s : Rising(s) => Rising(s)'
  BY <1>1 DEF Rising
<1>5. \A s, t : Rising(s) /\ Rising(t) /\ Below(s, t) => Below(s, t)'
  BY <1>1 DEF Rising, Below
<1>a. PICK q : q = queue'
  OBVIOUS
<1>6. /\ Len(queue) \in Nat /\ Len(q) = Len(queue) + 1 /\ q[Len(queue) + 1] = e
      /\ \A i \in 1..Len(queue) : q[i] = queue[i]
  BY <1>a DEF EventsT
<1>7. \A i \in 1..Len(q) : i = Len(queue) + 1 \/ i \in 1..Len(queue)
  BY <1>6
<1>8. Rising(q)'
  <2>1. \A i \in 1..Len(q) : In(q[i], said')
    BY <1>1, <1>6, <1>7 DEF OrderFits, Rising
  <2>2. ASSUME NEW i \in 1..Len(q), NEW j \in 1..Len(q), i < j
        PROVE  Place(q[i])' < Place(q[j])'
    <3>1. i \in 1..Len(queue) /\ In(queue[i], said) /\ q[i] = queue[i]
      BY <1>6, <1>7, <2>2 DEF OrderFits, Rising
    <3>2. CASE j = Len(queue) + 1
      <4>1. Place(q[i])' = Place(queue[i]) /\ Place(queue[i]) <= Len(said)
            /\ Place(queue[i]) \in Nat
        BY <1>1, <1>2, <3>1
      <4>2. Place(q[j])' = Len(said) + 1
        BY <1>1, <1>6, <3>2
      <4> QED
        BY <1>3, <4>1, <4>2
    <3>3. CASE j \in 1..Len(queue)
      BY <1>1, <1>6, <2>2, <3>1, <3>3 DEF OrderFits, Rising
    <3> QED
      BY <1>7, <3>2, <3>3
  <2> QED
    BY <2>1, <2>2 DEF Rising
<1>9. ASSUME NEW s, Rising(s), Below(s, queue) PROVE Below(s, q)'
  <2> SUFFICES ASSUME NEW i \in 1..Len(s), NEW j \in 1..Len(q)
               PROVE  Place(s[i])' < Place(q[j])'
    BY DEF Below
  <2>1. In(s[i], said) /\ Place(s[i])' = Place(s[i]) /\ Place(s[i]) <= Len(said)
        /\ Place(s[i]) \in Nat
    BY <1>1, <1>2, <1>9 DEF Rising
  <2>2. CASE j = Len(queue) + 1
    <3>1. Place(q[j])' = Len(said) + 1
      BY <1>1, <1>6, <2>2
    <3> QED
      BY <1>3, <2>1, <3>1
  <2>3. CASE j \in 1..Len(queue)
    BY <1>1, <1>6, <1>9, <2>1, <2>3 DEF OrderFits, Rising, Below
  <2> QED
    BY <1>7, <2>2, <2>3
<1>10. Rising(queue)'
  BY <1>a, <1>8 DEF Rising
<1>11. \A s : Rising(s) /\ Below(s, queue) => (\A i \in 1..Len(s), j \in 1..Len(queue') :
                                               Place(s[i])' < (Place(queue[j]))')
  BY <1>a, <1>9 DEF Below
<1> QED
  BY <1>1, <1>4, <1>5, <1>10, <1>11 DEF OrderFits, Below

\* Order without the history: what is said stays as it is.
LEMMA SamePlaces ==
  ASSUME UNCHANGED said
  PROVE  /\ \A x : Place(x)' = Place(x) /\ (In(x, said)' <=> In(x, said))
         /\ \A s : Rising(s)' <=> Rising(s)
         /\ \A s, t : Below(s, t)' <=> Below(s, t)
<1>1. \A x : Place(x)' = Place(x) /\ (In(x, said)' <=> In(x, said))
  BY DEF Place, In
<1> QED
  BY <1>1 DEF Rising, Below

\* Of a sequence that is cut, the first part lies below the second.
LEMMA CutRises ==
  ASSUME NEW s \in Seq(Events), NEW n \in 0..Len(s), Rising(s)
  PROVE  LET first == SubSeq(s, 1, n)
             rest  == SubSeq(s, n + 1, Len(s))
         IN  /\ Rising(first) /\ Rising(rest) /\ Below(first, rest)
             /\ \A t : Below(t, s) => Below(t, first) /\ Below(t, rest)
             /\ \A x : In(x, first) \/ In(x, rest) <=> In(x, s)
<1> DEFINE first == SubSeq(s, 1, n)
           rest  == SubSeq(s, n + 1, Len(s))
<1>1. /\ Len(s) \in Nat /\ n \in Nat /\ n <= Len(s)
      /\ Len(first) = n /\ \A i \in 1..n : first[i] = s[i]
      /\ Len(rest) = Len(s) - n /\ \A i \in 1..(Len(s) - n) : rest[i] = s[n + i]
  OBVIOUS
<1> HIDE DEF first, rest
<1>2. \A i \in 1..Len(rest) : n + i \in 1..Len(s) /\ rest[i] = s[n + i]
  BY <1>1
<1>3. \A i \in 1..Len(first) : i \in 1..Len(s) /\ first[i] = s[i]
  BY <1>1
<1>4. Rising(first)
  BY <1>3 DEF Rising
<1>5. Rising(rest)
  <2>1. \A i, j \in 1..Len(rest) : i < j => n + i < n + j
    BY <1>1
  <2> QED
    BY <1>2, <2>1 DEF Rising
<1>6. Below(first, rest)
  <2>1. \A i \in 1..Len(first), j \in 1..Len(rest) : i < n + j
    BY <1>1
  <2> QED
    BY <1>2, <1>3, <2>1 DEF Rising, Below
<1>7. \A t : Below(t, s) => Below(t, first) /\ Below(t, rest)
  BY <1>2, <1>3 DEF Below
<1>8. ASSUME NEW x PROVE In(x, first) \/ In(x, rest) <=> In(x, s)
  <2>1. ASSUME NEW i \in 1..Len(s), s[i] = x PROVE In(x, first) \/ In(x, rest)
    <3>1. CASE i <= n
      BY <1>1, <2>1, <3>1 DEF In
    <3>2. CASE i > n
      <4>1. i - n \in 1..Len(rest) /\ rest[i - n] = x
        BY <1>1, <2>1, <3>2
      <4> QED
        BY <4>1 DEF In
    <3> QED
      BY <1>1, <3>1, <3>2
  <2> QED
    BY <1>2, <1>3, <2>1 DEF In
<1> QED
  BY <1>4, <1>5, <1>6, <1>7, <1>8 DEF first, rest

\* What follows is put behind.
LEMMA JoinRises ==
  ASSUME NEW s \in Seq(Events), NEW t \in Seq(Events), Rising(s), Rising(t), Below(s, t)
  PROVE  /\ Rising(s \o t)
         /\ \A u : Below(s, u) /\ Below(t, u) => Below(s \o t, u)
<1> DEFINE b == s \o t
<1>1. /\ Len(s) \in Nat /\ Len(t) \in Nat /\ Len(b) = Len(s) + Len(t)
      /\ \A i \in 1..Len(s) : b[i] = s[i]
      /\ \A i \in (Len(s) + 1)..Len(b) : b[i] = t[i - Len(s)]
  BY ConcatProperties
<1> HIDE DEF b
<1>2. \A i \in 1..Len(b) : \/ i \in 1..Len(s) /\ b[i] = s[i]
                           \/ i > Len(s) /\ i - Len(s) \in 1..Len(t) /\ b[i] = t[i - Len(s)]
  BY <1>1
<1>3. \A i \in 1..Len(b) : In(b[i], said)
  BY <1>2 DEF Rising
<1>4. ASSUME NEW i \in 1..Len(b), NEW j \in 1..Len(b), i < j PROVE Place(b[i]) < Place(b[j])
  <2>1. CASE j \in 1..Len(s)
    <3>1. i \in 1..Len(s) /\ b[i] = s[i] /\ b[j] = s[j]
      BY <1>1, <1>4, <2>1
    <3> QED
      BY <1>4, <2>1, <3>1 DEF Rising
  <2>2. CASE i \in 1..Len(s) /\ j > Len(s)
    BY <1>1, <1>2, <2>2 DEF Below
  <2>3. CASE i > Len(s)
    <3>1. i - Len(s) \in 1..Len(t) /\ j - Len(s) \in 1..Len(t) /\ i - Len(s) < j - Len(s)
          /\ b[i] = t[i - Len(s)] /\ b[j] = t[j - Len(s)]
      BY <1>1, <1>4, <2>3
    <3> QED
      BY <3>1 DEF Rising
  <2> QED
    BY <1>1, <2>1, <2>2, <2>3
<1>5. \A u : Below(s, u) /\ Below(t, u) => Below(b, u)
  BY <1>2 DEF Below
<1> QED
  BY <1>3, <1>4, <1>5 DEF b, Rising

\* Every step keeps the order.
LEMMA OrderKept ==
  ASSUME EventsT, SaidFits, OrderFits,
         EventStep \/ Quiet \/ \E type, c : Emits(type, c) /\ ~In([type |-> type, of |-> c], said)
  PROVE  OrderFits'
<1> USE DEF OrderFits
<1>1. CASE Quiet
  BY <1>1, SamePlaces DEF Quiet
<1>2. CASE \E type, c : Emits(type, c) /\ ~In([type |-> type, of |-> c], said)
  <2>1. PICK type, c : Emits(type, c) /\ ~In([type |-> type, of |-> c], said)
    BY <1>2
  <2>2. UNCHANGED <<rows, post, orphans, misses, crossed>>
    BY <2>1 DEF Emits
  <2>3. CASE UNCHANGED <<queue, said>>
    BY <2>2, <2>3, SamePlaces
  <2>4. CASE ~UNCHANGED <<queue, said>>
    <3> DEFINE e == [type |-> type, of |-> c]
    <3>1. e \in Events /\ said' = Append(said, e) /\ queue' = Append(queue, e)
      BY <2>1, <2>4, EmitAdds
    <3> QED
      BY <2>1, <2>2, <3>1, EmitKeepsOrder
  <2> QED
    BY <2>3, <2>4
<1>3. Rising(Idle.events) /\ (\A s : Below(Idle.events, s) /\ Below(s, Idle.events))
  BY DEF Idle, Rising, Below
<1>4. /\ queue \in Seq(Events) /\ rows \in Seq(Events) /\ post.events \in Seq(Events)
      /\ \A o \in orphans : o.events \in Seq(Events)
  BY DEF EventsT, Batches
<1>5. CASE TakeBatch
  <2> DEFINE n == IF Len(queue) < MaxBatch THEN Len(queue) ELSE MaxBatch
             first == SubSeq(queue, 1, n)
             rest  == SubSeq(queue, n + 1, Len(queue))
  <2>1. /\ post' = [events |-> first, try |-> 1] /\ queue' = rest
        /\ UNCHANGED <<said, rows, orphans, crossed>>
    BY <1>5 DEF TakeBatch, djangoVars
  <2>2. n \in 0..Len(queue)
    BY <1>4, DrainAssumption
  <2> HIDE DEF n
  <2>3. /\ Rising(first) /\ Rising(rest) /\ Below(first, rest)
        /\ \A t : Below(t, queue) => Below(t, first) /\ Below(t, rest)
    BY <1>4, <2>2, CutRises
  <2> HIDE DEF first, rest
  <2>4. post'.events = first
    BY <2>1
  <2> QED
    BY <2>1, <2>3, <2>4, SamePlaces
<1>6. CASE Answered
  <2>1. /\ post' = Idle /\ rows' = rows \o post.events
             /\ UNCHANGED <<queue, said, orphans, crossed>>
    BY <1>6 DEF Answered, Apply, queueVars
  <2>2. \A i \in 1..Len(rows') : In(rows'[i], said)
    <3>1. \A i \in 1..Len(rows') : \/ i \in 1..Len(rows) /\ rows'[i] = rows[i]
                                   \/ i - Len(rows) \in 1..Len(post.events)
                                      /\ rows'[i] = post.events[i - Len(rows)]
      BY <1>4, <2>1, ConcatProperties
    <3> QED
      BY <3>1 DEF Rising
  <2>3. ~crossed => Rising(rows') /\ Below(rows', queue)
    BY <1>4, <2>1, JoinRises
  <2> QED
    BY <1>3, <2>1, <2>2, <2>3, SamePlaces
<1>7. CASE Missed
  <2>1. /\ post'.events = post.events \/ post' = Idle
        /\ \/ UNCHANGED <<orphans, crossed>>
           \/ orphans' = orphans \cup {post} /\ crossed' = TRUE
        /\ UNCHANGED <<queue, said, rows>>
    BY <1>7 DEF Missed, EventsT, Batches
  <2> QED
    BY <1>3, <2>1, SamePlaces
<1>8. CASE BatchRefused
  <2>1. post' = Idle /\ UNCHANGED <<queue, said, rows, orphans, crossed>>
    BY <1>8 DEF BatchRefused, djangoVars
  <2> QED
    BY <1>3, <2>1, SamePlaces
<1>9. CASE \E o \in orphans : AppliedLate(o)
  <2>1. PICK o \in orphans : /\ rows' = rows \o o.events /\ orphans' = orphans \ {o}
                             /\ UNCHANGED <<queue, said, post, crossed>>
    BY <1>9 DEF AppliedLate, Apply, queueVars, postVars
  <2>2. \A i \in 1..Len(rows') : In(rows'[i], said)
    <3>1. \A i \in 1..Len(rows') : \/ i \in 1..Len(rows) /\ rows'[i] = rows[i]
                                   \/ i - Len(rows) \in 1..Len(o.events)
                                      /\ rows'[i] = o.events[i - Len(rows)]
      BY <1>4, <2>1, ConcatProperties
    <3> QED
      BY <3>1 DEF Rising
  <2> QED
    BY <2>1, <2>2, SamePlaces
<1> QED
  BY <1>1, <1>2, <1>5, <1>6, <1>7, <1>8, <1>9 DEF EventStep

\* The copies of an event, as sets.
LEMMA CopiesFinite ==
  ASSUME EventsT, NEW e
  PROVE  /\ IsFiniteSet(RowsOf(e)) /\ IsFiniteSet(OrphansOf(e))
         /\ Cardinality(RowsOf(e)) \in Nat /\ Cardinality(OrphansOf(e)) \in Nat
<1>1. IsFiniteSet(1..Len(rows))
  BY FS_Interval DEF EventsT
<1>2. IsFiniteSet(RowsOf(e))
  BY <1>1, FS_Subset DEF RowsOf
<1>3. IsFiniteSet(OrphansOf(e))
  BY FS_Subset DEF EventsT, OrphansOf
<1> QED
  BY <1>2, <1>3, FS_CardinalityType

\* An event is once at most in a sequence that rises.
LEMMA RisingOnce ==
  ASSUME said \in Seq(Events), NEW s \in Seq(Events), Rising(s), NEW i \in 1..Len(s),
         NEW j \in 1..Len(s), s[i] = s[j]
  PROVE  i = j
<1>1. Place(s[i]) \in Nat
  BY PlaceKnown DEF Rising
<1>2. ~(i < j) /\ ~(j < i)
  BY <1>1 DEF Rising
<1> QED
  BY <1>2

\* Rows of a batch that is applied: one copy of each of its events.
LEMMA AppliedRows ==
  ASSUME EventsT, NEW s \in Seq(Events), Rising(s), rows' = rows \o s, NEW e
  PROVE  Cardinality(RowsOf(e)') = Cardinality(RowsOf(e)) + (IF In(e, s) THEN 1 ELSE 0)
<1>1. /\ Len(rows) \in Nat /\ Len(s) \in Nat /\ Len(rows') = Len(rows) + Len(s)
      /\ \A i \in 1..Len(rows) : rows'[i] = rows[i]
      /\ \A i \in (Len(rows) + 1)..Len(rows') : rows'[i] = s[i - Len(rows)]
  BY ConcatProperties DEF EventsT
<1>2. CASE In(e, s)
  <2>1. PICK k \in 1..Len(s) : s[k] = e
    BY <1>2 DEF In
  <2> DEFINE m == Len(rows) + k
  <2>2. m \in 1..Len(rows') /\ rows'[m] = e /\ m \notin RowsOf(e)
    BY <1>1, <2>1 DEF RowsOf
  <2>3. ASSUME NEW i \in 1..Len(rows'), rows'[i] = e, i \notin 1..Len(rows) PROVE i = m
    <3>1. i - Len(rows) \in 1..Len(s) /\ s[i - Len(rows)] = e
      BY <1>1, <2>3
    <3>2. i - Len(rows) = k
      BY <2>1, <3>1, RisingOnce DEF EventsT
    <3> QED
      BY <1>1, <3>2
  <2>4. RowsOf(e)' = RowsOf(e) \cup {m}
    <3>1. \A i \in RowsOf(e) : i \in 1..Len(rows') /\ rows'[i] = e
      BY <1>1 DEF RowsOf
    <3> HIDE DEF m
    <3> QED
      BY <1>1, <2>2, <2>3, <3>1 DEF RowsOf
  <2> HIDE DEF m
  <2> QED
    BY ZenonT(60), <1>2, <2>2, <2>4, CopiesFinite, FS_AddElement
<1>3. CASE ~In(e, s)
  <2>1. \A i \in 1..Len(rows') : rows'[i] = e => i \in 1..Len(rows) /\ rows[i] = e
    <3> SUFFICES ASSUME NEW i \in 1..Len(rows'), rows'[i] = e, i \notin 1..Len(rows) PROVE FALSE
      BY <1>1
    <3>1. i - Len(rows) \in 1..Len(s) /\ s[i - Len(rows)] = e
      BY <1>1
    <3> QED
      BY <1>3, <3>1 DEF In
  <2>2. RowsOf(e)' = RowsOf(e)
    BY <1>1, <2>1 DEF RowsOf
  <2> QED
    BY <1>3, <2>2, CopiesFinite
<1> QED
  BY <1>2, <1>3

\* Every step leaves each event within its attempts.
LEMMA CopiesKept ==
  ASSUME EventsT, EventsT', SaidFits, OrderFits, CopiesFit,
         EventStep \/ Quiet \/ \E type, c : Emits(type, c) /\ ~In([type |-> type, of |-> c], said)
  PROVE  CopiesFit'
<1> SUFFICES ASSUME NEW e \in Events
             PROVE  /\ Copies(e)' <= MaxTries
                    /\ In(e, post'.events) => Copies(e)' <= post'.try - 1
                    /\ In(e, queue') => Copies(e)' = 0
  BY DEF CopiesFit, In
<1>1. /\ Copies(e) <= MaxTries /\ Copies(e) \in Nat /\ MaxTries \in Nat \ {0}
      /\ In(e, post.events) => Copies(e) <= post.try - 1
      /\ In(e, queue) => Copies(e) = 0
      /\ post.try \in 0..MaxTries
  <2>1. Copies(e) \in Nat
    <3>1. Cardinality(RowsOf(e)) \in Nat /\ Cardinality(OrphansOf(e)) \in Nat
      BY CopiesFinite
    <3> QED
      BY <3>1 DEF Copies
  <2>2. MaxTries \in Nat \ {0}
    BY DrainAssumption
  <2>3. post.try \in 0..MaxTries
    BY DEF EventsT, Batches
  <2> QED
    BY <2>1, <2>2, <2>3 DEF CopiesFit
<1>2. ~In(e, Idle.events)
  BY DEF Idle, In
<1>3. /\ queue \in Seq(Events) /\ rows \in Seq(Events) /\ post.events \in Seq(Events)
      /\ \A o \in orphans : o.events \in Seq(Events)
  BY DEF EventsT, Batches
<1>4. UNCHANGED <<rows, orphans>> => Copies(e)' = Copies(e)
  BY DEF Copies, RowsOf, OrphansOf
<1>5. CASE Quiet
  BY <1>1, <1>4, <1>5 DEF Quiet
<1>6. CASE \E type, c : Emits(type, c) /\ ~In([type |-> type, of |-> c], said)
  <2>1. PICK type, c : Emits(type, c) /\ ~In([type |-> type, of |-> c], said)
    BY <1>6
  <2>2. UNCHANGED <<rows, post, orphans>>
    BY <2>1 DEF Emits
  <2>3. CASE UNCHANGED queue
    BY <1>1, <1>4, <2>2, <2>3
  <2>4. CASE ~UNCHANGED queue
    <3> DEFINE n == [type |-> type, of |-> c]
    <3>1. queue' = Append(queue, n)
      BY <2>1, <2>4, EmitAdds
    <3>2. In(e, queue') => In(e, queue) \/ e = n
      <4>1. Len(queue') = Len(queue) + 1 /\ Len(queue) \in Nat
            /\ queue'[Len(queue) + 1] = n /\ \A i \in 1..Len(queue) : queue'[i] = queue[i]
        BY <1>3, <3>1
      <4> QED
        BY <4>1 DEF In
    <3>3. CASE e = n
      <4>1. RowsOf(e) = {}
        BY <2>1, <3>3 DEF OrderFits, RowsOf
      <4>2. OrphansOf(e) = {}
        BY <2>1, <3>3 DEF OrderFits, Rising, OrphansOf, In
      <4>3. Copies(e) = 0
        BY <4>1, <4>2, FS_EmptySet DEF Copies
      <4> QED
        BY <1>1, <1>4, <2>2, <4>3
    <3>4. CASE e # n
      BY <1>1, <1>4, <2>2, <3>2, <3>4
    <3> QED
      BY <3>3, <3>4
  <2> QED
    BY <2>3, <2>4
<1>7. CASE TakeBatch
  <2> DEFINE n == IF Len(queue) < MaxBatch THEN Len(queue) ELSE MaxBatch
             first == SubSeq(queue, 1, n)
             rest  == SubSeq(queue, n + 1, Len(queue))
  <2>1. /\ post' = [events |-> first, try |-> 1] /\ queue' = rest /\ UNCHANGED <<rows, orphans>>
    BY <1>7 DEF TakeBatch, djangoVars
  <2>2. n \in 0..Len(queue)
    BY <1>3, DrainAssumption
  <2> HIDE DEF n
  <2>3. In(e, first) \/ In(e, rest) => In(e, queue)
    BY <1>3, <2>2, CutRises DEF OrderFits
  <2> HIDE DEF first, rest
  <2>4. post'.events = first /\ post'.try = 1
    BY <2>1
  <2> QED
    BY <1>1, <1>4, <2>1, <2>3, <2>4
<1>8. In(e, post.events) => ~In(e, queue)
  <2> SUFFICES ASSUME NEW i \in 1..Len(post.events), NEW j \in 1..Len(queue),
                      post.events[i] = e, queue[j] = e
               PROVE  FALSE
    BY DEF In
  <2>1. Place(e) < Place(e)
    BY DEF OrderFits, Below
  <2>2. Place(e) \in Nat
    BY PlaceKnown DEF OrderFits, Rising, EventsT
  <2> QED
    BY <2>1, <2>2
<1>9. CASE Answered
  <2>1. /\ post # Idle /\ post' = Idle /\ rows' = rows \o post.events
             /\ UNCHANGED <<queue, orphans>>
    BY <1>9 DEF Answered, Apply, queueVars
  <2>2. Cardinality(RowsOf(e)') = Cardinality(RowsOf(e)) + (IF In(e, post.events) THEN 1 ELSE 0)
    BY <1>3, <2>1, AppliedRows DEF OrderFits
  <2>3. Cardinality(OrphansOf(e)') = Cardinality(OrphansOf(e))
    BY <2>1 DEF OrphansOf
  <2>4. Copies(e)' = Copies(e) + (IF In(e, post.events) THEN 1 ELSE 0)
    BY <2>2, <2>3, CopiesFinite DEF Copies
  <2> QED
    BY <1>1, <1>2, <1>8, <2>1, <2>4
<1>10. CASE Missed
  <2>1. /\ post # Idle /\ UNCHANGED <<queue, rows>>
        /\ post' = IF post.try < MaxTries THEN [post EXCEPT !.try = @ + 1] ELSE Idle
        /\ UNCHANGED orphans \/ orphans' = orphans \cup {post}
    BY <1>10 DEF Missed
  <2>2. Cardinality(OrphansOf(e)') <= Cardinality(OrphansOf(e)) + (IF In(e, post.events) THEN 1 ELSE 0)
    <3>1. CASE UNCHANGED orphans
      BY <3>1, CopiesFinite DEF OrphansOf
    <3>2. CASE orphans' = orphans \cup {post} /\ In(e, post.events)
      <4>1. OrphansOf(e)' = OrphansOf(e) \cup {post}
        BY <3>2 DEF OrphansOf
      <4> DEFINE S == OrphansOf(e)
                 T == OrphansOf(e)'
      <4>2. IsFiniteSet(S) /\ Cardinality(S) \in Nat
        BY CopiesFinite
      <4>3. T = S \cup {post}
        BY <4>1
      <4> HIDE DEF S, T
      <4>4. Cardinality(T) = IF post \in S THEN Cardinality(S) ELSE Cardinality(S) + 1
        BY <4>2, <4>3, FS_AddElement
      <4>5. Cardinality(T) <= Cardinality(S) + 1
        BY <4>2, <4>4
      <4> QED
        BY <3>2, <4>5 DEF S, T
    <3>3. CASE orphans' = orphans \cup {post} /\ ~In(e, post.events)
      <4>1. OrphansOf(e)' = OrphansOf(e)
        BY <3>3 DEF OrphansOf
      <4> QED
        BY <3>3, <4>1, CopiesFinite
    <3> QED
      BY <2>1, <3>1, <3>2, <3>3
  <2>3. RowsOf(e)' = RowsOf(e)
    BY <2>1 DEF RowsOf
  <2>4. Cardinality(OrphansOf(e)') \in Nat
    <3>1. IsFiniteSet(OrphansOf(e)')
      <4>1. OrphansOf(e)' \subseteq orphans' /\ IsFiniteSet(orphans')
        BY DEF OrphansOf, EventsT
      <4> QED
        BY <4>1, FS_Subset
    <3> QED
      BY <3>1, FS_CardinalityType
  <2>5. Copies(e)' <= Copies(e) + (IF In(e, post.events) THEN 1 ELSE 0) /\ Copies(e)' \in Nat
    BY <2>2, <2>3, <2>4, CopiesFinite DEF Copies
  <2>6. In(e, post.events) => Copies(e)' <= post.try
    BY <1>1, <2>5
  <2>7. ~In(e, post.events) => Copies(e)' <= Copies(e)
    BY <1>1, <2>5
  <2>8. \/ post'.events = post.events /\ post'.try = post.try + 1
        \/ post' = Idle
    BY <2>1 DEF EventsT, Batches
  <2> QED
    BY <1>1, <1>2, <1>8, <2>1, <2>5, <2>6, <2>7, <2>8
<1>11. CASE BatchRefused
  <2>1. post' = Idle /\ UNCHANGED <<queue, rows, orphans>>
    BY <1>11 DEF BatchRefused, djangoVars
  <2> QED
    BY <1>1, <1>2, <1>4, <2>1
<1>12. CASE \E o \in orphans : AppliedLate(o)
  <2>1. PICK o \in orphans : /\ rows' = rows \o o.events /\ orphans' = orphans \ {o}
                             /\ UNCHANGED <<queue, post>>
    BY <1>12 DEF AppliedLate, Apply, queueVars, postVars
  <2>2. Cardinality(RowsOf(e)') = Cardinality(RowsOf(e)) + (IF In(e, o.events) THEN 1 ELSE 0)
    BY <1>3, <2>1, AppliedRows DEF OrderFits
  <2>3. Cardinality(OrphansOf(e)') = Cardinality(OrphansOf(e)) - (IF In(e, o.events) THEN 1 ELSE 0)
    <3>1. CASE In(e, o.events)
      <4>1. OrphansOf(e)' = OrphansOf(e) \ {o} /\ o \in OrphansOf(e)
        BY <2>1, <3>1 DEF OrphansOf
      <4> QED
        BY <3>1, <4>1, CopiesFinite, FS_RemoveElement
    <3>2. CASE ~In(e, o.events)
      <4>1. OrphansOf(e)' = OrphansOf(e)
        BY <2>1, <3>2 DEF OrphansOf
      <4> QED
        BY <3>2, <4>1, CopiesFinite
    <3> QED
      BY <3>1, <3>2
  <2>4. Copies(e)' = Copies(e)
    BY <2>2, <2>3, CopiesFinite DEF Copies
  <2> QED
    BY <1>1, <2>1, <2>4
<1> QED
  BY <1>5, <1>6, <1>7, <1>9, <1>10, <1>11, <1>12 DEF EventStep

\* Every step is the worker's or Django's, raises nothing, or raises an event
\* that has not been raised before.
LEMMA StepKinds ==
  ASSUME TunesT, SaidFits, DrainNext
  PROVE  EventStep \/ Quiet \/ \E type, c : Emits(type, c) /\ ~In([type |-> type, of |-> c], said)
<1> USE DEF Quiet, Emits, djangoVars, queueVars, postVars
<1>1. CASE TuneStep
  <2>1. PICK c \in Channels : TuneBegins(c) \/ TuneFails(c) \/ PublishesRun(c) \/ RunBegins(c)
    BY <1>1 DEF TuneStep
  <2>2. CASE RunBegins(c)
    <3>1. Emits("channel_start", c)
      BY <2>2 DEF RunBegins, EventTypes
    <3>2. ~In([type |-> "channel_start", of |-> c], said)
      BY <2>2 DEF RunBegins, SaidFits
    <3> QED
      BY <3>1, <3>2
  <2> QED
    BY <2>1, <2>2 DEF TuneBegins, TuneFails, PublishesRun
<1>2. CASE ViewerStep
  <2>1. PICK c \in Channels : Connects(c) \/ Disconnects(c) \/ Leaves(c) \/ Returns(c)
    BY <1>2 DEF ViewerStep
  <2>2. CASE Connects(c)
    <3>1. ~In([type |-> "client_connect", of |-> c], said)
      BY <2>2 DEF Connects, SaidFits
    <3>2. Quiet \/ Emits("client_connect", c)
      BY <2>2 DEF Connects, EventTypes
    <3> QED
      BY <3>1, <3>2
  <2>3. CASE Disconnects(c)
    <3>1. ~In([type |-> "client_disconnect", of |-> c], said)
      BY <2>3 DEF Disconnects, SaidFits
    <3>2. Emits("client_disconnect", c)
      BY <2>3 DEF Disconnects, EventTypes
    <3> QED
      BY <3>1, <3>2
  <2> QED
    BY <2>1, <2>2, <2>3 DEF Leaves, Returns
<1>3. CASE WindStep
  <2>1. PICK c \in Channels : EmitsStop(c) \/ RunDone(c) \/ Releases(c)
    BY <1>3 DEF WindStep
  <2>2. CASE EmitsStop(c)
    <3>1. ~In([type |-> "channel_stop", of |-> c], said)
      BY <2>2 DEF EmitsStop, SaidFits
    <3>2. Emits("channel_stop", c)
      BY <2>2 DEF EmitsStop, EventTypes
    <3> QED
      BY <3>1, <3>2
  <2> QED
    BY <2>1, <2>2 DEF RunDone, Releases
<1>4. CASE DrainStep
  BY <1>4 DEF DrainStep, BeginDrain, StopAll, AllStopped, ServerDown, Flushed, BudgetRunsOut,
     DrainStops
<1> QED
  BY <1>1, <1>2, <1>3, <1>4 DEF DrainNext

\* What a step adds to the events that were raised.
LEMMA SaidGrows ==
  ASSUME EventsT, SaidFits, NEW type, NEW c, Emits(type, c), ~In([type |-> type, of |-> c], said)
  PROVE  /\ \A x : In(x, said') => In(x, said) \/ x = [type |-> type, of |-> c]
         /\ \A x : In(x, said) => In(x, said')
         /\ \A i, j \in 1..Len(said') : said'[i] = said'[j] => i = j
<1> DEFINE e == [type |-> type, of |-> c]
<1>1. CASE UNCHANGED said
  BY <1>1 DEF SaidFits
<1>2. CASE ~UNCHANGED said
  <2>1. e \in Events /\ said' = Append(said, e)
    BY <1>2, EmitAdds
  <2>2. ~In(e, said)
    OBVIOUS
  <2> HIDE DEF e
  <2>3. /\ \A x : In(x, said) => In(x, said')
        /\ \A i, j \in 1..Len(said') : said'[i] = said'[j] => i = j
    BY <2>1, <2>2, PlacesStay
  <2>4. \A x : In(x, said') => In(x, said) \/ x = e
    BY <2>1 DEF In, EventsT
  <2> QED
    BY <2>3, <2>4 DEF e
<1> QED
  BY <1>1, <1>2

\* The types of the tunes and the drain are kept by every step.
LEMMA TunesTyped ==
  ASSUME TunesT, DrainNext PROVE TunesT'
<1> USE DEF Lives, tuneVars, stopVars, queueVars
<1>0. ASSUME NEW type, NEW c, Emit(type, c) PROVE {closed, overrun, lost'} \subseteq BOOLEAN
  BY <1>0 DEF Emit, TunesT
<1>1. CASE TuneStep
  <2>1. PICK c \in Channels : TuneBegins(c) \/ TuneFails(c) \/ PublishesRun(c) \/ RunBegins(c)
    BY <1>1 DEF TuneStep
  <2>2. CASE TuneBegins(c)
    BY <2>2 DEF TuneBegins, TunesT
  <2>3. CASE TuneFails(c)
    BY <2>3 DEF TuneFails, TunesT
  <2>4. CASE PublishesRun(c)
    BY <2>4 DEF PublishesRun, TunesT
  <2>5. CASE RunBegins(c)
    BY <1>0, <2>5 DEF RunBegins, TunesT
  <2> QED
    BY <2>1, <2>2, <2>3, <2>4, <2>5
<1>2. CASE ViewerStep
  <2>1. PICK c \in Channels : Connects(c) \/ Disconnects(c) \/ Leaves(c) \/ Returns(c)
    BY <1>2 DEF ViewerStep
  <2>2. CASE Connects(c)
    <3>1. {closed', overrun', lost'} \subseteq BOOLEAN
      BY <1>0, <2>2 DEF Connects, TunesT
    <3> QED
      BY <2>2, <3>1 DEF Connects, TunesT
  <2>3. CASE Disconnects(c)
    BY <1>0, <2>3 DEF Disconnects, TunesT
  <2>4. CASE Leaves(c)
    BY <2>4 DEF Leaves, TunesT
  <2>5. CASE Returns(c)
    <3>1. overrun' \in BOOLEAN
      BY <2>5 DEF Returns, TunesT
    <3> QED
      BY <2>5, <3>1 DEF Returns, TunesT
  <2> QED
    BY <2>1, <2>2, <2>3, <2>4, <2>5
<1>3. CASE WindStep
  <2>1. PICK c \in Channels : EmitsStop(c) \/ RunDone(c) \/ Releases(c)
    BY <1>3 DEF WindStep
  <2>2. CASE EmitsStop(c)
    BY <1>0, <2>2 DEF EmitsStop, TunesT
  <2>3. CASE RunDone(c) \/ Releases(c)
    BY <2>3 DEF RunDone, Releases, TunesT
  <2> QED
    BY <2>1, <2>2, <2>3
<1>4. CASE EventStep
  <2>1. UNCHANGED <<tuneVars, stopVars, closed>>
    BY <1>4 DEF EventStep, TakeBatch, Answered, Missed, BatchRefused, AppliedLate
  <2>2. lost' = lost \/ lost' = TRUE
    BY <1>4 DEF EventStep, TakeBatch, Answered, Missed, BatchRefused, AppliedLate
  <2>3. {closed', overrun', lost'} \subseteq BOOLEAN
    BY <2>1, <2>2 DEF TunesT
  <2> QED
    BY <2>1, <2>3 DEF TunesT
<1>5. CASE DrainStep
  <2>1. CASE BeginDrain \/ StopAll \/ AllStopped \/ Flushed
    BY <2>1 DEF BeginDrain, StopAll, AllStopped, Flushed, TunesT
  <2>2. CASE ServerDown \/ BudgetRunsOut
    <3>1. {closed', overrun', lost'} \subseteq BOOLEAN
      BY <2>2 DEF ServerDown, BudgetRunsOut, TunesT
    <3> QED
      BY <2>2, <3>1 DEF ServerDown, BudgetRunsOut, TunesT
  <2>3. CASE \E c \in Channels : DrainStops(c)
    BY <2>3 DEF DrainStops, TunesT
  <2> QED
    BY <1>5, <2>1, <2>2, <2>3 DEF DrainStep
<1> QED
  BY <1>1, <1>2, <1>3, <1>4, <1>5 DEF DrainNext

\* Every event is raised once, where its channel comes to be: each step.
LEMMA SaidKept ==
  ASSUME TunesT, EventsT, SaidFits, DrainNext PROVE SaidFits'
<1> DEFINE Start(c)      == [type |-> "channel_start", of |-> c]
           Stop(c)       == [type |-> "channel_stop", of |-> c]
           Connect(c)    == [type |-> "client_connect", of |-> c]
           Disconnect(c) == [type |-> "client_disconnect", of |-> c]
           Fits(d) ==
             /\ In(Start(d), said) => life[d] \notin {"idle", "starting", "published"}
             /\ In(Stop(d), said) => life[d] \in {"announced", "done", "released"}
             /\ In(Connect(d), said) => viewer[d] \in {"serving", "leaving", "gone"}
             /\ In(Disconnect(d), said) => viewer[d] \in {"leaving", "gone"}
             /\ (viewer[d] = "none" <=> life[d] \in {"idle", "starting", "published"})
<1>a. /\ \A i, j \in 1..Len(said) : said[i] = said[j] => i = j
      /\ \A d \in Channels : Fits(d)
  BY DEF SaidFits
<1>b. /\ life \in [Channels -> Lives]
      /\ viewer \in [Channels -> {"none", "attached", "serving", "leaving", "gone"}]
  BY DEF TunesT
<1>c. \A c, d : /\ Start(c) # Stop(d) /\ Start(c) # Connect(d) /\ Start(c) # Disconnect(d)
                /\ Stop(c) # Connect(d) /\ Stop(c) # Disconnect(d) /\ Connect(c) # Disconnect(d)
                /\ (Start(c) = Start(d) \/ Stop(c) = Stop(d) \/ Connect(c) = Connect(d)
                    \/ Disconnect(c) = Disconnect(d) => c = d)
  OBVIOUS
<1>e. ASSUME NEW type, NEW c, Emits(type, c), ~In([type |-> type, of |-> c], said)
      PROVE  /\ \A x : In(x, said') => In(x, said) \/ x = [type |-> type, of |-> c]
             /\ \A i, j \in 1..Len(said') : said'[i] = said'[j] => i = j
  BY <1>e, SaidGrows
<1>f. SUFFICES /\ \A i, j \in 1..Len(said') : said'[i] = said'[j] => i = j
               /\ \A d \in Channels : Fits(d)'
  BY DEF SaidFits
<1> USE DEF tuneVars, stopVars, djangoVars, queueVars, postVars
<1>1. CASE UNCHANGED <<life, viewer, said>>
  BY <1>1, <1>a
<1>2. CASE \E c \in Channels : TuneBegins(c) \/ TuneFails(c) \/ PublishesRun(c) \/ RunDone(c)
                                 \/ Releases(c)
  <2>1. PICK c \in Channels : TuneBegins(c) \/ TuneFails(c) \/ PublishesRun(c) \/ RunDone(c)
          \/ Releases(c)
    BY <1>2
  <2>2. /\ UNCHANGED <<viewer, said>>
        /\ \E l \in Lives : life' = [life EXCEPT ![c] = l]
             /\ (l \in {"announced", "done", "released"} <=> life[c] \in {"announced", "done", "released"})
             /\ (l \in {"idle", "starting", "published"} <=> life[c] \in {"idle", "starting", "published"})
    BY <2>1 DEF TuneBegins, TuneFails, PublishesRun, RunDone, Releases, Lives
  <2>3. \A d \in Channels : /\ viewer'[d] = viewer[d]
             /\ (life'[d] \in {"announced", "done", "released"} <=> life[d] \in {"announced", "done", "released"})
             /\ (life'[d] \in {"idle", "starting", "published"} <=> life[d] \in {"idle", "starting", "published"})
    BY <1>b, <2>2
  <2> HIDE DEF Start, Stop, Connect, Disconnect
  <2> QED
    BY <1>a, <2>2, <2>3
<1>3. CASE \E c \in Channels : RunBegins(c)
  <2>1. PICK c \in Channels : RunBegins(c)
    BY <1>3
  <2>2. ~In(Start(c), said) /\ ~In(Stop(c), said) /\ ~In(Connect(c), said)
          /\ ~In(Disconnect(c), said)
    BY <1>a, <2>1 DEF RunBegins
  <2>3. Emits("channel_start", c)
    BY <2>1 DEF RunBegins, Emits, EventTypes
  <2>4. /\ \A x : In(x, said') => In(x, said) \/ x = Start(c)
        /\ \A i, j \in 1..Len(said') : said'[i] = said'[j] => i = j
    BY <1>e, <2>2, <2>3
  <2>5. /\ life'[c] = "running" /\ viewer'[c] = "attached"
        /\ \A d \in Channels \ {c} : life'[d] = life[d] /\ viewer'[d] = viewer[d]
    BY <1>b, <2>1 DEF RunBegins
  <2> HIDE DEF Start, Stop, Connect, Disconnect
  <2> QED
    BY <1>a, <1>c, <2>2, <2>4, <2>5
<1>4. CASE \E c \in Channels : Connects(c)
  <2>1. PICK c \in Channels : Connects(c)
    BY <1>4
  <2>2. ~In(Connect(c), said) /\ ~In(Disconnect(c), said)
          /\ life[c] \notin {"idle", "starting", "published"}
    BY <1>a, <2>1 DEF Connects
  <2>3. \/ Emits("client_connect", c) /\ viewer' = [viewer EXCEPT ![c] = "serving"]
        \/ said' = said /\ viewer' = [viewer EXCEPT ![c] = "leaving"]
    BY <2>1 DEF Connects, Emits, EventTypes
  <2>4. /\ \A x : In(x, said') => In(x, said) \/ x = Connect(c)
        /\ \A i, j \in 1..Len(said') : said'[i] = said'[j] => i = j
    BY <1>a, <1>e, <2>2, <2>3
  <2>5. /\ life' = life /\ viewer'[c] \in {"serving", "leaving"}
        /\ \A d \in Channels \ {c} : viewer'[d] = viewer[d]
    BY <1>b, <2>1, <2>3 DEF Connects
  <2> HIDE DEF Start, Stop, Connect, Disconnect
  <2> QED
    BY <1>a, <1>c, <2>2, <2>4, <2>5
<1>5. CASE \E c \in Channels : Disconnects(c)
  <2>1. PICK c \in Channels : Disconnects(c)
    BY <1>5
  <2>2. ~In(Disconnect(c), said) /\ life[c] \notin {"idle", "starting", "published"}
    BY <1>a, <2>1 DEF Disconnects
  <2>3. Emits("client_disconnect", c)
    BY <2>1 DEF Disconnects, Emits, EventTypes
  <2>4. /\ \A x : In(x, said') => In(x, said) \/ x = Disconnect(c)
        /\ \A i, j \in 1..Len(said') : said'[i] = said'[j] => i = j
    BY <1>e, <2>2, <2>3
  <2>5. /\ life' = life /\ viewer'[c] = "leaving"
        /\ \A d \in Channels \ {c} : viewer'[d] = viewer[d]
    BY <1>b, <2>1 DEF Disconnects
  <2> HIDE DEF Start, Stop, Connect, Disconnect
  <2> QED
    BY <1>a, <1>c, <2>2, <2>4, <2>5
<1>6. CASE \E c \in Channels : Returns(c)
  <2>1. PICK c \in Channels : Returns(c)
    BY <1>6
  <2>2. /\ UNCHANGED <<life, said>> /\ viewer[c] = "leaving" /\ viewer'[c] = "gone"
        /\ \A d \in Channels \ {c} : viewer'[d] = viewer[d]
    BY <1>b, <2>1 DEF Returns
  <2> HIDE DEF Start, Stop, Connect, Disconnect
  <2> QED
    BY <1>a, <2>2
<1>7. CASE \E c \in Channels : EmitsStop(c)
  <2>1. PICK c \in Channels : EmitsStop(c)
    BY <1>7
  <2>2. ~In(Stop(c), said) /\ life[c] = "running"
    BY <1>a, <2>1 DEF EmitsStop
  <2>3. Emits("channel_stop", c)
    BY <2>1 DEF EmitsStop, Emits, EventTypes
  <2>4. /\ \A x : In(x, said') => In(x, said) \/ x = Stop(c)
        /\ \A i, j \in 1..Len(said') : said'[i] = said'[j] => i = j
    BY <1>e, <2>2, <2>3
  <2>5. /\ viewer' = viewer /\ life'[c] = "announced"
        /\ \A d \in Channels \ {c} : life'[d] = life[d]
    BY <1>b, <2>1 DEF EmitsStop
  <2> HIDE DEF Start, Stop, Connect, Disconnect
  <2> QED
    BY <1>a, <1>c, <2>2, <2>4, <2>5
<1>8. CASE (\E c \in Channels : Leaves(c)) \/ EventStep \/ DrainStep
  <2>1. UNCHANGED <<life, viewer, said>>
    BY <1>8 DEF Leaves, EventStep, TakeBatch, Answered, Missed, BatchRefused, AppliedLate,
       DrainStep,
                BeginDrain, StopAll, AllStopped, ServerDown, Flushed, BudgetRunsOut, DrainStops
  <2> QED
    BY <1>1, <2>1
<1> QED
  BY <1>2, <1>3, <1>4, <1>5, <1>6, <1>7, <1>8 DEF DrainNext, TuneStep, ViewerStep, WindStep

\* What the drain has waited for stays so.
LEMMA WaitsKept ==
  ASSUME TunesT, EventsT, SaidFits, WaitsFit, DrainNext PROVE WaitsFit'
<1> SUFFICES ASSUME ~overrun'
             PROVE  /\ phase' = "exited" => queue' = <<>> /\ post' = Idle
                    /\ closed' => phase' \in {"flushing", "exited"}
                    /\ \A c \in Channels :
                         /\ phase' \in {"flushing", "exited"}
                              => life'[c] \in {"idle", "done", "released"}
                                /\ viewer'[c] \in {"none", "gone"}
                         /\ viewer'[c] = "gone" => life'[c] \in {"done", "released"}
  BY DEF WaitsFit
<1> USE DEF Running, tuneVars, stopVars, queueVars, postVars
<1>1. /\ life \in [Channels -> Lives]
      /\ viewer \in [Channels -> {"none", "attached", "serving", "leaving", "gone"}]
  BY DEF TunesT
<1>2. CASE TuneStep
  <2>1. PICK c \in Channels : TuneBegins(c) \/ TuneFails(c) \/ PublishesRun(c) \/ RunBegins(c)
    BY <1>2 DEF TuneStep
  <2>2. /\ phase # "exited" /\ UNCHANGED <<phase, overrun, closed>>
        /\ life[c] \in {"idle", "starting", "published"} /\ (life[c] = "idle" => phase = "up")
        /\ \A d \in Channels \ {c} : life'[d] = life[d] /\ viewer'[d] = viewer[d]
        /\ viewer'[c] # "gone" \/ viewer'[c] = viewer[c]
    BY <1>1, <2>1 DEF TuneBegins, TuneFails, PublishesRun, RunBegins
  <2>3. viewer[c] = "none"
    BY <2>2 DEF SaidFits
  <2> QED
    BY <2>2, <2>3 DEF WaitsFit
<1>3. CASE ViewerStep
  <2>1. PICK c \in Channels : Connects(c) \/ Disconnects(c) \/ Leaves(c) \/ Returns(c)
    BY <1>3 DEF ViewerStep
  <2>2. /\ phase # "exited" /\ UNCHANGED <<phase, closed, life>> /\ ~overrun
        /\ viewer[c] \notin {"none", "gone"}
        /\ \A d \in Channels \ {c} : viewer'[d] = viewer[d]
        /\ viewer'[c] = "gone" => life[c] \in {"done", "released"}
    <3>1. CASE Connects(c) \/ Disconnects(c) \/ Leaves(c)
      BY <1>1, <2>1, <3>1 DEF Connects, Disconnects, Leaves
    <3>2. CASE Returns(c)
      <4>1. ~overrun /\ life[c] \in {"done", "released"}
        BY <3>2 DEF Returns
      <4> QED
        BY <1>1, <3>2, <4>1 DEF Returns
    <3> QED
      BY <2>1, <3>1, <3>2
  <2> QED
    BY <2>2 DEF WaitsFit
<1>4. CASE WindStep
  <2>1. PICK c \in Channels : EmitsStop(c) \/ RunDone(c) \/ Releases(c)
    BY <1>4 DEF WindStep
  <2>2. /\ phase # "exited" /\ UNCHANGED <<phase, overrun, closed, viewer>>
        /\ \A d \in Channels \ {c} : life'[d] = life[d]
        /\ \/ life[c] = "running"
           \/ life[c] = "announced"
           \/ life[c] = "done" /\ life'[c] = "released"
    BY <1>1, <2>1 DEF EmitsStop, RunDone, Releases
  <2> QED
    BY <2>2 DEF WaitsFit
<1>5. CASE EventStep
  <2>1. phase # "exited" /\ UNCHANGED <<phase, overrun, closed, life, viewer>>
    BY <1>5 DEF EventStep, TakeBatch, Answered, Missed, BatchRefused, AppliedLate
  <2> QED
    BY <2>1 DEF WaitsFit
<1>6. CASE DrainStep
  <2>1. CASE BeginDrain \/ StopAll \/ AllStopped
    <3>1. /\ phase \notin {"flushing", "exited"} /\ phase' \notin {"flushing", "exited"}
          /\ UNCHANGED <<life, viewer, overrun, closed>>
      BY <2>1 DEF BeginDrain, StopAll, AllStopped
    <3> QED
      BY <3>1 DEF WaitsFit
  <2>2. CASE ServerDown
    <3>1. /\ phase' = "flushing" /\ UNCHANGED <<life, viewer, overrun>>
          /\ \A c \in Channels : ~InFlight(c)
      BY <2>2 DEF ServerDown
    <3>2. \A c \in Channels : /\ life[c] \notin {"starting", "published"}
                                /\ viewer[c] \in {"none", "gone"}
                              /\ viewer[c] = "none" => life[c] = "idle"
      BY <1>1, <3>1 DEF InFlight, SaidFits
    <3> QED
      BY <3>1, <3>2 DEF WaitsFit
  <2>3. CASE Flushed
    BY <2>3 DEF Flushed, WaitsFit
  <2>4. CASE BudgetRunsOut
    BY <2>4 DEF BudgetRunsOut
  <2>5. CASE \E c \in Channels : DrainStops(c)
    <3>1. phase # "exited" /\ UNCHANGED <<phase, overrun, closed, life, viewer>>
      BY <2>5 DEF DrainStops
    <3> QED
      BY <3>1 DEF WaitsFit
  <2> QED
    BY <1>6, <2>1, <2>2, <2>3, <2>4, <2>5 DEF DrainStep
<1> QED
  BY <1>2, <1>3, <1>4, <1>5, <1>6 DEF DrainNext

\* While nothing is lost, what was raised is on record, in the post or queued.
LEMMA WayKept ==
  ASSUME EventsT, SaidFits, OrderFits, OnItsWay, ~lost',
         EventStep \/ Quiet \/ \E type, c : Emits(type, c) /\ ~In([type |-> type, of |-> c], said)
  PROVE  OnItsWay'
<1>1. OnItsWay <=> \A x : In(x, said) => In(x, rows) \/ In(x, post.events) \/ In(x, queue)
  BY DEF OnItsWay, In
<1>2. SUFFICES \A x : In(x, said') => In(x, rows') \/ In(x, post'.events) \/ In(x, queue')
  BY DEF OnItsWay, In
<1>3. /\ queue \in Seq(Events) /\ rows \in Seq(Events) /\ post.events \in Seq(Events)
      /\ \A o \in orphans : o.events \in Seq(Events)
  BY DEF EventsT, Batches
<1>4. \A s, t \in Seq(Events) : \A x : In(x, s) \/ In(x, t) => In(x, s \o t)
  <2> SUFFICES ASSUME NEW s \in Seq(Events), NEW t \in Seq(Events), NEW x, In(x, s) \/ In(x, t)
               PROVE  In(x, s \o t)
    OBVIOUS
  <2> DEFINE b == s \o t
  <2>1. /\ Len(s) \in Nat /\ Len(t) \in Nat /\ Len(b) = Len(s) + Len(t)
        /\ \A i \in 1..Len(s) : b[i] = s[i]
        /\ \A i \in (Len(s) + 1)..Len(b) : b[i] = t[i - Len(s)]
    BY ConcatProperties
  <2> HIDE DEF b
  <2>2. \A j \in 1..Len(t) : Len(s) + j \in 1..Len(b) /\ b[Len(s) + j] = t[j]
    <3> TAKE j \in 1..Len(t)
    <3>1. Len(s) + j \in (Len(s) + 1)..Len(b) /\ (Len(s) + j) - Len(s) = j
      BY <2>1
    <3> QED
      BY SMTT(20), <2>1, <3>1
  <2>3. \A i \in 1..Len(s) : i \in 1..Len(b)
    BY <2>1
  <2>4. In(x, b)
    BY <2>1, <2>2, <2>3 DEF In
  <2> QED
    BY <2>4 DEF b
<1>5. CASE Quiet
  BY <1>1, <1>5 DEF Quiet
<1>6. CASE \E type, c : Emits(type, c) /\ ~In([type |-> type, of |-> c], said)
  <2>1. PICK type, c : Emits(type, c) /\ ~In([type |-> type, of |-> c], said)
    BY <1>6
  <2> DEFINE e == [type |-> type, of |-> c]
  <2>2. UNCHANGED <<rows, post>>
    BY <2>1 DEF Emits
  <2>a. CASE UNCHANGED <<queue, said>>
    BY <1>1, <2>2, <2>a
  <2>b. SUFFICES ASSUME ~UNCHANGED <<queue, said>> PROVE \A x : In(x, said') => In(x, rows')
          \/ In(x, post'.events) \/ In(x, queue')
    BY <2>a
  <2>3. queue' = Append(queue, e)
    BY <2>1, <2>b, EmitAdds
  <2>4. \A x : In(x, said') => In(x, said) \/ x = e
    BY <2>1, SaidGrows
  <2> HIDE DEF e
  <2>5. \A x : In(x, queue) \/ x = e => In(x, queue')
    <3>1. Len(queue') = Len(queue) + 1 /\ Len(queue) \in Nat
          /\ queue'[Len(queue) + 1] = e /\ \A i \in 1..Len(queue) : queue'[i] = queue[i]
      BY <1>3, <2>3
    <3> QED
      BY <3>1 DEF In
  <2> QED
    BY <1>1, <2>2, <2>4, <2>5
<1>7. CASE TakeBatch
  <2> DEFINE n == IF Len(queue) < MaxBatch THEN Len(queue) ELSE MaxBatch
             first == SubSeq(queue, 1, n)
             rest  == SubSeq(queue, n + 1, Len(queue))
  <2>1. /\ post = Idle /\ post' = [events |-> first, try |-> 1] /\ queue' = rest
             /\ UNCHANGED <<rows, said>>
    BY <1>7 DEF TakeBatch, djangoVars
  <2>2. n \in 0..Len(queue)
    BY <1>3, DrainAssumption
  <2> HIDE DEF n
  <2>3. \A x : In(x, queue) => In(x, first) \/ In(x, rest)
    BY <1>3, <2>2, CutRises DEF OrderFits
  <2> HIDE DEF first, rest
  <2>4. post'.events = first /\ \A x : ~In(x, post.events)
    BY <2>1 DEF Idle, In
  <2> QED
    BY <1>1, <2>1, <2>3, <2>4
<1>8. CASE Answered
  <2>1. rows' = rows \o post.events /\ UNCHANGED <<queue, said>>
    BY <1>8 DEF Answered, Apply, queueVars
  <2> QED
    BY <1>1, <1>3, <1>4, <2>1
<1>9. CASE Missed
  <2>1. UNCHANGED <<queue, rows, said>> /\ post.try < MaxTries
          /\ post' = [post EXCEPT !.try = @ + 1]
    BY <1>9 DEF Missed
  <2>2. post'.events = post.events
    BY <2>1 DEF EventsT, Batches
  <2> QED
    BY <1>1, <2>1, <2>2
<1>10. CASE BatchRefused
  BY <1>10 DEF BatchRefused
<1>11. CASE \E o \in orphans : AppliedLate(o)
  <2>1. PICK o \in orphans : rows' = rows \o o.events /\ UNCHANGED <<queue, said, post>>
    BY <1>11 DEF AppliedLate, Apply, queueVars, postVars
  <2> QED
    BY <1>1, <1>3, <1>4, <2>1
<1> QED
  BY <1>5, <1>6, <1>7, <1>8, <1>9, <1>10, <1>11 DEF EventStep

\* Nothing that is lost or cut short is found again.
LEMMA LossesStay ==
  ASSUME TunesT, DrainNext PROVE (lost => lost') /\ (overrun => overrun')
<1> USE DEF tuneVars, stopVars, queueVars
<1>b. /\ lost \in BOOLEAN /\ overrun \in BOOLEAN /\ closed \in BOOLEAN
      /\ lost' \in BOOLEAN /\ overrun' \in BOOLEAN
  BY TunesTyped DEF TunesT
<1>a. ASSUME NEW type, NEW c, Emit(type, c) PROVE lost => lost'
  BY <1>a DEF Emit
<1>1. CASE TuneStep
  BY <1>a, <1>b, <1>1 DEF TuneStep, TuneBegins, TuneFails, PublishesRun, RunBegins
<1>2. CASE ViewerStep
  <2>1. PICK c \in Channels : Connects(c) \/ Disconnects(c) \/ Leaves(c) \/ Returns(c)
    BY <1>2 DEF ViewerStep
  <2>2. CASE Connects(c) \/ Disconnects(c)
    BY <1>a, <1>b, <2>2 DEF Connects, Disconnects
  <2>3. CASE Leaves(c) \/ Returns(c)
    BY <1>b, <2>3 DEF Leaves, Returns
  <2> QED
    BY <2>1, <2>2, <2>3
<1>3. CASE WindStep
  BY <1>a, <1>b, <1>3 DEF WindStep, EmitsStop, RunDone, Releases
<1>4. CASE EventStep
  BY <1>4 DEF EventStep, TakeBatch, Answered, Missed, BatchRefused, AppliedLate
<1>5. CASE DrainStep
  BY <1>5 DEF DrainStep, BeginDrain, StopAll, AllStopped, ServerDown, Flushed, BudgetRunsOut,
     DrainStops
<1> QED
  BY <1>1, <1>2, <1>3, <1>4, <1>5 DEF DrainNext

\* What a channel has come to is said, unless that was lost.
LEMMA EndsKept ==
  ASSUME TunesT, EventsT, SaidFits, OrderFits, WaitsFit, EndsFit, DrainNext PROVE EndsFit'
<1> DEFINE Stop(c)       == [type |-> "channel_stop", of |-> c]
           Connect(c)    == [type |-> "client_connect", of |-> c]
           Disconnect(c) == [type |-> "client_disconnect", of |-> c]
           Told(d) ==
             /\ life[d] \in {"announced", "done", "released"} => In(Stop(d), said)
             /\ viewer[d] \in {"leaving", "gone"} /\ In(Connect(d), said) => In(Disconnect(d), said)
<1>1. SUFFICES ASSUME ~overrun', ~lost' PROVE OnItsWay' /\ \A d \in Channels : Told(d)'
  BY DEF EndsFit
<1>2. ~overrun /\ ~lost
  BY <1>1, LossesStay
<1>3. OnItsWay /\ \A d \in Channels : Told(d)
  BY <1>2 DEF EndsFit
<1>4. EventStep \/ Quiet \/ \E type, c : Emits(type, c) /\ ~In([type |-> type, of |-> c], said)
  BY StepKinds
<1>5. OnItsWay'
  BY <1>1, <1>3, <1>4, WayKept
<1>6. /\ life \in [Channels -> Lives]
      /\ viewer \in [Channels -> {"none", "attached", "serving", "leaving", "gone"}]
  BY DEF TunesT
<1>7. ASSUME NEW type, NEW c, Emits(type, c), ~In([type |-> type, of |-> c], said)
      PROVE  /\ \A x : In(x, said) => In(x, said')
             /\ \A x : In(x, said') => In(x, said) \/ x = [type |-> type, of |-> c]
             /\ ~closed => In([type |-> type, of |-> c], said')
  <2>1. /\ \A x : In(x, said) => In(x, said')
        /\ \A x : In(x, said') => In(x, said) \/ x = [type |-> type, of |-> c]
    BY <1>7, SaidGrows
  <2>2. ~closed => In([type |-> type, of |-> c], said')
    <3> SUFFICES ASSUME ~closed PROVE In([type |-> type, of |-> c], said')
      OBVIOUS
    <3> DEFINE e == [type |-> type, of |-> c]
    <3>1. e \in Events /\ said' = Append(said, e)
      BY <1>1, <1>7, EmitAdds
    <3> HIDE DEF e
    <3>2. Len(said') = Len(said) + 1 /\ Len(said) \in Nat /\ said'[Len(said) + 1] = e
      BY <3>1 DEF EventsT
    <3>3. In(e, said')
      BY <3>2 DEF In
    <3> QED
      BY <3>3 DEF e
  <2> QED
    BY <2>1, <2>2
<1>8. \A c \in Channels : /\ life[c] = "running" => ~closed
                          /\ viewer[c] \in {"attached", "serving", "leaving"} => ~closed
  BY <1>2 DEF WaitsFit
<1>9. \A c, d : Connect(c) # Disconnect(d) /\ Connect(c) # Stop(d)
                  /\ (Connect(c) = Connect(d) => c = d)
                /\ Connect(c).type = "client_connect"
  OBVIOUS
<1> USE DEF tuneVars, stopVars, djangoVars, queueVars, postVars
<1>10. CASE UNCHANGED <<life, viewer, said>>
  BY <1>3, <1>5, <1>10
<1>11. CASE \E c \in Channels : TuneBegins(c) \/ TuneFails(c) \/ PublishesRun(c)
  <2>1. PICK c \in Channels : TuneBegins(c) \/ TuneFails(c) \/ PublishesRun(c)
    BY <1>11
  <2>2. /\ UNCHANGED <<viewer, said>>
        /\ life'[c] \notin {"announced", "done", "released"}
        /\ \A d \in Channels \ {c} : life'[d] = life[d]
    BY <1>6, <2>1 DEF TuneBegins, TuneFails, PublishesRun
  <2> HIDE DEF Stop, Connect, Disconnect
  <2> QED
    BY <1>3, <1>5, <2>2
<1>12. CASE \E c \in Channels : RunBegins(c)
  <2>1. PICK c \in Channels : RunBegins(c)
    BY <1>12
  <2>2. ~In([type |-> "channel_start", of |-> c], said)
    BY <2>1 DEF RunBegins, SaidFits
  <2>3. Emits("channel_start", c)
    BY <2>1 DEF RunBegins, Emits, EventTypes
  <2>4. /\ \A x : In(x, said) => In(x, said')
        /\ \A x : In(x, said') => In(x, said) \/ x = [type |-> "channel_start", of |-> c]
    BY <1>7, <2>2, <2>3
  <2>5. /\ life'[c] = "running" /\ viewer'[c] = "attached"
        /\ \A d \in Channels \ {c} : life'[d] = life[d] /\ viewer'[d] = viewer[d]
    BY <1>6, <2>1 DEF RunBegins
  <2>6. \A d : In(Connect(d), said') => In(Connect(d), said)
    BY <2>4
  <2> HIDE DEF Stop, Connect, Disconnect
  <2> QED
    BY <1>3, <1>5, <2>4, <2>5, <2>6
<1>13. CASE \E c \in Channels : Connects(c)
  <2>1. PICK c \in Channels : Connects(c)
    BY <1>13
  <2>2. ~In(Connect(c), said)
    BY <2>1 DEF Connects, SaidFits
  <2>3. \/ Emits("client_connect", c) /\ viewer' = [viewer EXCEPT ![c] = "serving"]
        \/ said' = said /\ viewer' = [viewer EXCEPT ![c] = "leaving"]
    BY <2>1 DEF Connects, Emits, EventTypes
  <2>4. /\ \A x : In(x, said) => In(x, said')
        /\ \A x : In(x, said') => In(x, said) \/ x = Connect(c)
    BY <1>7, <2>2, <2>3
  <2>5. /\ life' = life /\ \A d \in Channels \ {c} : viewer'[d] = viewer[d]
        /\ \/ viewer'[c] = "serving"
           \/ viewer'[c] = "leaving" /\ said' = said
    BY <1>6, <2>1, <2>3 DEF Connects
  <2>6. \A d \in Channels \ {c} : In(Connect(d), said') => In(Connect(d), said)
    BY <1>9, <2>4
  <2> HIDE DEF Stop, Connect, Disconnect
  <2> QED
    BY <1>3, <1>5, <2>2, <2>4, <2>5, <2>6
<1>14. CASE \E c \in Channels : Disconnects(c)
  <2>1. PICK c \in Channels : Disconnects(c)
    BY <1>14
  <2>2. ~In(Disconnect(c), said) /\ viewer[c] = "serving"
    BY <2>1 DEF Disconnects, SaidFits
  <2>3. Emits("client_disconnect", c)
    BY <2>1 DEF Disconnects, Emits, EventTypes
  <2>4. /\ \A x : In(x, said) => In(x, said')
        /\ \A x : In(x, said') => In(x, said) \/ x = Disconnect(c)
        /\ In(Disconnect(c), said')
    BY <1>7, <1>8, <2>2, <2>3
  <2>5. /\ life' = life /\ \A d \in Channels \ {c} : viewer'[d] = viewer[d]
    BY <1>6, <2>1 DEF Disconnects
  <2>6. \A d : In(Connect(d), said') => In(Connect(d), said)
    BY <1>9, <2>4
  <2> HIDE DEF Stop, Connect, Disconnect
  <2> QED
    BY <1>3, <1>5, <2>4, <2>5, <2>6
<1>15. CASE \E c \in Channels : Returns(c)
  <2>1. PICK c \in Channels : Returns(c)
    BY <1>15
  <2>2. /\ UNCHANGED <<life, said>> /\ viewer[c] = "leaving"
        /\ \A d \in Channels \ {c} : viewer'[d] = viewer[d]
    BY <1>6, <2>1 DEF Returns
  <2> HIDE DEF Stop, Connect, Disconnect
  <2> QED
    BY <1>3, <1>5, <2>2
<1>16. CASE \E c \in Channels : EmitsStop(c)
  <2>1. PICK c \in Channels : EmitsStop(c)
    BY <1>16
  <2>2. ~In(Stop(c), said) /\ life[c] = "running"
    BY <2>1 DEF EmitsStop, SaidFits
  <2>3. Emits("channel_stop", c)
    BY <2>1 DEF EmitsStop, Emits, EventTypes
  <2>4. /\ \A x : In(x, said) => In(x, said')
        /\ \A x : In(x, said') => In(x, said) \/ x = Stop(c)
        /\ In(Stop(c), said')
    BY <1>7, <1>8, <2>2, <2>3
  <2>5. viewer' = viewer /\ \A d \in Channels \ {c} : life'[d] = life[d]
    BY <1>6, <2>1 DEF EmitsStop
  <2>6. \A d : In(Connect(d), said') => In(Connect(d), said)
    BY <1>9, <2>4
  <2> HIDE DEF Stop, Connect, Disconnect
  <2> QED
    BY <1>3, <1>5, <2>4, <2>5, <2>6
<1>17. CASE \E c \in Channels : RunDone(c) \/ Releases(c)
  <2>1. PICK c \in Channels : RunDone(c) \/ Releases(c)
    BY <1>17
  <2>2. /\ UNCHANGED <<viewer, said>> /\ life[c] \in {"announced", "done"}
        /\ \A d \in Channels \ {c} : life'[d] = life[d]
    BY <1>6, <2>1 DEF RunDone, Releases
  <2> HIDE DEF Stop, Connect, Disconnect
  <2> QED
    BY <1>3, <1>5, <2>2
<1>18. CASE (\E c \in Channels : Leaves(c)) \/ DrainStep
  BY <1>10, <1>18 DEF Leaves, DrainStep, BeginDrain, StopAll, AllStopped, ServerDown, Flushed,
                      BudgetRunsOut, DrainStops
<1>19. CASE EventStep
  <2>1. UNCHANGED <<life, viewer, said>>
    BY <1>19 DEF EventStep, TakeBatch, Answered, Missed, BatchRefused, AppliedLate
  <2> QED
    BY <1>10, <2>1
<1> QED
  BY <1>11, <1>12, <1>13, <1>14, <1>15, <1>16, <1>17, <1>18, <1>19
     DEF DrainNext, TuneStep, ViewerStep, WindStep

DrainInv == TunesT /\ EventsT /\ SaidFits /\ OrderFits /\ CopiesFit /\ WaitsFit /\ EndsFit

\* Nothing is raised at first.
LEMMA DrainBegins == DrainInit => DrainInv
<1> SUFFICES ASSUME DrainInit PROVE DrainInv
  OBVIOUS
<1> USE DEF DrainInit
<1>1. TunesT
  BY DEF TunesT, Lives
<1>2. EventsT
  <2>1. Idle \in Batches /\ Idle.try = 0 /\ Len(Idle.events) = 0
    BY DrainAssumption DEF Idle, Batches
  <2>2. IsFiniteSet(orphans)
    BY FS_EmptySet
  <2>3. QueueDepth \in Nat /\ MaxBatch \in Nat /\ MaxMisses \in Nat
    BY DrainAssumption
  <2>4. queue \in Seq(Events) /\ Len(queue) <= QueueDepth
    BY <2>3
  <2>5. post \in Batches /\ Len(post.events) <= MaxBatch /\ post.try = 0 /\ post = Idle
    BY <2>1, <2>3
  <2>6. rows \in Seq(Events) /\ said \in Seq(Events)
    OBVIOUS
  <2>7. misses \in 0..MaxMisses /\ crossed \in BOOLEAN
    <3>1. misses \in 0..MaxMisses
      BY <2>3
    <3>2. crossed \in BOOLEAN
      OBVIOUS
    <3> QED
      BY <3>1, <3>2
  <2> QED
    BY <2>2, <2>4, <2>5, <2>6, <2>7 DEF EventsT
<1>3. \A e : ~In(e, said) /\ ~In(e, queue) /\ ~In(e, post.events) /\ ~In(e, rows)
  BY DEF In, Idle
<1>4. Len(said) = 0 /\ Len(queue) = 0 /\ Len(post.events) = 0 /\ Len(rows) = 0
  BY DEF Idle
<1>5. SaidFits
  BY <1>3, <1>4 DEF SaidFits
<1>6. OrderFits
  BY <1>4 DEF OrderFits, Rising, Below
<1>7. CopiesFit
  <2> SUFFICES ASSUME NEW e \in Events PROVE Copies(e) <= MaxTries
    BY <1>3 DEF CopiesFit
  <2>1. RowsOf(e) = {} /\ OrphansOf(e) = {}
    BY DEF RowsOf, OrphansOf
  <2>2. Copies(e) = 0
    BY <2>1, FS_EmptySet DEF Copies
  <2> QED
    BY <2>2, DrainAssumption
<1>8. WaitsFit
  BY DEF WaitsFit
<1>9. EndsFit
  BY <1>4 DEF EndsFit, OnItsWay
<1> QED
  BY <1>1, <1>2, <1>5, <1>6, <1>7, <1>8, <1>9 DEF DrainInv

\* The induction.
LEMMA DrainInvariant == DrainSpec => []DrainInv
<1>1. DrainInv /\ [DrainNext]_drainVars => DrainInv'
  <2> SUFFICES ASSUME DrainInv, [DrainNext]_drainVars PROVE DrainInv'
    OBVIOUS
  <2> USE DEF DrainInv
  <2>1. CASE DrainNext
    <3>1. EventStep \/ Quiet \/ \E type, c : Emits(type, c) /\ ~In([type |-> type, of |-> c], said)
      BY <2>1, StepKinds
    <3>2. EventsT'
      BY <3>1, EventsTyped
    <3>3. TunesT' /\ SaidFits' /\ WaitsFit' /\ EndsFit'
      BY <2>1, TunesTyped, SaidKept, WaitsKept, EndsKept
    <3>4. OrderFits' /\ CopiesFit'
      BY <3>1, <3>2, OrderKept, CopiesKept
    <3> QED
      BY <3>2, <3>3, <3>4
  <2>2. CASE UNCHANGED drainVars
    <3>1. TunesT' /\ EventsT' /\ SaidFits'
      BY <2>2 DEF drainVars, TunesT, EventsT, SaidFits, In
    <3>2. OrderFits' /\ CopiesFit'
      <4>1. Quiet
        BY <2>2 DEF Quiet, drainVars
      <4> QED
        BY <3>1, <4>1, OrderKept, CopiesKept
    <3>3. WaitsFit' /\ EndsFit'
      BY <2>2 DEF drainVars, WaitsFit, EndsFit, OnItsWay, In
    <3> QED
      BY <3>1, <3>2, <3>3
  <2> QED
    BY <2>1, <2>2
<1> QED
  BY <1>1, DrainBegins, PTL DEF DrainSpec

\* The drain, the tunes, the queue within its depth, a batch within the route's
\* limit and an attempt among those of a post: the types of RelayDrain.
THEOREM DrainTypes == DrainSpec => []DrainTypeOK
<1>1. DrainInv => DrainTypeOK
  <2> SUFFICES ASSUME DrainInv PROVE DrainTypeOK
    OBVIOUS
  <2>1. TunesT /\ EventsT
    BY DEF DrainInv
  <2>2. post.try \in 0..MaxTries /\ \A o \in orphans : o.try \in 1..MaxTries
    <3>1. \A b \in Batches : b.try \in 0..MaxTries
      BY DEF Batches
    <3>2. \A n \in 0..MaxTries : n # 0 => n \in 1..MaxTries
      BY DrainAssumption
    <3> QED
      BY <2>1, <3>1, <3>2 DEF EventsT
  <2>3. {overrun, lost, crossed} \subseteq BOOLEAN /\ closed \in BOOLEAN
    BY <2>1 DEF TunesT, EventsT
  <2> QED
    BY <2>1, <2>2, <2>3 DEF TunesT, EventsT, DrainTypeOK, Lives
<1> QED
  BY <1>1, DrainInvariant, PTL

\* When the process has exited, no wait was cut short and nothing was lost,
\* whatever has begun has its end on record (drain.go:130).
THEOREM DrainTellsEnds == DrainSpec => []DrainTellsTheEnds
<1>1. DrainInv => DrainTellsTheEnds
  <2> SUFFICES ASSUME DrainInv, phase = "exited", ~overrun, ~lost, NEW c \in Channels
               PROVE  /\ Recorded("channel_start", c) => Recorded("channel_stop", c)
                      /\ Recorded("client_connect", c) => Recorded("client_disconnect", c)
    BY DEF DrainTellsTheEnds
  <2>1. \A type : Recorded(type, c) <=> In([type |-> type, of |-> c], rows)
    BY DEF Recorded, In
  <2>2. \A x : In(x, said) => In(x, rows)
    <3>1. queue = <<>> /\ post = Idle
      BY DEF DrainInv, WaitsFit
    <3>2. \A x : ~In(x, queue) /\ ~In(x, post.events)
      BY <3>1 DEF In, Idle
    <3> QED
      BY <3>2 DEF DrainInv, EndsFit, OnItsWay, In
  <2>3. \A x : In(x, rows) => In(x, said)
    BY DEF DrainInv, OrderFits, In
  <2>4. life[c] \in {"idle", "done", "released"} /\ viewer[c] \in {"none", "gone"}
    BY DEF DrainInv, WaitsFit
  <2>5. In([type |-> "channel_start", of |-> c], said)
          => In([type |-> "channel_stop", of |-> c], said)
    BY <2>4 DEF DrainInv, SaidFits, EndsFit
  <2>6. In([type |-> "client_connect", of |-> c], said)
          => In([type |-> "client_disconnect", of |-> c], said)
    BY <2>4 DEF DrainInv, SaidFits, EndsFit
  <2> QED
    BY <2>1, <2>2, <2>3, <2>5, <2>6
<1> QED
  BY <1>1, DrainInvariant, PTL

\* The table has the events in the order in which they were raised and once,
\* until an attempt is given up that Django has received, and then no event more
\* often than a post has attempts (events.go:80).
THEOREM RowsInOrder == DrainSpec => []RowsKeepTheOrder
<1>1. DrainInv => RowsKeepTheOrder
  <2> SUFFICES ASSUME DrainInv, NEW i \in 1..Len(rows)
               PROVE  /\ ~crossed => \A j \in 1..(i - 1) : Place(rows[j]) < Place(rows[i])
                      /\ Cardinality({j \in 1..Len(rows) : rows[j] = rows[i]}) <= MaxTries
    BY DEF RowsKeepTheOrder
  <2>1. ASSUME ~crossed, NEW j \in 1..(i - 1) PROVE Place(rows[j]) < Place(rows[i])
    <3>1. j \in 1..Len(rows) /\ j < i
      BY DEF DrainInv, EventsT
    <3> QED
      BY <2>1, <3>1 DEF DrainInv, OrderFits, Rising
  <2>2. Cardinality({j \in 1..Len(rows) : rows[j] = rows[i]}) <= MaxTries
    <3> DEFINE e == rows[i]
    <3>1. e \in Events
      BY DEF DrainInv, EventsT
    <3>2. Copies(e) <= MaxTries /\ Cardinality(RowsOf(e)) \in Nat
            /\ Cardinality(OrphansOf(e)) \in Nat
      BY <3>1, CopiesFinite DEF DrainInv, CopiesFit
    <3>3. Cardinality(RowsOf(e)) <= MaxTries
      BY <3>2, DrainAssumption DEF Copies
    <3> QED
      BY <3>3 DEF RowsOf
  <2> QED
    BY <2>1, <2>2
<1> QED
  BY <1>1, DrainInvariant, PTL
=============================================================================

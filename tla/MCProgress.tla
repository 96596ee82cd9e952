----------------------------- MODULE MCProgress -----------------------------
(* Three instances in one run: the channel manager's, one channel's run loop *)
(* and one HLS pipeline's.  `subject` says which; the other modules'         *)
(* variables keep their initial values, and their fairness asks for nothing. *)
EXTENDS ChannelManager, RunLoop, HlsPipeline, TLC

CONSTANTS i1, p1, p2, s1, s2, s3, u1, u2,
          Subjects    \* those of this run

VARIABLE subject

OneId      == {i1}
TwoCallers == {p1, p2}
OneCaller  == {p1}
Never      == {FALSE}
AllParts   == {"manager", "run", "pipeline"}
OneTrack   == {"aac"}
\* Two of the three streams have one URL.
TwoUrls == s1 :> u1 @@ s2 :> u2 @@ s3 :> u1

subjectVars == <<vars, runLoopVars, pipelineVars, subject>>

SubjectInit == Init /\ RunInit /\ PipelineInit /\ subject \in Subjects

Loop == subject = "run" /\ UNCHANGED <<vars, pipelineVars, subject>>

\* The pipeline is stopped or loses its ring, not both; a generation after the
\* first is encoded, and no boundary comes into the ring during it.
Pipeline ==
  /\ subject = "pipeline"
  /\ upstream'.open \/ ~upstream'.halted
  /\ course'.later => course'.engine # "copy" /\ ahead' <= ahead
  /\ UNCHANGED <<vars, runLoopVars, subject>>

SubjectNext ==
  \/ subject = "manager" /\ Next /\ UNCHANGED <<runLoopVars, pipelineVars, subject>>
  \/ LoopStep /\ Loop
  \/ SwitchStep /\ Loop
  \/ (Return \/ ReaderTimesOut \/ Advance) /\ Loop
  \/ (CheckFails \/ CheckPasses \/ Halt) /\ Loop
  \/ CourseStep /\ Pipeline
  \/ OutputStep /\ Pipeline
  \/ (ChannelStep \/ DeathLapses) /\ Pipeline

Managing  == subject = "manager"
Packaging == subject = "pipeline"

\* FairSpec's fairness, RunFairness and PipelineFairness.  No fair action of the
\* manager is enabled in its initial state.
SubjectSpec ==
  /\ SubjectInit /\ [][SubjectNext]_subjectVars
  /\ \A p \in Callers : WF_vars(Managing /\ Attaching(p)) /\ WF_vars(Managing /\ DropSession(p))
  /\ \A c \in Chans :
       /\ WF_vars(Managing /\ Winding(c))
       /\ WF_vars(Managing /\ cancelled[c] /\ RunReturns(c))
  /\ WF_runLoopVars(Loop /\ LoopStep) /\ WF_runLoopVars(Loop /\ SwitchStep)
  /\ WF_runLoopVars(Loop /\ Return /\ (cut \/ halted))
  /\ WF_pipelineVars(Packaging /\ CourseStep /\ Pipeline)
  /\ WF_pipelineVars(Packaging /\ MustExit /\ EncoderExits /\ Pipeline)
  /\ WF_pipelineVars(Packaging /\ (encoder = "exited" \/ ~upstream.open) /\ FeedEnds /\ Pipeline)
  /\ WF_pipelineVars(Packaging /\ DeadOutputEnds /\ Pipeline)
  /\ WF_pipelineVars(Packaging /\ encoder = "exited" /\ Publishes /\ Pipeline)

\* Of the run loop that runs: a channel whose attempts all end, and whose
\* monitor stops asking for switches, comes to an end.
DeadUpstreamsEndThisRun == subject = "run" => DeadUpstreamsEndTheRun
=============================================================================

------------------------------- MODULE MCTasks -------------------------------
(* The small instances of six modules of Django in one run: a VOD session, a *)
(* catch-up session, a recording, an account's channel numbers, a source's   *)
(* guide and the streams of two accounts.  `subject` says which; the         *)
(* variables of the other modules keep their initial values.                 *)
EXTENDS VodSession, CatchUp, DvrRecording, Numbering, EpgRefresh, StreamRefresh, TLC

CONSTANTS v1, v2, v3, w1, w2, q1, q2, f1, f2, news, films, g1, g2, x1, x2,
          a1, a2, e1, e2, e3, sport, kids, pu1, pu2, ch1,
          Subjects    \* those of this run

VARIABLE subject

AllSubjects == {"vod", "catchup", "recording", "numbering", "guide", "streams"}

\* Two requests are for one session, the third for another; a profile has room
\* for one stream, another for two.
ThreeRequests == v1 :> w1 @@ v2 :> w1 @@ v3 :> w2
OneAndTwo     == q1 :> 1 @@ q2 :> 2

\* A feed with room for one stream, one for two.
BothFeeds  == <<f1, f2>>
OneThenTwo == f1 :> 1 @@ f2 :> 2

\* Three streams in a compact group with two numbers free, one in another; a
\* scan finds them all, or two of the compact group's.
BothGroups   == <<news, films>>
GroupOfEach  == [s \in 1..4 |-> IF s <= 3 THEN news ELSE films]
AllFixed     == [g \in {news, films} |-> "fixed"]
NoneNumbered == [s \in 1..4 |-> NoNumber]
FirstOf      == news :> 1 @@ films :> 5
LastOf       == news :> 3 @@ films :> 5
FullOrThin   == {{1, 2, 3, 4}, {1, 3}}

\* The provider's first edition lists two channels, its second one of them.
BothThenOne == <<{g1, g2}, {g1}>>

\* Two entries of one account and one of another, whose name is the first's.
\* The row of the first is a channel's.
AccountOfEntry == e1 :> a1 @@ e2 :> a1 @@ e3 :> a2
GroupOfEntry   == e1 :> sport @@ e2 :> sport @@ e3 :> kids
UrlOrName      == "url"  :> (e1 :> 1 @@ e2 :> 2 @@ e3 :> 3) @@
                  "name" :> (e1 :> 1 @@ e2 :> 2 @@ e3 :> 1)
OneLinked      == ch1 :> e1

allVars == <<vodVars, catchUpVars, dvrVars, numberingVars, epgVars, streamVars>>
subjectVars == <<allVars, subject>>

SubjectInit ==
  /\ VodInit /\ CatchUpInit /\ DvrInit /\ NumberingInit /\ EpgInit
  /\ subject \in Subjects
  /\ StreamInit /\ streams[3].entry = e2
  /\ subject # "streams" => streams[1].entry = e1

\* The accounts of the first two are promised up to an event that
\* SlotsFollowSessions or CatchUpSlotsFollowEntry names: the run goes no further.
Vod ==
  /\ subject = "vod" /\ ~muddled
  /\ UNCHANGED <<catchUpVars, dvrVars, numberingVars, epgVars, streamVars, subject>>
Catchup ==
  /\ subject = "catchup" /\ ~strayed
  /\ UNCHANGED <<vodVars, dvrVars, numberingVars, epgVars, streamVars, subject>>
Recording ==
  /\ subject = "recording"
  /\ UNCHANGED <<vodVars, catchUpVars, numberingVars, epgVars, streamVars, subject>>
NumberingOnly ==
  /\ subject = "numbering"
  /\ UNCHANGED <<vodVars, catchUpVars, dvrVars, epgVars, streamVars, subject>>

\* Three of what the guide's bounds allow, or four without a build or trouble;
\* the first parser that is idle takes a task.
Used(s) == s["asks"] + s["mappings"] + s["builds"] + s["troubles"]
Guide ==
  /\ Used(spent') <= IF spent'["builds"] + spent'["troubles"] = 0 THEN 4 ELSE 3
  /\ parser[x2].at = "off" /\ parser'[x2].at # "off" => parser[x1].at # "off"
  /\ UNCHANGED <<vodVars, catchUpVars, dvrVars, numberingVars, streamVars, subject>>

\* Four of what the streams' bounds allow, three with a mishap; the first
\* puller that is idle takes a refresh.
UsedUp(o) == o["pulls"] + o["rehashes"] + o["edits"] + o["mishaps"]
Streams ==
  /\ UsedUp(outlay') <= IF outlay'["mishaps"] = 0 THEN 4 ELSE 3
  /\ pull[pu2].at = "off" /\ pull'[pu2].at # "off" => pull[pu1].at # "off"
  /\ UNCHANGED <<vodVars, catchUpVars, dvrVars, numberingVars, epgVars, subject>>

SubjectNext ==
  \/ \E r \in Requests : Vod /\ RequestEnters(r)
  \/ \E r \in Requests : Vod /\ RequestTakes(r)
  \/ \E r \in Requests : Vod /\ RequestFails(r)
  \/ \E r \in Requests : Vod /\ RequestStreams(r)
  \/ \E g \in Gets : Catchup /\ GetTakes(g)
  \/ \E g \in Gets : Catchup /\ GetOpens(g)
  \/ \E g \in Gets : Catchup /\ GetStreams(g)
  \/ Catchup /\ Lapse
  \/ Recording /\ \E j \in Jobs : JobBegins(j) \/ JobTapes(j) \/ JobFinishes(j)
  \/ Recording /\ RecoveryStep
  \/ Recording /\ FaultStep
  \/ Recording /\ LapseStep
  \/ Recording /\ UserStep
  \/ NumberingOnly /\ SyncStep
  \/ NumberingOnly /\ PackStep
  \/ NumberingOnly /\ EditStep
  \/ subject = "guide" /\ RefreshStep /\ Guide
  \/ subject = "guide" /\ ParseStep /\ Guide
  \/ subject = "guide" /\ IndexStep /\ Guide
  \/ subject = "guide" /\ MappingStep /\ Guide
  \/ subject = "streams" /\ PullStep /\ Streams
  \/ subject = "streams" /\ RehashStep /\ Streams
  \/ subject = "streams" /\ LineupStep /\ Streams

SubjectSpec == SubjectInit /\ [][SubjectNext]_subjectVars
=============================================================================

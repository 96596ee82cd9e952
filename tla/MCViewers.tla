----------------------------- MODULE MCViewers -----------------------------
(* Three modules of the relay in one run: the channel manager, the HLS       *)
(* sessions of one channel with one of three casts, and the drain with the   *)
(* events it flushes, in two sizes.  `subject` says which; the other         *)
(* modules' variables keep their initial values.                             *)
EXTENDS ChannelManager, HlsSessions, RelayDrain, TLC

CONSTANTS i1, i2, p1, p2, v1, v2, g1, g2, c1, c2,
          Subjects    \* those of this run

VARIABLE subject

Always      == {TRUE}
TwoIds      == {i1, i2}
TwoCallers  == {p1, p2}
EitherParty == {"manager", "crowd", "pair", "regular", "drain of one", "drain of two"}
PartySymmetry == Permutations(Callers) \cup Permutations(Viewers)

subjectVars == <<vars, sessVars, drainVars, subject>>

\* crowd: two viewers, no GET, and the channel goes on; pair: two viewers, one
\* GET, one pipeline; regular: one viewer, two GETs.
Cast ==
  /\ subject = "crowd"   => gets' = gets /\ listed' /\ runAt' = "running"
  /\ subject = "pair"    => gets'[g2] = gets[g2] /\ started' <= 1
  /\ subject = "regular" => Cardinality({v \in Viewers : enters'[v].at # "out"}) <= 1

Hls ==
  /\ subject \in {"crowd", "pair", "regular"} /\ Cast
  /\ UNCHANGED <<vars, drainVars, subject>>

\* One channel, with viewers and posts that fail; or two, whose posts are all
\* answered and whose viewers do not stay.
Drain ==
  /\ \/ subject = "drain of one" /\ life'[c2] = "idle"
     \/ subject = "drain of two" /\ misses' = 0 /\ \A c \in Channels : viewer'[c] # "serving"
  /\ UNCHANGED <<vars, sessVars, subject>>

SubjectInit == Init /\ SessInit /\ DrainInit /\ subject \in Subjects

SubjectNext ==
  \/ subject = "manager" /\ Next /\ UNCHANGED <<sessVars, drainVars, subject>>
  \/ (\E v \in Viewers : EntryStep(v)) /\ Hls
  \/ (\E v \in Viewers : DepartureStep(v)) /\ Hls
  \/ (\E g \in Requests : RequestStep(g)) /\ Hls
  \/ (PipelineStep \/ MarkStep \/ ChannelEndStep) /\ Hls
  \/ (TuneStep \/ ViewerStep \/ WindStep) /\ Drain
  \/ EventStep /\ Drain
  \/ DrainStep /\ Drain

SubjectSpec == SubjectInit /\ [][SubjectNext]_subjectVars
============================================================================

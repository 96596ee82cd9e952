------------------------------- MODULE MCRing -------------------------------
(* Two instances in one run: a channel's chunk ring and the segment store of *)
(* an HLS pipeline.  `subject` says which; the other's variables keep their  *)
(* initial values.                                                           *)
EXTENDS RelayRing, HlsStore

CONSTANTS r1, g1

VARIABLE subject

OneReader  == {r1}
LiveAndBehind == {0, 1}
OneGet     == {g1}
FiveSegments == 1..5
OneOrTwo   == {1, 2}

subjectVars == <<vars, storeVars, subject>>

SubjectInit ==
  /\ Init /\ StoreInit /\ subject \in {"ring", "store"}
  /\ subject = "ring" => store.window

\* One thing out of the ordinary in a run: a fault of the disk, a generation
\* after the first, or a segment larger than the others.
Large(st) == Cardinality({s \in Segments : st.seg[s].size > 1})
Store ==
  /\ subject = "store"
  /\ diskFaults' + (gen' - 1) + Large(store') <= 1
  /\ UNCHANGED <<vars, subject>>

SubjectNext ==
  \/ subject = "ring" /\ Next /\ UNCHANGED <<storeVars, subject>>
  \/ SegmenterStep /\ Store
  \/ WriterStep /\ Store
  \/ FetchStep /\ Store

\* FairSpec's fairness: no reader has joined in the ring's initial state.
SubjectSpec ==
  /\ SubjectInit /\ [][SubjectNext]_subjectVars
  /\ \A r \in Readers : WF_vars(ReaderStep(r))
=============================================================================

------------------------ MODULE ChannelManager_proofs ------------------------
(***************************************************************************)
(* What holds of ChannelManager for any callers, ids and bounds.           *)
(***************************************************************************)
EXTENDS ChannelManager, TLAPS

(* The strengthening.  OneStartPerId, NoStrandedUpstream,                  *)
(* ReleasingIsOutstanding and ListedChannelHoldsSlot speak of the map, the *)
(* gates and the runs; they rest on what a listed channel, a caller's      *)
(* channel and a channel that is not born yet can be.                      *)

\* Where a caller is bound to have a channel.
Held == {"spawn", "in", "entry", "added", "checked", "active", "taken", "leave",
         "departing", "leaving", "away", "joining", "rejoined", "doomed", "halted",
         "swept"}

CallersHoldBorn ==
  \A p \in Callers : chan[p] <= born /\ (pc[p] \in Held => chan[p] # 0)

ListedUnderOwnId ==
  \A i \in Ids : entry[i] # 0 => entry[i] <= born /\ of[entry[i]] = i

\* A channel that is not born has no run, no task, no linger and no hook.
UnbornIsFresh ==
  \A c \in Chans : c > born =>
    /\ stage[c] = "none" /\ ~hold[c] /\ hook[c] = "no"
    /\ polls[c] = 0 /\ asks[c] = 0 /\ checks[c] = 0 /\ fresh[c] = 0 /\ stale[c] = 0
    /\ sweeps[c] = 0 /\ cancels[c] = 0

BornHasRun == \A c \in Chans : c <= born => stage[c] # "none"

\* Its caller spawns the run goroutine of the channel it has just published.
SpawnsWhatItMade ==
  \A p \in Callers : pc[p] = "spawn" => stage[chan[p]] = "made" /\ of[chan[p]] = id[p]

RunOver(c) == stage[c] \notin {"none", "made", "run"}

\* A channel that is being stopped is out of the map for good, and one that is
\* listed says when its run is over.
StoppingIsUnlisted ==
  \A c \in Chans : sweeps[c] + cancels[c] > 0 => entry[of[c]] # c

OverIsReported ==
  \A c \in Chans : entry[of[c]] = c /\ RunOver(c) => state[c] \in {"stopped", "error"}

MapInv == ListedUnderOwnId /\ OneStartPerId
BirthInv == CallersHoldBorn /\ UnbornIsFresh /\ BornHasRun /\ SpawnsWhatItMade
RunInv == /\ StoppingIsUnlisted /\ OverIsReported
          /\ NoStrandedUpstream /\ ReleasingIsOutstanding

MapTypes ==
  /\ entry \in [Ids -> Chans \cup {0}]
  /\ gate \in [Ids -> Callers \cup {None}]
  /\ releasing \subseteq Chans
  /\ born \in 0..MaxChans
  /\ of \in [Chans -> Ids]
  /\ tuning \in [Chans -> [delay : BOOLEAN, linger : BOOLEAN]]
  /\ how \in [Chans -> {"no", "ended", "stop", "idle", "reclaim"}]

RunTypes ==
  /\ stage \in [Chans -> Stages] /\ state \in [Chans -> States]
  /\ cancelled \in [Chans -> BOOLEAN]
  /\ clients \in [Chans -> SUBSET Callers]
  /\ refs \in [Chans -> SUBSET Callers] /\ hold \in [Chans -> BOOLEAN]
  /\ line \in [Chans -> Nat]

TaskTypes ==
  /\ polls \in [Chans -> Nat] /\ asks \in [Chans -> Nat] /\ checks \in [Chans -> Nat]
  /\ fresh \in [Chans -> Nat] /\ stale \in [Chans -> Nat]
  /\ sweeps \in [Chans -> Nat] /\ cancels \in [Chans -> Nat]
  /\ hook \in [Chans -> {"no", "sweep", "drop", "over"}]

CallerTypes ==
  /\ pc \in [Callers -> Places]
  /\ id \in [Callers -> Ids]
  /\ chan \in [Callers -> Chans \cup {0}]
  /\ mine \in [Callers -> Nat]
  /\ waits \in [Callers -> Callers \cup {None}]
  /\ tunes \in 0..MaxTunes

\* Most steps move callers among the places where they have a channel, may take
\* a channel out of the map, and move runs that have begun.
Aside == Held \ {"spawn"}

QuietStep ==
  /\ UNCHANGED <<gate, id, chan, of, born>>
  /\ \A q \in Callers : \/ pc'[q] = pc[q]
                        \/ pc[q] \in Aside /\ pc'[q] \in Aside \cup {"out"}
  /\ \A j \in Ids : entry'[j] \in {entry[j], 0}
  /\ \A d \in Chans : \/ stage'[d] = stage[d]
                      \/ {stage[d], stage'[d]} \cap {"none", "made"} = {}

\* What is fresh of a channel that is not born.
FreshParts(d) == <<stage[d], hold[d], hook[d], polls[d], asks[d], checks[d],
                   fresh[d], stale[d], sweeps[d], cancels[d]>>

\* Nothing but c's is disturbed, and c is born.
TouchesOnly(c) ==
  /\ c <= born /\ UNCHANGED born
  /\ \A d \in Chans \ {c} : FreshParts(d)' = FreshParts(d)

\* What RunInv speaks of.
runParts == <<entry, of, stage, state, cancelled, sweeps, cancels, releasing>>

\* A countdown or an undelayed stop that comes to its decision.
Decision(c) == DecideAtOnce(c) \/ CountdownEnds(c) \/ StaleCountdownEnds(c)

IInv == TypeOK /\ MapInv /\ BirthInv /\ RunInv
----------------------------------------------------------------------------
(* Types. *)

\* One more goroutine of a kind.
LEMMA Bumped ==
  ASSUME NEW f \in [Chans -> Nat], NEW c \in Chans
  PROVE  /\ Bump(f, c) \in [Chans -> Nat]
         /\ Bump(f, c)[c] = f[c] + 1
         /\ \A d \in Chans \ {c} : Bump(f, c)[d] = f[d]
BY DEF Bump

\* One less, where there is one.
LEMMA Lessened ==
  ASSUME NEW f \in [Chans -> Nat], NEW c \in Chans, f[c] > 0
  PROVE  /\ Lessen(f, c) \in [Chans -> Nat]
         /\ Lessen(f, c)[c] = f[c] - 1
         /\ \A d \in Chans \ {c} : Lessen(f, c)[d] = f[d]
<1>1. f[c] - 1 \in Nat
  OBVIOUS
<1> QED BY <1>1 DEF Lessen

\* A client joins.
LEMMA AddClientTypes ==
  ASSUME RunTypes, TaskTypes, NEW c \in Chans, NEW p \in Callers, AddClient(c, p)
  PROVE  /\ clients' \in [Chans -> SUBSET Callers]
         /\ fresh' \in [Chans -> Nat] /\ stale' \in [Chans -> Nat]
<1> USE DEF RunTypes, TaskTypes, AddClient
<1>1. stale[c] + fresh[c] \in Nat
  OBVIOUS
<1>2. stale' \in [Chans -> Nat]
  BY <1>1
<1> QED BY <1>2

\* A channel leaves the map.
LEMMA RemoveTypes ==
  ASSUME MapTypes, NEW c \in Chans,
         NEW why \in {"no", "ended", "stop", "idle", "reclaim"}, Remove(c, why)
  PROVE  /\ entry' \in [Ids -> Chans \cup {0}] /\ releasing' \subseteq Chans
         /\ how' \in [Chans -> {"no", "ended", "stop", "idle", "reclaim"}]
BY DEF MapTypes, Remove

\* Every step keeps the types.
LEMMA TypesKept ==
  ASSUME TypeOK, CallersHoldBorn, Next
  PROVE  TypeOK'
<1> USE DEF MapTypes, RunTypes, TaskTypes, CallerTypes,
           Chans, Stages, States, Places, Goes, CallersHoldBorn, Held,
           managerVars, birthVars, runVars, hlsVars, idleTasks, stopTasks,
           askVars, callerVars
<1>1. MapTypes /\ RunTypes /\ TaskTypes /\ CallerTypes
  BY DEF TypeOK
<1> USE <1>1
<1>2. ASSUME NEW p \in Callers, NEW i \in Ids, Tune(p, i)
      PROVE  TypeOK'
  <2>1. MapTypes'
    BY <1>2 DEF Tune
  <2>2. RunTypes'
    BY <1>2 DEF Tune
  <2>3. TaskTypes'
    BY <1>2 DEF Tune
  <2>4. CallerTypes'
    <3>1. tunes' \in 0..MaxTunes
      BY <1>2, ConstantsAssumption DEF Tune, ConstantsAssumption
    <3>2. id' \in [Callers -> Ids]
      BY <1>2 DEF Tune
    <3>3. pc' \in [Callers -> Places]
      BY <1>2 DEF Tune
    <3>4. UNCHANGED <<chan, mine, waits>>
      BY <1>2 DEF Tune
    <3> QED BY <3>1, <3>2, <3>3, <3>4
  <2> QED BY <2>1, <2>2, <2>3, <2>4 DEF TypeOK
<1>3. ASSUME NEW p \in Callers, ClaimJoins(p)
      PROVE  TypeOK'
  <2> DEFINE d == entry[id[p]]
  <2>1. d \in Chans
    BY <1>3 DEF ClaimJoins
  <2>2. AddClient(d, p)
    BY <1>3 DEF ClaimJoins
  <2>3. MapTypes'
    BY <1>3 DEF ClaimJoins
  <2>4. RunTypes'
    BY <1>3, <2>1, <2>2, AddClientTypes DEF ClaimJoins
  <2>5. TaskTypes'
    BY <1>3, <2>1, <2>2, AddClientTypes DEF ClaimJoins
  <2>6. CallerTypes'
    BY <1>3, <2>1 DEF ClaimJoins
  <2> QED BY <2>3, <2>4, <2>5, <2>6 DEF TypeOK
<1>4. ASSUME NEW p \in Callers, ClaimStarts(p)
      PROVE  TypeOK'
  <2> DEFINE d == entry[id[p]]
  <2>1. d # 0 => d \in Chans
    OBVIOUS
  <2>2. MapTypes'
    <3>1. UNCHANGED gate \/ gate' = [gate EXCEPT ![id[p]] = p]
      BY <1>4 DEF ClaimStarts
    <3>2. gate' \in [Ids -> Callers \cup {None}]
      BY <3>1
    <3>3. CASE d = 0
      BY <1>4, <2>1, <3>2, <3>3 DEF ClaimStarts, RingClosed
    <3>4. CASE d # 0
      BY <1>4, <2>1, <3>2, <3>4, RemoveTypes DEF ClaimStarts
    <3> QED BY <3>3, <3>4
  <2>3. RunTypes'
    BY <1>4 DEF ClaimStarts
  <2>4. TaskTypes'
    BY <1>4 DEF ClaimStarts
  <2>5. CallerTypes'
    <3>1. UNCHANGED waits \/ waits' = [waits EXCEPT ![p] = gate[id[p]]]
      BY <1>4 DEF ClaimStarts
    <3>2. waits' \in [Callers -> Callers \cup {None}]
      <4>1. gate[id[p]] \in Callers \cup {None}
        OBVIOUS
      <4>2. CASE UNCHANGED waits
        BY <4>2
      <4>3. CASE waits' = [waits EXCEPT ![p] = gate[id[p]]]
        BY <4>1, <4>3
      <4> QED BY <3>1, <4>2, <4>3
    <3>3. pc' = [pc EXCEPT ![p] = "wait"] \/ pc' = [pc EXCEPT ![p] = "start"]
      BY <1>4 DEF ClaimStarts
    <3>4. pc' \in [Callers -> Places]
      BY <3>3
    <3>5. UNCHANGED <<id, chan, mine, tunes>>
      BY <1>4 DEF ClaimStarts
    <3> QED BY <3>2, <3>4, <3>5
  <2> QED BY <2>2, <2>3, <2>4, <2>5 DEF TypeOK
<1>5. ASSUME NEW p \in Callers, StartFails(p)
      PROVE  TypeOK'
  BY <1>5 DEF TypeOK, Stages, States, StartFails
<1>6. ASSUME NEW p \in Callers, Publish(p)
      PROVE  TypeOK'
  <2>1. PICK d \in Delays, l \in Lingers :
           tuning' = [tuning EXCEPT ![born + 1] = [delay |-> d, linger |-> l]]
    BY <1>6 DEF Publish
  <2>2. tuning' \in [Chans -> [delay : BOOLEAN, linger : BOOLEAN]]
    BY <2>1, ConstantsAssumption DEF ConstantsAssumption
  <2>3. MapTypes'
    <3>1. born' \in 0..MaxChans
      BY <1>6, ConstantsAssumption DEF Publish, Chans, ConstantsAssumption
    <3>2. of' \in [Chans -> Ids]
      BY <1>6 DEF Publish
    <3>3. entry' \in [Ids -> Chans \cup {0}]
      BY <1>6 DEF Publish
    <3>4. UNCHANGED <<gate, releasing, how>>
      BY <1>6 DEF Publish
    <3> QED BY <2>2, <3>1, <3>2, <3>3, <3>4
  <2>4. RunTypes'
    BY <1>6 DEF Publish
  <2>5. TaskTypes'
    BY <1>6 DEF Publish
  <2>6. CallerTypes'
    BY <1>6 DEF Publish
  <2> QED BY <2>3, <2>4, <2>5, <2>6 DEF TypeOK
<1>7. ASSUME NEW p \in Callers, Spawn(p)
      PROVE  TypeOK'
  BY <1>7 DEF TypeOK, Stages, States, Spawn
<1>8. ASSUME NEW p \in Callers, DeleteGate(p)
      PROVE  TypeOK'
  BY <1>8 DEF TypeOK, Stages, States, DeleteGate
<1>9. ASSUME NEW p \in Callers, CloseGate(p)
      PROVE  TypeOK'
  BY <1>9 DEF TypeOK, Stages, States, CloseGate
<1>10. ASSUME NEW p \in Callers, AttachHLS(p)
      PROVE  TypeOK'
  <2> DEFINE d == chan[p]
  <2>1. d \in Chans
    BY <1>10 DEF AttachHLS
  <2>2. CASE OutputsStopped(d)
    BY <1>10, <2>1, <2>2 DEF AttachHLS, TypeOK
  <2>3. CASE ~OutputsStopped(d)
    <3>1. Bump(line, d) \in [Chans -> Nat]
      BY <2>1, Bumped
    <3>2. line' = line \/ line' = Bump(line, d)
      BY <1>10, <2>3 DEF AttachHLS
    <3>3. line' \in [Chans -> Nat]
      BY <3>1, <3>2
    <3>4. mine' = [mine EXCEPT ![p] = line'[d]]
      BY <1>10, <2>3 DEF AttachHLS
    <3>5. mine' \in [Callers -> Nat]
      BY <2>1, <3>3, <3>4
    <3>6. /\ refs' = [refs EXCEPT ![d] = @ \cup {p}]
          /\ hold' = [hold EXCEPT ![d] = FALSE]
      BY <1>10, <2>3 DEF AttachHLS
    <3>7. refs' \in [Chans -> SUBSET Callers] /\ hold' \in [Chans -> BOOLEAN]
      BY <2>1, <3>6
    <3>8. pc' \in [Callers -> Places]
      BY <1>10, <2>3 DEF AttachHLS
    <3> QED BY <1>10, <2>3, <3>3, <3>5, <3>7, <3>8 DEF AttachHLS, TypeOK
  <2> QED BY <2>2, <2>3
<1>11. ASSUME NEW p \in Callers, AddSession(p)
      PROVE  TypeOK'
  BY <1>11 DEF TypeOK, Stages, States, AddSession
<1>12. ASSUME NEW p \in Callers, SeesOpenRing(p)
      PROVE  TypeOK'
  BY <1>12 DEF TypeOK, Stages, States, SeesOpenRing
<1>13. ASSUME NEW p \in Callers, Activate(p)
      PROVE  TypeOK'
  BY <1>13 DEF TypeOK, Stages, States, Activate
<1>14. ASSUME NEW p \in Callers, TakeReleases(p)
      PROVE  TypeOK'
  BY <1>14 DEF TypeOK, Stages, States, TakeReleases
<1>15. ASSUME NEW p \in Callers, ReleaseOutput(p)
      PROVE  TypeOK'
  BY <1>15 DEF TypeOK, Stages, States, ReleaseOutput, OutputsStopped
<1>16. ASSUME NEW p \in Callers, Resume(p)
      PROVE  TypeOK'
  <2> DEFINE d == chan[p]
             Running == entry[of[d]] = d /\ ~RingClosed(d)
  <2>1. d \in Chans
    BY <1>16 DEF Resume
  <2>2. MapTypes'
    BY <1>16 DEF Resume
  <2>3. tunes' \in 0..MaxTunes
    BY <1>16, ConstantsAssumption DEF Resume, ConstantsAssumption
  <2>4. CASE Running
    <3>1. AddClient(d, p) /\ pc' = [pc EXCEPT ![p] = "joining"]
      BY <1>16, <2>4 DEF Resume
    <3>2. RunTypes' /\ TaskTypes'
      BY <1>16, <2>1, <3>1, AddClientTypes DEF Resume
    <3>3. CallerTypes'
      BY <1>16, <2>3, <3>1 DEF Resume
    <3> QED BY <2>2, <3>2, <3>3 DEF TypeOK
  <2>5. CASE ~Running
    <3>1. UNCHANGED <<clients, fresh, stale>> /\ pc' = [pc EXCEPT ![p] = "out"]
      BY <1>16, <2>5 DEF Resume
    <3>2. RunTypes' /\ TaskTypes'
      BY <1>16, <3>1 DEF Resume
    <3>3. CallerTypes'
      BY <1>16, <2>3, <3>1 DEF Resume
    <3> QED BY <2>2, <3>2, <3>3 DEF TypeOK
  <2> QED BY <2>4, <2>5
<1>17. ASSUME NEW p \in Callers, ResumePipeline(p)
      PROVE  TypeOK'
  <2> DEFINE d == chan[p]
  <2>1. d \in Chans
    BY <1>17 DEF ResumePipeline
  <2>2. \/ /\ refs' = [refs EXCEPT ![d] = @ \cup {p}]
           /\ hold' = [hold EXCEPT ![d] = FALSE]
        \/ UNCHANGED <<refs, hold>>
    BY <1>17 DEF ResumePipeline
  <2>3. \E place \in {"rejoined", "taken", "leave"} : Goes(p, place)
    BY <1>17 DEF ResumePipeline
  <2>4. MapTypes'
    BY <1>17 DEF ResumePipeline
  <2>5. RunTypes'
    <3>1. refs' \in [Chans -> SUBSET Callers] /\ hold' \in [Chans -> BOOLEAN]
      <4>1. CASE /\ refs' = [refs EXCEPT ![d] = @ \cup {p}]
                 /\ hold' = [hold EXCEPT ![d] = FALSE]
        BY <2>1, <4>1
      <4>2. CASE UNCHANGED <<refs, hold>>
        BY <4>2
      <4> QED BY <2>2, <4>1, <4>2
    <3> QED BY <1>17, <3>1 DEF ResumePipeline
  <2>6. TaskTypes'
    BY <1>17 DEF ResumePipeline
  <2>7. CallerTypes'
    <3>1. pc' \in [Callers -> Places]
      BY <2>3
    <3> QED BY <1>17, <3>1 DEF ResumePipeline
  <2> QED BY <2>4, <2>5, <2>6, <2>7 DEF TypeOK
<1>18. ASSUME NEW p \in Callers, ResumeCommit(p)
      PROVE  TypeOK'
  BY <1>18 DEF TypeOK, Stages, States, ResumeCommit
<1>19. ASSUME NEW p \in Callers, DropClient(p)
      PROVE  TypeOK'
  <2>1. MapTypes'
    BY <1>19 DEF DropClient
  <2>2. RunTypes'
    BY <1>19 DEF DropClient
  <2>3. TaskTypes'
    <3>1. chan[p] \in Chans
      BY <1>19 DEF DropClient
    <3> QED BY <1>19, <3>1, Bumped DEF DropClient
  <2>4. CallerTypes'
    BY <1>19 DEF DropClient
  <2> QED BY <2>1, <2>2, <2>3, <2>4 DEF TypeOK
<1>20. ASSUME NEW p \in Callers, DropSession(p)
      PROVE  TypeOK'
  BY <1>20 DEF TypeOK, Stages, States, DropSession
<1>21. ASSUME NEW p \in Callers, NEW c \in Chans, ForgetStuck(p, c)
      PROVE  TypeOK'
  <2>1. MapTypes'
    BY <1>21 DEF ForgetStuck
  <2>2. RunTypes'
    BY <1>21 DEF ForgetStuck
  <2>3. TaskTypes'
    BY <1>21 DEF ForgetStuck
  <2>4. CallerTypes'
    BY <1>21 DEF ForgetStuck
  <2> QED BY <2>1, <2>2, <2>3, <2>4 DEF TypeOK
<1>22. ASSUME NEW p \in Callers, NEW c \in Chans, NEW w \in SUBSET Chans, Reclaim(p, c, w)
      PROVE  TypeOK'
  <2>1. MapTypes'
    BY <1>22, RemoveTypes DEF Reclaim
  <2>2. RunTypes'
    BY <1>22 DEF Reclaim
  <2>3. TaskTypes'
    BY <1>22, Bumped DEF Reclaim
  <2>4. CallerTypes'
    BY <1>22 DEF Reclaim, StopSessions
  <2> QED BY <2>1, <2>2, <2>3, <2>4 DEF TypeOK
<1>23. ASSUME NEW c \in Chans, StopWhenIdle(c)
      PROVE  TypeOK'
  <2>1. MapTypes'
    BY <1>23 DEF StopWhenIdle
  <2>2. RunTypes'
    BY <1>23 DEF StopWhenIdle
  <2>3. TaskTypes'
    <3>1. asks' \in [Chans -> Nat]
      BY <1>23, Lessened DEF StopWhenIdle
    <3>2. fresh' \in [Chans -> Nat] /\ checks' \in [Chans -> Nat]
      <4>1. /\ fresh' = fresh \/ fresh' = Bump(fresh, c)
            /\ checks' = checks \/ checks' = Bump(checks, c)
        BY <1>23 DEF StopWhenIdle
      <4>2. Bump(fresh, c) \in [Chans -> Nat] /\ Bump(checks, c) \in [Chans -> Nat]
        BY Bumped
      <4> QED BY <4>1, <4>2
    <3> QED BY <1>23, <3>1, <3>2 DEF StopWhenIdle
  <2>4. CallerTypes'
    BY <1>23 DEF StopWhenIdle
  <2> QED BY <2>1, <2>2, <2>3, <2>4 DEF TypeOK
<1>24. ASSUME NEW c \in Chans, StopIfIdle(c)
      PROVE  TypeOK'
  <2>1. MapTypes'
    BY <1>24 DEF StopIfIdle
  <2>2. RunTypes'
    BY <1>24 DEF StopIfIdle
  <2>3. TaskTypes'
    BY <1>24, Bumped, Lessened DEF StopIfIdle
  <2>4. CallerTypes'
    BY <1>24 DEF StopIfIdle
  <2> QED BY <2>1, <2>2, <2>3, <2>4 DEF TypeOK
<1>25. ASSUME NEW c \in Chans, Decision(c)
      PROVE  TypeOK'
  <2>1. StopIfStillIdle(c)
    BY <1>25 DEF Decision, DecideAtOnce, CountdownEnds, StaleCountdownEnds
  <2>2. MapTypes'
    BY <1>25, <2>1, RemoveTypes DEF StopIfStillIdle
  <2>3. RunTypes'
    BY <2>1 DEF StopIfStillIdle
  <2>4. TaskTypes'
    <3>1. sweeps' \in [Chans -> Nat]
      <4>1. sweeps' = sweeps \/ sweeps' = Bump(sweeps, c)
        BY <2>1 DEF StopIfStillIdle
      <4>2. Bump(sweeps, c) \in [Chans -> Nat]
        BY Bumped
      <4> QED BY <4>1, <4>2
    <3>2. /\ checks' \in [Chans -> Nat]
          /\ fresh' \in [Chans -> Nat] /\ stale' \in [Chans -> Nat]
      <4>1. CASE DecideAtOnce(c)
        BY <4>1, Lessened DEF DecideAtOnce
      <4>2. CASE CountdownEnds(c)
        BY <4>2, Lessened DEF CountdownEnds
      <4>3. CASE StaleCountdownEnds(c)
        BY <4>3, Lessened DEF StaleCountdownEnds
      <4> QED BY <1>25, <4>1, <4>2, <4>3 DEF Decision
    <3> QED BY <2>1, <3>1, <3>2 DEF StopIfStillIdle
  <2>5. CallerTypes'
    BY <2>1 DEF StopIfStillIdle
  <2> QED BY <2>2, <2>3, <2>4, <2>5 DEF TypeOK
<1>26. ASSUME NEW c \in Chans, EndSessions(c)
      PROVE  TypeOK'
  <2>1. MapTypes'
    BY <1>26 DEF EndSessions
  <2>2. RunTypes'
    BY <1>26 DEF EndSessions
  <2>3. TaskTypes'
    BY <1>26, Bumped, Lessened DEF EndSessions
  <2>4. CallerTypes'
    BY <1>26 DEF EndSessions, StopSessions
  <2> QED BY <2>1, <2>2, <2>3, <2>4 DEF TypeOK
<1>27. ASSUME NEW c \in Chans, Cancel(c)
      PROVE  TypeOK'
  <2>1. MapTypes'
    BY <1>27 DEF Cancel
  <2>2. RunTypes'
    BY <1>27 DEF Cancel
  <2>3. TaskTypes'
    BY <1>27, Lessened DEF Cancel
  <2>4. CallerTypes'
    BY <1>27 DEF Cancel
  <2> QED BY <2>1, <2>2, <2>3, <2>4 DEF TypeOK
<1>28. ASSUME NEW c \in Chans, StopOutputs(c)
      PROVE  TypeOK'
  BY <1>28 DEF TypeOK, Stages, States, StopOutputs, RunStep
<1>29. ASSUME NEW c \in Chans, CloseRing(c)
      PROVE  TypeOK'
  BY <1>29 DEF TypeOK, Stages, States, CloseRing, RunStep
<1>30. ASSUME NEW c \in Chans, FireRunEnd(c)
      PROVE  TypeOK'
  BY <1>30 DEF TypeOK, Stages, States, FireRunEnd, RunStep
<1>31. ASSUME NEW c \in Chans, ReleaseSlot(c)
      PROVE  TypeOK'
  BY <1>31 DEF TypeOK, Stages, States, ReleaseSlot, RunStep
<1>32. ASSUME NEW c \in Chans, Released(c)
      PROVE  TypeOK'
  BY <1>32 DEF TypeOK, Stages, States, Released, RunStep
<1>33. ASSUME NEW c \in Chans, HookSweeps(c)
      PROVE  TypeOK'
  BY <1>33 DEF TypeOK, Stages, States, HookSweeps, StopSessions
<1>34. ASSUME NEW c \in Chans, HookAsks(c)
      PROVE  TypeOK'
  <2>1. MapTypes'
    BY <1>34 DEF HookAsks
  <2>2. RunTypes'
    BY <1>34 DEF HookAsks
  <2>3. TaskTypes'
    BY <1>34, Bumped DEF HookAsks
  <2>4. CallerTypes'
    BY <1>34 DEF HookAsks
  <2> QED BY <2>1, <2>2, <2>3, <2>4 DEF TypeOK
<1>35. ASSUME NEW c \in Chans, EndLinger(c)
      PROVE  TypeOK'
  <2>1. MapTypes'
    BY <1>35 DEF EndLinger
  <2>2. RunTypes'
    BY <1>35 DEF EndLinger
  <2>3. TaskTypes'
    BY <1>35, Bumped DEF EndLinger
  <2>4. CallerTypes'
    BY <1>35 DEF EndLinger
  <2> QED BY <2>1, <2>2, <2>3, <2>4 DEF TypeOK
<1>36. ASSUME NEW c \in Chans, Promote(c)
      PROVE  TypeOK'
  BY <1>36 DEF TypeOK, Stages, States, Promote
<1>37. ASSUME NEW c \in Chans, RunReturns(c)
      PROVE  TypeOK'
  BY <1>37 DEF TypeOK, Stages, States, RunReturns, RunStep
<1>38. ASSUME NEW i \in Ids, Stop(i)
      PROVE  TypeOK'
  <2> DEFINE d == entry[i]
  <2>1. d \in Chans /\ Remove(d, "stop") /\ sweeps' = Bump(sweeps, d)
    BY <1>38 DEF Stop
  <2>2. MapTypes'
    BY <1>38, <2>1, RemoveTypes DEF Stop
  <2>3. RunTypes'
    BY <1>38 DEF Stop
  <2>4. TaskTypes'
    <3>1. sweeps' \in [Chans -> Nat]
      BY <2>1, Bumped
    <3> QED BY <1>38, <3>1 DEF Stop
  <2>5. CallerTypes'
    BY <1>38 DEF Stop
  <2> QED BY <2>2, <2>3, <2>4, <2>5 DEF TypeOK
<1> QED
  BY <1>2, <1>3, <1>4, <1>5, <1>6, <1>7, <1>8, <1>9, <1>10, <1>11, <1>12,
     <1>13, <1>14, <1>15, <1>16, <1>17, <1>18, <1>19, <1>20, <1>21, <1>22,
     <1>23, <1>24, <1>25, <1>26, <1>27, <1>28, <1>29, <1>30, <1>31, <1>32,
     <1>33, <1>34, <1>35, <1>36, <1>37, <1>38
  DEF Next, Attaching, Winding, Decision
----------------------------------------------------------------------------
(* Callers, gates and births. *)

\* A quiet step keeps what is known of the map and of the callers.
LEMMA QuietKeeps ==
  ASSUME TypeOK, MapInv, BirthInv, QuietStep
  PROVE  /\ ListedUnderOwnId' /\ OneStartPerId'
         /\ CallersHoldBorn' /\ BornHasRun' /\ SpawnsWhatItMade'
<1> USE DEF QuietStep, MapInv, BirthInv
<1>1. ListedUnderOwnId'
  BY DEF ListedUnderOwnId
<1>2. OneStartPerId'
  <2>1. ASSUME NEW q \in Callers, pc'[q] \in {"start", "spawn", "ungate"}
        PROVE  pc[q] = pc'[q] /\ gate'[id'[q]] = q
    BY <2>1 DEF OneStartPerId, Aside, Held
  <2>2. ASSUME NEW q \in Callers, pc'[q] = "start" PROVE entry'[id'[q]] = 0
    <3>1. pc[q] = "start"
      BY <2>1, <2>2
    <3>2. id[q] \in Ids /\ entry[id[q]] = 0
      BY <3>1 DEF OneStartPerId, TypeOK
    <3> QED BY <3>2
  <2> QED BY <2>1, <2>2 DEF OneStartPerId
<1>3. CallersHoldBorn'
  BY DEF CallersHoldBorn, Aside, Held
<1>4. BornHasRun'
  BY DEF BornHasRun
<1>5. SpawnsWhatItMade'
  <2> SUFFICES ASSUME NEW q \in Callers, pc'[q] = "spawn"
               PROVE  stage'[chan[q]] = "made" /\ of[chan[q]] = id[q]
    BY DEF SpawnsWhatItMade
  <2>1. pc[q] = "spawn"
    BY DEF Aside, Held
  <2>2. chan[q] \in Chans
    BY <2>1 DEF CallersHoldBorn, Held, TypeOK
  <2> QED BY <2>1, <2>2 DEF SpawnsWhatItMade
<1> QED BY <1>1, <1>2, <1>3, <1>4, <1>5

\* A step at a born channel leaves the unborn as they are.
LEMMA UnbornKept ==
  ASSUME UnbornIsFresh, NEW c \in Chans, TypeOK, TouchesOnly(c)
  PROVE  UnbornIsFresh'
<1> SUFFICES ASSUME NEW d \in Chans, d > born'
             PROVE  /\ stage'[d] = "none" /\ ~hold'[d] /\ hook'[d] = "no"
                    /\ polls'[d] = 0 /\ asks'[d] = 0 /\ checks'[d] = 0
                    /\ fresh'[d] = 0 /\ stale'[d] = 0
                    /\ sweeps'[d] = 0 /\ cancels'[d] = 0
  BY DEF UnbornIsFresh
<1>1. d > born /\ d # c
  BY DEF TouchesOnly, TypeOK, Chans
<1> QED BY <1>1 DEF TouchesOnly, FreshParts, UnbornIsFresh

\* A caller that has a channel goes on, or is done.
LEMMA CallerMoves ==
  ASSUME TypeOK, NEW p \in Callers, pc[p] \in Aside, NEW place \in Aside \cup {"out"},
         Goes(p, place), UNCHANGED <<entry, gate, id, chan, of, born, stage>>
  PROVE  QuietStep
BY DEF QuietStep, Goes, TypeOK

\* A channel of which something has begun is born.
LEMMA BusyIsBorn ==
  ASSUME TypeOK, UnbornIsFresh, NEW c \in Chans,
         \/ stage[c] # "none" \/ hold[c] \/ hook[c] # "no"
         \/ polls[c] > 0 \/ asks[c] > 0 \/ checks[c] > 0 \/ fresh[c] > 0 \/ stale[c] > 0
         \/ sweeps[c] > 0 \/ cancels[c] > 0
  PROVE  c <= born
BY DEF TypeOK, UnbornIsFresh, Chans

\* Every step keeps what is known of the map, the gates and the births.
LEMMA MapKept ==
  ASSUME TypeOK, TypeOK', MapInv, BirthInv, Next
  PROVE  MapInv' /\ BirthInv'
<1> USE DEF MapInv, BirthInv,
           managerVars, birthVars, runVars, hlsVars, idleTasks, stopTasks,
           askVars, callerVars
<1>1. ASSUME NEW p \in Callers, NEW i \in Ids, Tune(p, i)
      PROVE  MapInv' /\ BirthInv'
  <2>1. ListedUnderOwnId'
    BY <1>1 DEF Tune, ListedUnderOwnId, Goes, TypeOK
  <2>2. OneStartPerId'
    BY <1>1 DEF Tune, OneStartPerId, Goes, TypeOK
  <2>3. CallersHoldBorn'
    BY <1>1 DEF Tune, CallersHoldBorn, Goes, TypeOK, Held
  <2>4. UnbornIsFresh'
    BY <1>1 DEF Tune, UnbornIsFresh, Goes, TypeOK
  <2>5. BornHasRun'
    BY <1>1 DEF Tune, BornHasRun, Goes, TypeOK
  <2>6. SpawnsWhatItMade'
    BY <1>1 DEF Tune, SpawnsWhatItMade, Goes, TypeOK, CallersHoldBorn, Held
  <2> QED BY <2>1, <2>2, <2>3, <2>4, <2>5, <2>6
<1>2. ASSUME NEW p \in Callers, ClaimJoins(p)
      PROVE  MapInv' /\ BirthInv'
  <2>1. ListedUnderOwnId'
    BY <1>2 DEF ClaimJoins, AddClient, RingClosed, ListedUnderOwnId, Goes, TypeOK
  <2>2. OneStartPerId'
    BY <1>2 DEF ClaimJoins, AddClient, RingClosed, OneStartPerId, Goes, TypeOK
  <2>3. CallersHoldBorn'
    <3>1. entry[id[p]] # 0 /\ entry[id[p]] <= born
      BY <1>2 DEF ClaimJoins, ListedUnderOwnId, TypeOK
    <3>2. /\ chan' = [chan EXCEPT ![p] = entry[id[p]]] /\ pc' = [pc EXCEPT ![p] = "in"]
          /\ UNCHANGED born
      BY <1>2 DEF ClaimJoins, Goes
    <3> QED BY <3>1, <3>2 DEF CallersHoldBorn, TypeOK
  <2>4. UnbornIsFresh'
    <3> DEFINE d == entry[id[p]]
    <3>1. d \in Chans /\ d <= born
      BY <1>2 DEF ClaimJoins, ListedUnderOwnId, TypeOK
    <3>2. TouchesOnly(d)
      BY <1>2, <3>1 DEF ClaimJoins, AddClient, TouchesOnly, FreshParts, TypeOK
    <3> QED BY <3>1, <3>2, UnbornKept
  <2>5. BornHasRun'
    BY <1>2 DEF ClaimJoins, AddClient, RingClosed, BornHasRun, Goes, TypeOK
  <2>6. SpawnsWhatItMade'
    BY <1>2 DEF ClaimJoins, AddClient, RingClosed, SpawnsWhatItMade, Goes, TypeOK,
                CallersHoldBorn, Held
  <2> QED BY <2>1, <2>2, <2>3, <2>4, <2>5, <2>6
<1>3. ASSUME NEW p \in Callers, ClaimStarts(p)
      PROVE  MapInv' /\ BirthInv'
  <2>1. ListedUnderOwnId'
    BY <1>3 DEF ClaimStarts, Remove, RingClosed, ListedUnderOwnId, Goes, TypeOK
  <2>2. OneStartPerId'
    <3>1. \A j \in Ids : entry'[j] \in {entry[j], 0}
      BY <1>3 DEF ClaimStarts, Remove, TypeOK
    <3>2. CASE gate[id[p]] # None
      <4>1. pc' = [pc EXCEPT ![p] = "wait"] /\ UNCHANGED <<gate, id>>
        BY <1>3, <3>2 DEF ClaimStarts, Goes
      <4> QED BY <3>1, <4>1 DEF OneStartPerId, TypeOK
    <3>3. CASE gate[id[p]] = None
      <4>1. /\ pc' = [pc EXCEPT ![p] = "start"] /\ UNCHANGED id
            /\ gate' = [gate EXCEPT ![id[p]] = p]
        BY <1>3, <3>3 DEF ClaimStarts, Goes
      <4>2. entry'[id[p]] = 0
        BY <1>3 DEF ClaimStarts, Remove, ListedUnderOwnId, TypeOK
      <4>3. \A q \in Callers \ {p} :
              pc[q] \in {"start", "spawn", "ungate"} => id[q] # id[p]
        BY <3>3, ConstantsAssumption DEF OneStartPerId, ConstantsAssumption
      <4> QED BY <3>1, <4>1, <4>2, <4>3 DEF OneStartPerId, TypeOK
    <3> QED BY <3>2, <3>3
  <2>3. CallersHoldBorn'
    BY <1>3 DEF ClaimStarts, Remove, RingClosed, CallersHoldBorn, Goes, TypeOK, Held
  <2>4. UnbornIsFresh'
    BY <1>3 DEF ClaimStarts, Remove, RingClosed, UnbornIsFresh, Goes, TypeOK
  <2>5. BornHasRun'
    BY <1>3 DEF ClaimStarts, Remove, RingClosed, BornHasRun, Goes, TypeOK
  <2>6. SpawnsWhatItMade'
    BY <1>3 DEF ClaimStarts, Remove, RingClosed, SpawnsWhatItMade, Goes, TypeOK,
                CallersHoldBorn, Held
  <2> QED BY <2>1, <2>2, <2>3, <2>4, <2>5, <2>6
<1>4. ASSUME NEW p \in Callers, StartFails(p)
      PROVE  MapInv' /\ BirthInv'
  <2>1. ListedUnderOwnId'
    BY <1>4 DEF StartFails, ListedUnderOwnId, Goes, TypeOK
  <2>2. OneStartPerId'
    BY <1>4 DEF StartFails, OneStartPerId, Goes, TypeOK
  <2>3. CallersHoldBorn'
    BY <1>4 DEF StartFails, CallersHoldBorn, Goes, TypeOK, Held
  <2>4. UnbornIsFresh'
    BY <1>4 DEF StartFails, UnbornIsFresh, Goes, TypeOK
  <2>5. BornHasRun'
    BY <1>4 DEF StartFails, BornHasRun, Goes, TypeOK
  <2>6. SpawnsWhatItMade'
    BY <1>4 DEF StartFails, SpawnsWhatItMade, Goes, TypeOK, CallersHoldBorn, Held
  <2> QED BY <2>1, <2>2, <2>3, <2>4, <2>5, <2>6
<1>5. ASSUME NEW p \in Callers, Publish(p)
      PROVE  MapInv' /\ BirthInv'
  <2>1. ListedUnderOwnId'
    BY <1>5 DEF Publish, ListedUnderOwnId, Goes, TypeOK, ConstantsAssumption, Chans
  <2>2. OneStartPerId'
    BY <1>5 DEF Publish, OneStartPerId, Goes, TypeOK, ConstantsAssumption, Chans
  <2>3. CallersHoldBorn'
    BY <1>5 DEF Publish, CallersHoldBorn, Goes, TypeOK, Held, ConstantsAssumption,
                Chans
  <2>4. UnbornIsFresh'
    BY <1>5 DEF Publish, UnbornIsFresh, Goes, TypeOK, ConstantsAssumption, Chans
  <2>5. BornHasRun'
    BY <1>5 DEF Publish, BornHasRun, Goes, TypeOK, ConstantsAssumption, Chans
  <2>6. SpawnsWhatItMade'
    BY <1>5 DEF Publish, SpawnsWhatItMade, Goes, TypeOK, CallersHoldBorn, Held,
                ConstantsAssumption, Chans
  <2> QED BY <2>1, <2>2, <2>3, <2>4, <2>5, <2>6
<1>6. ASSUME NEW p \in Callers, Spawn(p)
      PROVE  MapInv' /\ BirthInv'
  <2>1. chan[p] \in Chans /\ chan[p] <= born
    BY <1>6 DEF Spawn, CallersHoldBorn, Held, TypeOK
  <2>2. ListedUnderOwnId'
    BY <1>6 DEF Spawn, ListedUnderOwnId, Goes, TypeOK
  <2>3. OneStartPerId'
    BY <1>6 DEF Spawn, OneStartPerId, Goes, TypeOK
  <2>4. CallersHoldBorn'
    BY <1>6 DEF Spawn, CallersHoldBorn, Goes, TypeOK, Held
  <2>5. UnbornIsFresh'
    <3>1. TouchesOnly(chan[p])
      BY <2>1, <1>6 DEF Spawn, TouchesOnly, FreshParts, TypeOK
    <3> QED BY <2>1, <3>1, UnbornKept
  <2>6. BornHasRun'
    BY <1>6 DEF Spawn, BornHasRun, Goes, TypeOK
  <2>7. SpawnsWhatItMade'
    <3> SUFFICES ASSUME NEW q \in Callers, pc'[q] = "spawn"
                 PROVE  stage'[chan[q]] = "made" /\ of[chan[q]] = id[q]
      BY <1>6 DEF SpawnsWhatItMade, Spawn
    <3>1. q # p /\ pc[q] = "spawn"
      BY <1>6 DEF Spawn, Goes, TypeOK
    <3>2. stage[chan[q]] = "made" /\ of[chan[q]] = id[q] /\ of[chan[p]] = id[p]
      BY <1>6, <3>1 DEF SpawnsWhatItMade, Spawn
    <3>3. id[q] # id[p]
      BY <1>6, <3>1 DEF OneStartPerId, Spawn
    <3>4. chan[q] \in Chans /\ chan[q] # chan[p]
      BY <3>1, <3>2, <3>3 DEF CallersHoldBorn, Held, TypeOK
    <3> QED BY <1>6, <3>2, <3>4 DEF Spawn, TypeOK
  <2> QED BY <2>2, <2>3, <2>4, <2>5, <2>6, <2>7
<1>7. ASSUME NEW p \in Callers, DeleteGate(p)
      PROVE  MapInv' /\ BirthInv'
  <2>1. ListedUnderOwnId'
    BY <1>7 DEF DeleteGate, ListedUnderOwnId, Goes, TypeOK
  <2>2. OneStartPerId'
    BY <1>7 DEF DeleteGate, OneStartPerId, Goes, TypeOK
  <2>3. CallersHoldBorn'
    BY <1>7 DEF DeleteGate, CallersHoldBorn, Goes, TypeOK, Held
  <2>4. UnbornIsFresh'
    BY <1>7 DEF DeleteGate, UnbornIsFresh, Goes, TypeOK
  <2>5. BornHasRun'
    BY <1>7 DEF DeleteGate, BornHasRun, Goes, TypeOK
  <2>6. SpawnsWhatItMade'
    BY <1>7 DEF DeleteGate, SpawnsWhatItMade, Goes, TypeOK, CallersHoldBorn, Held
  <2> QED BY <2>1, <2>2, <2>3, <2>4, <2>5, <2>6
<1>8. ASSUME NEW p \in Callers, CloseGate(p)
      PROVE  MapInv' /\ BirthInv'
  <2>1. ListedUnderOwnId'
    BY <1>8 DEF CloseGate, ListedUnderOwnId, Goes, TypeOK
  <2>2. OneStartPerId'
    BY <1>8 DEF CloseGate, OneStartPerId, Goes, TypeOK
  <2>3. CallersHoldBorn'
    BY <1>8 DEF CloseGate, CallersHoldBorn, Goes, TypeOK, Held
  <2>4. UnbornIsFresh'
    BY <1>8 DEF CloseGate, UnbornIsFresh, Goes, TypeOK
  <2>5. BornHasRun'
    BY <1>8 DEF CloseGate, BornHasRun, Goes, TypeOK
  <2>6. SpawnsWhatItMade'
    BY <1>8 DEF CloseGate, SpawnsWhatItMade, Goes, TypeOK, CallersHoldBorn, Held
  <2> QED BY <2>1, <2>2, <2>3, <2>4, <2>5, <2>6
<1>9. ASSUME NEW p \in Callers, AttachHLS(p)
      PROVE  MapInv' /\ BirthInv'
  <2>1. PICK place \in {"leave", "entry"} : Goes(p, place)
    BY <1>9 DEF AttachHLS
  <2>2. QuietStep
    <3>1. pc[p] \in Aside
      BY <1>9 DEF AttachHLS, Aside, Held
    <3>2. place \in Aside \cup {"out"}
      BY <2>1 DEF Aside, Held
    <3> QED BY <1>9, <2>1, <3>1, <3>2, CallerMoves DEF AttachHLS
  <2>3. UnbornIsFresh'
    <3> DEFINE d == chan[p]
    <3>1. d \in Chans /\ d <= born
      BY <1>9 DEF CallersHoldBorn, Held, TypeOK, AttachHLS
    <3>2. UNCHANGED hold \/ hold' = [hold EXCEPT ![d] = FALSE]
      BY <1>9 DEF AttachHLS
    <3>3. \A e \in Chans \ { d } : hold'[e] = hold[e]
      BY <3>2 DEF TypeOK
    <3>4. TouchesOnly(d)
      BY <1>9, <3>1, <3>3 DEF AttachHLS, TouchesOnly, FreshParts
    <3> QED BY <3>1, <3>4, UnbornKept
  <2> QED BY <2>2, <2>3, QuietKeeps
<1>10. ASSUME NEW p \in Callers, AddSession(p)
      PROVE  MapInv' /\ BirthInv'
  <2>1. PICK place \in {"added"} : Goes(p, place)
    BY <1>10 DEF AddSession
  <2>2. QuietStep
    <3>1. pc[p] \in Aside
      BY <1>10 DEF AddSession, Aside, Held
    <3>2. place \in Aside \cup {"out"}
      BY <2>1 DEF Aside, Held
    <3> QED BY <1>10, <2>1, <3>1, <3>2, CallerMoves DEF AddSession
  <2>3. UnbornIsFresh'
    BY <1>10 DEF UnbornIsFresh, AddSession
  <2> QED BY <2>2, <2>3, QuietKeeps
<1>11. ASSUME NEW p \in Callers, SeesOpenRing(p)
      PROVE  MapInv' /\ BirthInv'
  <2>1. PICK place \in {"checked"} : Goes(p, place)
    BY <1>11 DEF SeesOpenRing
  <2>2. QuietStep
    <3>1. pc[p] \in Aside
      BY <1>11 DEF SeesOpenRing, Aside, Held
    <3>2. place \in Aside \cup {"out"}
      BY <2>1 DEF Aside, Held
    <3> QED BY <1>11, <2>1, <3>1, <3>2, CallerMoves DEF SeesOpenRing
  <2>3. UnbornIsFresh'
    BY <1>11 DEF UnbornIsFresh, SeesOpenRing
  <2> QED BY <2>2, <2>3, QuietKeeps
<1>12. ASSUME NEW p \in Callers, Activate(p)
      PROVE  MapInv' /\ BirthInv'
  <2>1. PICK place \in {"active"} : Goes(p, place)
    BY <1>12 DEF Activate
  <2>2. QuietStep
    <3>1. pc[p] \in Aside
      BY <1>12 DEF Activate, Aside, Held
    <3>2. place \in Aside \cup {"out"}
      BY <2>1 DEF Aside, Held
    <3> QED BY <1>12, <2>1, <3>1, <3>2, CallerMoves DEF Activate
  <2>3. UnbornIsFresh'
    BY <1>12 DEF UnbornIsFresh, Activate
  <2> QED BY <2>2, <2>3, QuietKeeps
<1>13. ASSUME NEW p \in Callers, TakeReleases(p)
      PROVE  MapInv' /\ BirthInv'
  <2>1. PICK place \in {"taken", "departing"} : Goes(p, place)
    BY <1>13 DEF TakeReleases
  <2>2. QuietStep
    <3>1. pc[p] \in Aside
      BY <1>13 DEF TakeReleases, Aside, Held
    <3>2. place \in Aside \cup {"out"}
      BY <2>1 DEF Aside, Held
    <3> QED BY <1>13, <2>1, <3>1, <3>2, CallerMoves DEF TakeReleases
  <2>3. UnbornIsFresh'
    BY <1>13 DEF UnbornIsFresh, TakeReleases
  <2> QED BY <2>2, <2>3, QuietKeeps
<1>14. ASSUME NEW p \in Callers, ReleaseOutput(p)
      PROVE  MapInv' /\ BirthInv'
  <2>1. PICK place \in {"leave", "leaving"} : Goes(p, place)
    BY <1>14 DEF ReleaseOutput
  <2>2. QuietStep
    <3>1. pc[p] \in Aside
      BY <1>14 DEF ReleaseOutput, Aside, Held
    <3>2. place \in Aside \cup {"out"}
      BY <2>1 DEF Aside, Held
    <3> QED BY <1>14, <2>1, <3>1, <3>2, CallerMoves DEF ReleaseOutput
  <2>3. UnbornIsFresh'
    <3> DEFINE d == chan[p]
    <3>1. d \in Chans /\ d <= born
      BY <1>14 DEF CallersHoldBorn, Held, TypeOK, ReleaseOutput
    <3>2. UNCHANGED hold \/ hold' = [hold EXCEPT ![d] = TRUE]
      BY <1>14 DEF ReleaseOutput
    <3>3. \A e \in Chans \ { d } : hold'[e] = hold[e]
      BY <3>2 DEF TypeOK
    <3>4. TouchesOnly(d)
      BY <1>14, <3>1, <3>3 DEF ReleaseOutput, TouchesOnly, FreshParts
    <3> QED BY <3>1, <3>4, UnbornKept
  <2> QED BY <2>2, <2>3, QuietKeeps
<1>15. ASSUME NEW p \in Callers, Resume(p)
      PROVE  MapInv' /\ BirthInv'
  <2>1. PICK place \in {"joining", "out"} : Goes(p, place)
    BY <1>15 DEF Resume
  <2>2. QuietStep
    <3>1. pc[p] \in Aside
      BY <1>15 DEF Resume, Aside, Held
    <3>2. place \in Aside \cup {"out"}
      BY <2>1 DEF Aside, Held
    <3> QED BY <1>15, <2>1, <3>1, <3>2, CallerMoves DEF Resume
  <2>3. UnbornIsFresh'
    <3> DEFINE d == chan[p]
    <3>1. d \in Chans /\ d <= born
      BY <1>15 DEF CallersHoldBorn, Held, TypeOK, Resume
    <3>2. UNCHANGED <<fresh, stale>> \/ AddClient(d, p)
      BY <1>15 DEF Resume
    <3>3. \A e \in Chans \ { d } : fresh'[e] = fresh[e] /\ stale'[e] = stale[e]
      BY <3>2 DEF TypeOK, AddClient
    <3>4. TouchesOnly(d)
      BY <1>15, <3>1, <3>3 DEF Resume, TouchesOnly, FreshParts
    <3> QED BY <3>1, <3>4, UnbornKept
  <2> QED BY <2>2, <2>3, QuietKeeps
<1>16. ASSUME NEW p \in Callers, ResumePipeline(p)
      PROVE  MapInv' /\ BirthInv'
  <2>1. PICK place \in {"rejoined", "taken", "leave"} : Goes(p, place)
    BY <1>16 DEF ResumePipeline
  <2>2. QuietStep
    <3>1. pc[p] \in Aside
      BY <1>16 DEF ResumePipeline, Aside, Held
    <3>2. place \in Aside \cup {"out"}
      BY <2>1 DEF Aside, Held
    <3> QED BY <1>16, <2>1, <3>1, <3>2, CallerMoves DEF ResumePipeline
  <2>3. UnbornIsFresh'
    <3> DEFINE d == chan[p]
    <3>1. d \in Chans /\ d <= born
      BY <1>16 DEF CallersHoldBorn, Held, TypeOK, ResumePipeline
    <3>2. UNCHANGED hold \/ hold' = [hold EXCEPT ![d] = FALSE]
      BY <1>16 DEF ResumePipeline
    <3>3. \A e \in Chans \ { d } : hold'[e] = hold[e]
      BY <3>2 DEF TypeOK
    <3>4. TouchesOnly(d)
      BY <1>16, <3>1, <3>3 DEF ResumePipeline, TouchesOnly, FreshParts
    <3> QED BY <3>1, <3>4, UnbornKept
  <2> QED BY <2>2, <2>3, QuietKeeps
<1>17. ASSUME NEW p \in Callers, ResumeCommit(p)
      PROVE  MapInv' /\ BirthInv'
  <2>1. PICK place \in {"active", "taken"} : Goes(p, place)
    BY <1>17 DEF ResumeCommit
  <2>2. QuietStep
    <3>1. pc[p] \in Aside
      BY <1>17 DEF ResumeCommit, Aside, Held
    <3>2. place \in Aside \cup {"out"}
      BY <2>1 DEF Aside, Held
    <3> QED BY <1>17, <2>1, <3>1, <3>2, CallerMoves DEF ResumeCommit
  <2>3. UnbornIsFresh'
    BY <1>17 DEF UnbornIsFresh, ResumeCommit
  <2> QED BY <2>2, <2>3, QuietKeeps
<1>18. ASSUME NEW p \in Callers, DropClient(p)
      PROVE  MapInv' /\ BirthInv'
  <2>1. PICK place \in {"away", "out"} : Goes(p, place)
    BY <1>18 DEF DropClient
  <2>2. QuietStep
    <3>1. pc[p] \in Aside
      BY <1>18 DEF DropClient, Aside, Held
    <3>2. place \in Aside \cup {"out"}
      BY <2>1 DEF Aside, Held
    <3> QED BY <1>18, <2>1, <3>1, <3>2, CallerMoves DEF DropClient
  <2>3. UnbornIsFresh'
    <3> DEFINE d == chan[p]
    <3>1. d \in Chans /\ d <= born
      BY <1>18 DEF CallersHoldBorn, Held, TypeOK, DropClient
    <3>2. UNCHANGED asks \/ asks' = Bump(asks, d)
      BY <1>18 DEF DropClient
    <3>3. \A e \in Chans \ { d } : asks'[e] = asks[e]
      BY <3>2 DEF TypeOK, Bump
    <3>4. TouchesOnly(d)
      BY <1>18, <3>1, <3>3 DEF DropClient, TouchesOnly, FreshParts
    <3> QED BY <3>1, <3>4, UnbornKept
  <2> QED BY <2>2, <2>3, QuietKeeps
<1>19. ASSUME NEW p \in Callers, DropSession(p)
      PROVE  MapInv' /\ BirthInv'
  <2>1. PICK place \in {"out"} : Goes(p, place)
    BY <1>19 DEF DropSession
  <2>2. QuietStep
    <3>1. pc[p] \in Aside
      BY <1>19 DEF DropSession, Aside, Held
    <3>2. place \in Aside \cup {"out"}
      BY <2>1 DEF Aside, Held
    <3> QED BY <1>19, <2>1, <3>1, <3>2, CallerMoves DEF DropSession
  <2>3. UnbornIsFresh'
    BY <1>19 DEF UnbornIsFresh, DropSession
  <2> QED BY <2>2, <2>3, QuietKeeps
<1>20. ASSUME NEW p \in Callers, NEW c \in Chans, ForgetStuck(p, c)
      PROVE  MapInv' /\ BirthInv'
  <2>1. QuietStep
    BY <1>20 DEF ForgetStuck, QuietStep, Aside, Held
  <2>2. UnbornIsFresh'
    BY <1>20 DEF UnbornIsFresh, ForgetStuck
  <2> QED BY <2>1, <2>2, QuietKeeps
<1>21. ASSUME NEW p \in Callers, NEW c \in Chans, NEW w \in SUBSET Chans, Reclaim(p, c, w)
      PROVE  MapInv' /\ BirthInv'
  <2>1. QuietStep
    BY <1>21 DEF Reclaim, Remove, StopSessions, RingClosed, QuietStep, Aside, Held,
                 Goes, TypeOK
  <2>2. c \in Chans /\ c <= born
    BY <1>21 DEF Reclaim, ListedUnderOwnId, TypeOK
  <2>3. TouchesOnly(c)
    BY <1>21, <2>2 DEF Reclaim, Remove, StopSessions, RingClosed, TouchesOnly,
                       FreshParts, Bump, Lessen, TypeOK
  <2> QED BY <2>1, <2>2, <2>3, UnbornKept, QuietKeeps
<1>22. ASSUME NEW c \in Chans, StopWhenIdle(c)
      PROVE  MapInv' /\ BirthInv'
  <2>1. QuietStep
    BY <1>22 DEF StopWhenIdle, QuietStep, Aside, Held, Goes, TypeOK
  <2>2. c \in Chans /\ c <= born
    BY <1>22, BusyIsBorn DEF StopWhenIdle
  <2>3. \A e \in Chans \ {c} : fresh'[e] = fresh[e] /\ checks'[e] = checks[e]
    BY <1>22 DEF StopWhenIdle, Bump, TypeOK
  <2>4. TouchesOnly(c)
    BY <1>22, <2>2, <2>3 DEF StopWhenIdle, TouchesOnly, FreshParts, Bump, Lessen,
                             TypeOK
  <2> QED BY <2>1, <2>2, <2>4, UnbornKept, QuietKeeps
<1>23. ASSUME NEW c \in Chans, StopIfIdle(c)
      PROVE  MapInv' /\ BirthInv'
  <2>1. QuietStep
    BY <1>23 DEF StopIfIdle, QuietStep, Aside, Held, Goes, TypeOK
  <2>2. c \in Chans /\ c <= born
    BY <1>23, BusyIsBorn DEF StopIfIdle
  <2>3. TouchesOnly(c)
    BY <1>23, <2>2 DEF StopIfIdle, TouchesOnly, FreshParts, Bump, Lessen, TypeOK
  <2> QED BY <2>1, <2>2, <2>3, UnbornKept, QuietKeeps
<1>24. ASSUME NEW c \in Chans, Decision(c)
      PROVE  MapInv' /\ BirthInv'
  <2>1. StopIfStillIdle(c) /\ c <= born
    BY <1>24, BusyIsBorn DEF Decision, DecideAtOnce, CountdownEnds,
                             StaleCountdownEnds
  <2>2. \A j \in Ids : entry'[j] \in {entry[j], 0}
    BY <2>1 DEF StopIfStillIdle, Remove, TypeOK
  <2>3. QuietStep
    BY <2>1, <2>2 DEF StopIfStillIdle, QuietStep
  <2>4. \A e \in Chans \ {c} : /\ checks'[e] = checks[e] /\ fresh'[e] = fresh[e]
                              /\ stale'[e] = stale[e]
    <3>1. CASE DecideAtOnce(c)
      BY <3>1 DEF DecideAtOnce, Lessen, TypeOK
    <3>2. CASE CountdownEnds(c)
      BY <3>2 DEF CountdownEnds, Lessen, TypeOK
    <3>3. CASE StaleCountdownEnds(c)
      BY <3>3 DEF StaleCountdownEnds, Lessen, TypeOK
    <3> QED BY <1>24, <3>1, <3>2, <3>3 DEF Decision
  <2>5. \A e \in Chans \ {c} : sweeps'[e] = sweeps[e]
    BY <2>1 DEF StopIfStillIdle, Bump, TypeOK
  <2>6. TouchesOnly(c)
    BY <2>1, <2>4, <2>5 DEF StopIfStillIdle, TouchesOnly, FreshParts
  <2> QED BY <2>3, <2>6, UnbornKept, QuietKeeps
<1>25. ASSUME NEW c \in Chans, EndSessions(c)
      PROVE  MapInv' /\ BirthInv'
  <2>1. QuietStep
    BY <1>25 DEF EndSessions, StopSessions, QuietStep, Aside, Held, Goes, TypeOK
  <2>2. c \in Chans /\ c <= born
    BY <1>25, BusyIsBorn DEF EndSessions, StopSessions
  <2>3. TouchesOnly(c)
    BY <1>25, <2>2 DEF EndSessions, StopSessions, TouchesOnly, FreshParts, Bump,
                       Lessen, TypeOK
  <2> QED BY <2>1, <2>2, <2>3, UnbornKept, QuietKeeps
<1>26. ASSUME NEW c \in Chans, Cancel(c)
      PROVE  MapInv' /\ BirthInv'
  <2>1. QuietStep
    BY <1>26 DEF Cancel, QuietStep, Aside, Held, Goes, TypeOK
  <2>2. c \in Chans /\ c <= born
    BY <1>26, BusyIsBorn DEF Cancel
  <2>3. TouchesOnly(c)
    BY <1>26, <2>2 DEF Cancel, TouchesOnly, FreshParts, Bump, Lessen, TypeOK
  <2> QED BY <2>1, <2>2, <2>3, UnbornKept, QuietKeeps
<1>27. ASSUME NEW c \in Chans, StopOutputs(c)
      PROVE  MapInv' /\ BirthInv'
  <2>1. QuietStep
    BY <1>27 DEF StopOutputs, RunStep, QuietStep, Aside, Held, Goes, TypeOK
  <2>2. c \in Chans /\ c <= born
    BY <1>27, BusyIsBorn DEF StopOutputs, RunStep
  <2>3. TouchesOnly(c)
    BY <1>27, <2>2 DEF StopOutputs, RunStep, TouchesOnly, FreshParts, Bump, Lessen,
                       TypeOK
  <2> QED BY <2>1, <2>2, <2>3, UnbornKept, QuietKeeps
<1>28. ASSUME NEW c \in Chans, CloseRing(c)
      PROVE  MapInv' /\ BirthInv'
  <2>1. QuietStep
    BY <1>28 DEF CloseRing, RunStep, QuietStep, Aside, Held, Goes, TypeOK
  <2>2. c \in Chans /\ c <= born
    BY <1>28, BusyIsBorn DEF CloseRing, RunStep
  <2>3. TouchesOnly(c)
    BY <1>28, <2>2 DEF CloseRing, RunStep, TouchesOnly, FreshParts, Bump, Lessen,
                       TypeOK
  <2> QED BY <2>1, <2>2, <2>3, UnbornKept, QuietKeeps
<1>29. ASSUME NEW c \in Chans, FireRunEnd(c)
      PROVE  MapInv' /\ BirthInv'
  <2>1. QuietStep
    BY <1>29 DEF FireRunEnd, RunStep, QuietStep, Aside, Held, Goes, TypeOK
  <2>2. c \in Chans /\ c <= born
    BY <1>29, BusyIsBorn DEF FireRunEnd, RunStep
  <2>3. TouchesOnly(c)
    BY <1>29, <2>2 DEF FireRunEnd, RunStep, TouchesOnly, FreshParts, Bump, Lessen,
                       TypeOK
  <2> QED BY <2>1, <2>2, <2>3, UnbornKept, QuietKeeps
<1>30. ASSUME NEW c \in Chans, ReleaseSlot(c)
      PROVE  MapInv' /\ BirthInv'
  <2>1. QuietStep
    BY <1>30 DEF ReleaseSlot, RunStep, QuietStep, Aside, Held, Goes, TypeOK
  <2>2. c \in Chans /\ c <= born
    BY <1>30, BusyIsBorn DEF ReleaseSlot, RunStep
  <2>3. TouchesOnly(c)
    BY <1>30, <2>2 DEF ReleaseSlot, RunStep, TouchesOnly, FreshParts, Bump, Lessen,
                       TypeOK
  <2> QED BY <2>1, <2>2, <2>3, UnbornKept, QuietKeeps
<1>31. ASSUME NEW c \in Chans, Released(c)
      PROVE  MapInv' /\ BirthInv'
  <2>1. QuietStep
    BY <1>31 DEF Released, RunStep, QuietStep, Aside, Held, Goes, TypeOK
  <2>2. c \in Chans /\ c <= born
    BY <1>31, BusyIsBorn DEF Released, RunStep
  <2>3. TouchesOnly(c)
    BY <1>31, <2>2 DEF Released, RunStep, TouchesOnly, FreshParts, Bump, Lessen,
                       TypeOK
  <2> QED BY <2>1, <2>2, <2>3, UnbornKept, QuietKeeps
<1>32. ASSUME NEW c \in Chans, HookSweeps(c)
      PROVE  MapInv' /\ BirthInv'
  <2>1. QuietStep
    BY <1>32 DEF HookSweeps, StopSessions, QuietStep, Aside, Held, Goes, TypeOK
  <2>2. c \in Chans /\ c <= born
    BY <1>32, BusyIsBorn DEF HookSweeps, StopSessions
  <2>3. TouchesOnly(c)
    BY <1>32, <2>2 DEF HookSweeps, StopSessions, TouchesOnly, FreshParts, Bump,
                       Lessen, TypeOK
  <2> QED BY <2>1, <2>2, <2>3, UnbornKept, QuietKeeps
<1>33. ASSUME NEW c \in Chans, HookAsks(c)
      PROVE  MapInv' /\ BirthInv'
  <2>1. QuietStep
    BY <1>33 DEF HookAsks, QuietStep, Aside, Held, Goes, TypeOK
  <2>2. c \in Chans /\ c <= born
    BY <1>33, BusyIsBorn DEF HookAsks
  <2>3. TouchesOnly(c)
    BY <1>33, <2>2 DEF HookAsks, TouchesOnly, FreshParts, Bump, Lessen, TypeOK
  <2> QED BY <2>1, <2>2, <2>3, UnbornKept, QuietKeeps
<1>34. ASSUME NEW c \in Chans, EndLinger(c)
      PROVE  MapInv' /\ BirthInv'
  <2>1. QuietStep
    BY <1>34 DEF EndLinger, QuietStep, Aside, Held, Goes, TypeOK
  <2>2. c \in Chans /\ c <= born
    BY <1>34, BusyIsBorn DEF EndLinger
  <2>3. TouchesOnly(c)
    BY <1>34, <2>2 DEF EndLinger, TouchesOnly, FreshParts, Bump, Lessen, TypeOK
  <2> QED BY <2>1, <2>2, <2>3, UnbornKept, QuietKeeps
<1>35. ASSUME NEW c \in Chans, Promote(c)
      PROVE  MapInv' /\ BirthInv'
  <2>1. QuietStep
    BY <1>35 DEF Promote, QuietStep, Aside, Held, Goes, TypeOK
  <2>2. c \in Chans /\ c <= born
    BY <1>35, BusyIsBorn DEF Promote
  <2>3. TouchesOnly(c)
    BY <1>35, <2>2 DEF Promote, TouchesOnly, FreshParts, Bump, Lessen, TypeOK
  <2> QED BY <2>1, <2>2, <2>3, UnbornKept, QuietKeeps
<1>36. ASSUME NEW c \in Chans, RunReturns(c)
      PROVE  MapInv' /\ BirthInv'
  <2>1. QuietStep
    BY <1>36 DEF RunReturns, RunStep, QuietStep, Aside, Held, Goes, TypeOK
  <2>2. c \in Chans /\ c <= born
    BY <1>36, BusyIsBorn DEF RunReturns, RunStep
  <2>3. TouchesOnly(c)
    BY <1>36, <2>2 DEF RunReturns, RunStep, TouchesOnly, FreshParts, Bump, Lessen,
                       TypeOK
  <2> QED BY <2>1, <2>2, <2>3, UnbornKept, QuietKeeps
<1>37. ASSUME NEW i \in Ids, Stop(i)
      PROVE  MapInv' /\ BirthInv'
  <2>1. QuietStep
    BY <1>37 DEF Stop, Remove, QuietStep, Aside, Held, Goes, TypeOK
  <2>2. entry[i] \in Chans /\ entry[i] <= born
    BY <1>37 DEF Stop, ListedUnderOwnId, TypeOK
  <2>3. TouchesOnly(entry[i])
    BY <1>37, <2>2 DEF Stop, Remove, TouchesOnly, FreshParts, Bump, Lessen, TypeOK
  <2> QED BY <2>1, <2>2, <2>3, UnbornKept, QuietKeeps
<1> QED
  BY <1>1, <1>2, <1>3, <1>4, <1>5, <1>6, <1>7, <1>8, <1>9, <1>10, <1>11,
     <1>12, <1>13, <1>14, <1>15, <1>16, <1>17, <1>18, <1>19, <1>20, <1>21,
     <1>22, <1>23, <1>24, <1>25, <1>26, <1>27, <1>28, <1>29, <1>30, <1>31,
     <1>32, <1>33, <1>34, <1>35, <1>36, <1>37
  DEF Next, Attaching, Winding, Decision
----------------------------------------------------------------------------
(* The runs. *)

\* A step that disturbs nothing RunInv speaks of keeps it.
LEMMA RunPartsKept ==
  ASSUME RunInv, UNCHANGED runParts
  PROVE  RunInv'
BY DEF RunInv, StoppingIsUnlisted, OverIsReported, NoStrandedUpstream,
       ReleasingIsOutstanding, RunOver, runParts

\* Whoever takes a channel out of the map sees to its end, unless its run is
\* over already.
LEMMA Removed ==
  ASSUME TypeOK, TypeOK', RunInv, BornHasRun, ListedUnderOwnId,
         NEW c \in Chans, entry[of[c]] = c, NEW why, Remove(c, why),
         UNCHANGED <<of, stage, state, cancelled>>,
         \A d \in Chans \ {c} : sweeps'[d] = sweeps[d] /\ cancels'[d] = cancels[d],
         RunOver(c) \/ sweeps'[c] + cancels'[c] > 0
  PROVE  RunInv'
<1>1. /\ entry'[of[c]] = 0
      /\ \A d \in Chans \ {c} : entry'[of[d]] = d <=> entry[of[d]] = d
  BY DEF Remove, TypeOK, Chans
<1>2. c # 0 /\ stage[c] # "none"
  <2>1. c # 0
    BY ConstantsAssumption DEF ConstantsAssumption, Chans
  <2>2. of[c] \in Ids
    BY DEF TypeOK
  <2>3. c <= born
    BY <2>1, <2>2 DEF ListedUnderOwnId
  <2> QED BY <2>1, <2>3 DEF BornHasRun
<1>3. /\ releasing' \subseteq releasing \cup {c}
      /\ c \in releasing' => stage[c] # "released"
  BY DEF Remove, RunInv, ReleasingIsOutstanding
<1>4. StoppingIsUnlisted'
  BY <1>1, <1>2 DEF RunInv, StoppingIsUnlisted
<1>5. OverIsReported'
  BY <1>1, <1>2 DEF RunInv, OverIsReported, RunOver
<1>6. NoStrandedUpstream'
  BY <1>1, <1>2 DEF RunInv, NoStrandedUpstream, RunOver
<1>7. ReleasingIsOutstanding'
  BY <1>1, <1>2, <1>3 DEF RunInv, ReleasingIsOutstanding, TypeOK
<1> QED BY <1>4, <1>5, <1>6, <1>7 DEF RunInv

\* The run goroutine's deferred calls follow each other once the run is over.
LEMMA StageAdvances ==
  ASSUME TypeOK, TypeOK', RunInv, NEW c \in Chans, RunOver(c),
         NEW s \in Stages \ {"none", "made", "run"},
         stage' = [stage EXCEPT ![c] = s],
         UNCHANGED <<entry, of, state, cancelled, sweeps, cancels>>,
         \/ releasing' = releasing /\ s # "released"
         \/ releasing' = releasing \ {c}
  PROVE  RunInv'
<1>1. /\ stage'[c] = s
      /\ \A d \in Chans \ {c} : stage'[d] = stage[d]
  BY DEF TypeOK
<1>2. StoppingIsUnlisted'
  BY DEF RunInv, StoppingIsUnlisted
<1>3. OverIsReported'
  BY <1>1 DEF RunInv, OverIsReported, RunOver
<1>4. NoStrandedUpstream'
  BY <1>1 DEF RunInv, NoStrandedUpstream
<1>5. ReleasingIsOutstanding'
  BY <1>1 DEF RunInv, ReleasingIsOutstanding, TypeOK
<1> QED BY <1>2, <1>3, <1>4, <1>5 DEF RunInv


\* Every step keeps what is known of the runs.
LEMMA RunKept ==
  ASSUME TypeOK, TypeOK', MapInv, BirthInv, RunInv, Next
  PROVE  RunInv'
<1> USE DEF managerVars, birthVars, runVars, hlsVars, idleTasks, stopTasks,
           askVars, callerVars
<1>1. ASSUME NEW p \in Callers, NEW i \in Ids, Tune(p, i)
      PROVE  RunInv'
  BY <1>1, RunPartsKept DEF Tune, runParts
<1>2. ASSUME NEW p \in Callers, ClaimJoins(p)
      PROVE  RunInv'
  BY <1>2, RunPartsKept DEF ClaimJoins, runParts
<1>3. ASSUME NEW p \in Callers, ClaimStarts(p)
      PROVE  RunInv'
  <2> DEFINE c == entry[id[p]]
  <2>1. CASE c = 0
    BY <1>3, <2>1, RunPartsKept DEF ClaimStarts, runParts
  <2>2. CASE c # 0
    <3>1. RingClosed(c) /\ Remove(c, "ended")
      BY <1>3, <2>2 DEF ClaimStarts
    <3>2. c \in Chans /\ entry[of[c]] = c
      BY <1>3, <2>2 DEF MapInv, ListedUnderOwnId, TypeOK
    <3>3. RunOver(c)
      BY <3>1 DEF RunOver, RingClosed
    <3>4. UNCHANGED <<of, stage, state, cancelled, sweeps, cancels>>
      BY <1>3 DEF ClaimStarts
    <3> QED BY <3>1, <3>2, <3>3, <3>4, Removed DEF MapInv, BirthInv
  <2> QED BY <2>1, <2>2
<1>4. ASSUME NEW p \in Callers, StartFails(p)
      PROVE  RunInv'
  BY <1>4, RunPartsKept DEF StartFails, runParts
<1>5. ASSUME NEW p \in Callers, Publish(p)
      PROVE  RunInv'
  <2> DEFINE c == born + 1
  <2>1. c \in Chans /\ c # 0 /\ c > born
    BY <1>5 DEF Publish, TypeOK
  <2>2. stage[c] = "none" /\ sweeps[c] = 0 /\ cancels[c] = 0
    BY <2>1 DEF BirthInv, UnbornIsFresh
  <2>3. entry[id[p]] = 0
    BY <1>5 DEF Publish, MapInv, OneStartPerId
  <2>4. /\ entry' = [entry EXCEPT ![id[p]] = c] /\ of' = [of EXCEPT ![c] = id[p]]
        /\ stage' = [stage EXCEPT ![c] = "made"]
        /\ UNCHANGED <<state, cancelled, sweeps, cancels, releasing>>
    BY <1>5 DEF Publish
  <2>5. /\ of'[c] = id[p] /\ entry'[of'[c]] = c /\ stage'[c] = "made"
        /\ \A d \in Chans \ { c } : /\ stage'[d] = stage[d]
                                    /\ entry'[of'[d]] = d <=> entry[of[d]] = d
    BY <2>1, <2>3, <2>4 DEF TypeOK, Chans
  <2>6. c \notin releasing
    BY <2>2 DEF RunInv, ReleasingIsOutstanding
  <2>7. StoppingIsUnlisted'
    BY <2>1, <2>2, <2>4, <2>5 DEF RunInv, StoppingIsUnlisted
  <2>8. OverIsReported'
    BY <2>1, <2>4, <2>5 DEF RunInv, OverIsReported, RunOver
  <2>9. NoStrandedUpstream'
    BY <2>1, <2>4, <2>5 DEF RunInv, NoStrandedUpstream
  <2>10. ReleasingIsOutstanding'
    BY <2>1, <2>4, <2>5, <2>6 DEF RunInv, ReleasingIsOutstanding, TypeOK
  <2> QED BY <2>7, <2>8, <2>9, <2>10 DEF RunInv
<1>6. ASSUME NEW p \in Callers, Spawn(p)
      PROVE  RunInv'
  <2> DEFINE c == chan[p]
  <2>1. c \in Chans /\ stage[c] = "made"
    BY <1>6 DEF Spawn, BirthInv, SpawnsWhatItMade, CallersHoldBorn, Held, TypeOK
  <2>2. /\ stage'[c] = "run"
        /\ \A d \in Chans \ { c } : stage'[d] = stage[d] /\ state'[d] = state[d]
    BY <1>6, <2>1 DEF Spawn, TypeOK
  <2>3. UNCHANGED <<entry, of, cancelled, sweeps, cancels, releasing>>
    BY <1>6 DEF Spawn
  <2>4. StoppingIsUnlisted'
    BY <2>1, <2>2, <2>3 DEF RunInv, StoppingIsUnlisted
  <2>5. OverIsReported'
    BY <2>1, <2>2, <2>3 DEF RunInv, OverIsReported, RunOver
  <2>6. NoStrandedUpstream'
    BY <2>1, <2>2, <2>3 DEF RunInv, NoStrandedUpstream
  <2>7. ReleasingIsOutstanding'
    BY <2>1, <2>2, <2>3 DEF RunInv, ReleasingIsOutstanding, TypeOK
  <2> QED BY <2>4, <2>5, <2>6, <2>7 DEF RunInv
<1>7. ASSUME NEW p \in Callers, DeleteGate(p)
      PROVE  RunInv'
  BY <1>7, RunPartsKept DEF DeleteGate, runParts
<1>8. ASSUME NEW p \in Callers, CloseGate(p)
      PROVE  RunInv'
  BY <1>8, RunPartsKept DEF CloseGate, runParts
<1>9. ASSUME NEW p \in Callers, AttachHLS(p)
      PROVE  RunInv'
  BY <1>9, RunPartsKept DEF AttachHLS, runParts
<1>10. ASSUME NEW p \in Callers, AddSession(p)
      PROVE  RunInv'
  BY <1>10, RunPartsKept DEF AddSession, runParts
<1>11. ASSUME NEW p \in Callers, SeesOpenRing(p)
      PROVE  RunInv'
  BY <1>11, RunPartsKept DEF SeesOpenRing, runParts
<1>12. ASSUME NEW p \in Callers, Activate(p)
      PROVE  RunInv'
  BY <1>12, RunPartsKept DEF Activate, runParts
<1>13. ASSUME NEW p \in Callers, TakeReleases(p)
      PROVE  RunInv'
  BY <1>13, RunPartsKept DEF TakeReleases, runParts
<1>14. ASSUME NEW p \in Callers, ReleaseOutput(p)
      PROVE  RunInv'
  BY <1>14, RunPartsKept DEF ReleaseOutput, runParts
<1>15. ASSUME NEW p \in Callers, Resume(p)
      PROVE  RunInv'
  BY <1>15, RunPartsKept DEF Resume, runParts
<1>16. ASSUME NEW p \in Callers, ResumePipeline(p)
      PROVE  RunInv'
  BY <1>16, RunPartsKept DEF ResumePipeline, runParts
<1>17. ASSUME NEW p \in Callers, ResumeCommit(p)
      PROVE  RunInv'
  BY <1>17, RunPartsKept DEF ResumeCommit, runParts
<1>18. ASSUME NEW p \in Callers, DropClient(p)
      PROVE  RunInv'
  BY <1>18, RunPartsKept DEF DropClient, runParts
<1>19. ASSUME NEW p \in Callers, DropSession(p)
      PROVE  RunInv'
  BY <1>19, RunPartsKept DEF DropSession, runParts
<1>20. ASSUME NEW p \in Callers, NEW c \in Chans, ForgetStuck(p, c)
      PROVE  RunInv'
  <2>1. /\ releasing' \subseteq releasing
        /\ UNCHANGED <<entry, of, stage, state, cancelled, sweeps, cancels>>
    BY <1>20 DEF ForgetStuck
  <2> QED BY <2>1 DEF RunInv, StoppingIsUnlisted, OverIsReported,
                      NoStrandedUpstream,
           ReleasingIsOutstanding, RunOver
<1>21. ASSUME NEW p \in Callers, NEW c \in Chans, NEW w \in SUBSET Chans, Reclaim(p, c, w)
      PROVE  RunInv'
  <2>1. c \in Chans /\ entry[of[c]] = c /\ Remove(c, "reclaim")
    BY <1>21 DEF Reclaim
  <2>2. UNCHANGED <<of, stage, state, cancelled, sweeps>> /\ cancels' = Bump(cancels, c)
    BY <1>21 DEF Reclaim
  <2>3. sweeps'[c] + cancels'[c] > 0
    BY <2>1, <2>2 DEF Bump, TypeOK
  <2>4. \A d \in Chans \ { c } : sweeps'[d] = sweeps[d] /\ cancels'[d] = cancels[d]
    BY <2>2 DEF Bump, TypeOK
  <2> QED BY <2>1, <2>2, <2>3, <2>4, Removed DEF MapInv, BirthInv
<1>22. ASSUME NEW c \in Chans, StopWhenIdle(c)
      PROVE  RunInv'
  BY <1>22, RunPartsKept DEF StopWhenIdle, runParts
<1>23. ASSUME NEW c \in Chans, StopIfIdle(c)
      PROVE  RunInv'
  BY <1>23, RunPartsKept DEF StopIfIdle, runParts
<1>24. ASSUME NEW c \in Chans, Decision(c)
      PROVE  RunInv'
  <2>1. StopIfStillIdle(c)
    BY <1>24 DEF Decision, DecideAtOnce, CountdownEnds, StaleCountdownEnds
  <2>2. UNCHANGED <<of, stage, state, cancelled, cancels>>
    BY <2>1 DEF StopIfStillIdle
  <2>3. CASE UNCHANGED <<entry, releasing, sweeps>>
    BY <2>2, <2>3, RunPartsKept DEF runParts
  <2>4. CASE sweeps' = Bump(sweeps, c)
    <3>1. sweeps'[c] + cancels'[c] > 0
      BY <2>2, <2>4 DEF Bump, TypeOK
    <3>2. \A d \in Chans \ { c } : sweeps'[d] = sweeps[d] /\ cancels'[d] = cancels[d]
      BY <2>2, <2>4 DEF Bump, TypeOK
    <3>3. CASE entry[of[c]] = c /\ Remove(c, "idle")
      BY <2>2, <3>1, <3>2, <3>3, Removed DEF MapInv, BirthInv
    <3>4. CASE entry[of[c]] # c /\ UNCHANGED <<entry, releasing>>
      BY <2>2, <3>1, <3>2, <3>4
         DEF RunInv, StoppingIsUnlisted, OverIsReported, NoStrandedUpstream,
             ReleasingIsOutstanding, RunOver
    <3>5. QED
      <4>1. sweeps'[c] # sweeps[c]
        BY <2>4 DEF Bump, TypeOK
      <4> QED BY <2>1, <3>3, <3>4, <4>1 DEF StopIfStillIdle
  <2> QED BY <2>1, <2>3, <2>4 DEF StopIfStillIdle
<1>25. ASSUME NEW c \in Chans, EndSessions(c)
      PROVE  RunInv'
  <2>1. \A d \in Chans : sweeps'[d] + cancels'[d] = sweeps[d] + cancels[d]
    BY <1>25 DEF EndSessions, Bump, Lessen, TypeOK
  <2>2. UNCHANGED <<entry, of, stage, state, cancelled, releasing>>
    BY <1>25 DEF EndSessions
  <2> QED BY <2>1, <2>2 DEF RunInv, StoppingIsUnlisted, OverIsReported,
                            NoStrandedUpstream,
           ReleasingIsOutstanding, RunOver
<1>26. ASSUME NEW c \in Chans, Cancel(c)
      PROVE  RunInv'
  <2>1. /\ sweeps[c] + cancels[c] > 0 /\ cancelled'[c]
        /\ \A d \in Chans \ { c } :
             /\ sweeps'[d] + cancels'[d] = sweeps[d] + cancels[d]
             /\ state'[d] = state[d] /\ cancelled'[d] = cancelled[d]
    BY <1>26 DEF Cancel, Lessen, TypeOK
  <2>2. UNCHANGED <<entry, of, stage, releasing>>
    BY <1>26 DEF Cancel
  <2>3. entry[of[c]] # c
    BY <2>1 DEF RunInv, StoppingIsUnlisted
  <2> QED BY <2>1, <2>2, <2>3 DEF RunInv, StoppingIsUnlisted, OverIsReported,
                                  NoStrandedUpstream,
           ReleasingIsOutstanding, RunOver
<1>27. ASSUME NEW c \in Chans, StopOutputs(c)
      PROVE  RunInv'
  <2>1. /\ stage' = [stage EXCEPT ![c] = "stopped"] /\ RunOver(c)
        /\ UNCHANGED <<entry, of, state, cancelled, sweeps, cancels>>
    BY <1>27 DEF StopOutputs, RunStep, RunOver
  <2>2. releasing' = releasing
    BY <1>27 DEF StopOutputs
  <2> QED BY <2>1, <2>2, StageAdvances DEF Stages
<1>28. ASSUME NEW c \in Chans, CloseRing(c)
      PROVE  RunInv'
  <2>1. /\ stage' = [stage EXCEPT ![c] = "closed"] /\ RunOver(c)
        /\ UNCHANGED <<entry, of, state, cancelled, sweeps, cancels>>
    BY <1>28 DEF CloseRing, RunStep, RunOver
  <2>2. releasing' = releasing
    BY <1>28 DEF CloseRing
  <2> QED BY <2>1, <2>2, StageAdvances DEF Stages
<1>29. ASSUME NEW c \in Chans, FireRunEnd(c)
      PROVE  RunInv'
  <2>1. /\ stage' = [stage EXCEPT ![c] = "fired"] /\ RunOver(c)
        /\ UNCHANGED <<entry, of, state, cancelled, sweeps, cancels>>
    BY <1>29 DEF FireRunEnd, RunStep, RunOver
  <2>2. releasing' = releasing
    BY <1>29 DEF FireRunEnd
  <2> QED BY <2>1, <2>2, StageAdvances DEF Stages
<1>30. ASSUME NEW c \in Chans, ReleaseSlot(c)
      PROVE  RunInv'
  <2>1. /\ stage' = [stage EXCEPT ![c] = "posted"] /\ RunOver(c)
        /\ UNCHANGED <<entry, of, state, cancelled, sweeps, cancels>>
    BY <1>30 DEF ReleaseSlot, RunStep, RunOver
  <2>2. releasing' = releasing
    BY <1>30 DEF ReleaseSlot
  <2> QED BY <2>1, <2>2, StageAdvances DEF Stages
<1>31. ASSUME NEW c \in Chans, Released(c)
      PROVE  RunInv'
  <2>1. /\ stage' = [stage EXCEPT ![c] = "released"] /\ RunOver(c)
        /\ UNCHANGED <<entry, of, state, cancelled, sweeps, cancels>>
    BY <1>31 DEF Released, RunStep, RunOver
  <2>2. releasing' = releasing \ {c}
    BY <1>31 DEF Released
  <2> QED BY <2>1, <2>2, StageAdvances DEF Stages
<1>32. ASSUME NEW c \in Chans, HookSweeps(c)
      PROVE  RunInv'
  BY <1>32, RunPartsKept DEF HookSweeps, runParts
<1>33. ASSUME NEW c \in Chans, HookAsks(c)
      PROVE  RunInv'
  BY <1>33, RunPartsKept DEF HookAsks, runParts
<1>34. ASSUME NEW c \in Chans, EndLinger(c)
      PROVE  RunInv'
  BY <1>34, RunPartsKept DEF EndLinger, runParts
<1>35. ASSUME NEW c \in Chans, Promote(c)
      PROVE  RunInv'
  <2>1. /\ ~RunOver(c) /\ \A d \in Chans \ { c } : state'[d] = state[d]
        /\ UNCHANGED <<entry, of, stage, cancelled, sweeps, cancels, releasing>>
    BY <1>35 DEF Promote, RunOver, TypeOK
  <2> QED BY <2>1 DEF RunInv, StoppingIsUnlisted, OverIsReported,
                      NoStrandedUpstream,
           ReleasingIsOutstanding, RunOver
<1>36. ASSUME NEW c \in Chans, RunReturns(c)
      PROVE  RunInv'
  <2>1. /\ stage'[c] = "ended" /\ state'[c] \in {"stopped", "error"}
        /\ \A d \in Chans \ { c } : stage'[d] = stage[d] /\ state'[d] = state[d]
    BY <1>36 DEF RunReturns, RunStep, TypeOK
  <2>2. UNCHANGED <<entry, of, cancelled, sweeps, cancels, releasing>>
    BY <1>36 DEF RunReturns
  <2>3. StoppingIsUnlisted'
    BY <2>1, <2>2 DEF RunInv, StoppingIsUnlisted
  <2>4. OverIsReported'
    BY <2>1, <2>2 DEF RunInv, OverIsReported, RunOver
  <2>5. NoStrandedUpstream'
    BY <2>1, <2>2 DEF RunInv, NoStrandedUpstream
  <2>6. ReleasingIsOutstanding'
    BY <2>1, <2>2 DEF RunInv, ReleasingIsOutstanding, TypeOK
  <2> QED BY <2>3, <2>4, <2>5, <2>6 DEF RunInv
<1>37. ASSUME NEW i \in Ids, Stop(i)
      PROVE  RunInv'
  <2> DEFINE c == entry[i]
  <2>1. c \in Chans /\ entry[of[c]] = c
    BY <1>37 DEF Stop, MapInv, ListedUnderOwnId, TypeOK
  <2>2. Remove(c, "stop")
    BY <1>37 DEF Stop
  <2>3. UNCHANGED <<of, stage, state, cancelled, cancels>> /\ sweeps' = Bump(sweeps, c)
    BY <1>37 DEF Stop
  <2>4. sweeps'[c] + cancels'[c] > 0
    BY <2>1, <2>3 DEF Bump, TypeOK
  <2>5. \A d \in Chans \ { c } : sweeps'[d] = sweeps[d] /\ cancels'[d] = cancels[d]
    BY <2>3 DEF Bump, TypeOK
  <2> QED BY <2>1, <2>2, <2>3, <2>4, <2>5, Removed DEF MapInv, BirthInv
<1> QED
  BY <1>1, <1>2, <1>3, <1>4, <1>5, <1>6, <1>7, <1>8, <1>9, <1>10, <1>11,
     <1>12, <1>13, <1>14, <1>15, <1>16, <1>17, <1>18, <1>19, <1>20, <1>21,
     <1>22, <1>23, <1>24, <1>25, <1>26, <1>27, <1>28, <1>29, <1>30, <1>31,
     <1>32, <1>33, <1>34, <1>35, <1>36, <1>37
  DEF Next, Attaching, Winding, Decision
----------------------------------------------------------------------------
(* The theorems. *)

\* It holds at the start.
LEMMA InitIInv == Init => IInv
<1> SUFFICES ASSUME Init PROVE IInv
  OBVIOUS
<1>1. TypeOK
  <2>1. (CHOOSE i \in Ids : TRUE) \in Ids
    BY ConstantsAssumption DEF ConstantsAssumption
  <2> QED BY <2>1, ConstantsAssumption
          DEF ConstantsAssumption, Init, TypeOK, Stages, States, Places
<1>2. MapInv
  BY DEF Init, MapInv, ListedUnderOwnId, OneStartPerId
<1>3. BirthInv
  BY ConstantsAssumption DEF Init, BirthInv, CallersHoldBorn, UnbornIsFresh,
                             BornHasRun, SpawnsWhatItMade, Held, Chans
<1>4. RunInv
  BY DEF Init, RunInv, StoppingIsUnlisted, OverIsReported, NoStrandedUpstream,
         ReleasingIsOutstanding, RunOver
<1> QED BY <1>1, <1>2, <1>3, <1>4 DEF IInv

\* Every step keeps it.
LEMMA StepIInv == IInv /\ [Next]_vars => IInv'
<1> SUFFICES ASSUME IInv, [Next]_vars PROVE IInv'
  OBVIOUS
<1>1. CASE Next
  <2>1. TypeOK'
    BY <1>1, TypesKept DEF IInv, BirthInv
  <2>2. MapInv' /\ BirthInv'
    BY <1>1, <2>1, MapKept DEF IInv
  <2>3. RunInv'
    BY <1>1, <2>1, RunKept DEF IInv
  <2> QED BY <2>1, <2>2, <2>3 DEF IInv
<1>2. CASE UNCHANGED vars
  <2> USE <1>2 DEF vars, managerVars, birthVars, runVars, hlsVars, idleTasks,
                   stopTasks, askVars, callerVars
  <2>1. TypeOK'
    BY DEF IInv, TypeOK
  <2>2. MapInv'
    BY DEF IInv, MapInv, ListedUnderOwnId, OneStartPerId
  <2>3. BirthInv'
    BY DEF IInv, BirthInv, CallersHoldBorn, UnbornIsFresh, BornHasRun,
           SpawnsWhatItMade
  <2>4. RunInv'
    BY RunPartsKept DEF IInv, runParts
  <2> QED BY <2>1, <2>2, <2>3, <2>4 DEF IInv
<1> QED BY <1>1, <1>2

\* IInv holds in every reachable state.
LEMMA Inductive == Spec => []IInv
BY InitIInv, StepIInv, PTL DEF Spec

\* ChannelManager: every variable of the manager, its channels and its callers
\* has its type: no task counter goes below zero.
THEOREM Types == Spec => []TypeOK
<1>1. IInv => TypeOK
  BY DEF IInv
<1> QED BY <1>1, Inductive, PTL

\* claim, publish and releaseGate: one caller at a time starts a channel under
\* an id, and finds no channel there when it publishes.
THEOREM OneStart == Spec => []OneStartPerId
<1>1. IInv => OneStartPerId
  BY DEF IInv, MapInv
<1> QED BY <1>1, Inductive, PTL

\* removeLocked's callers: no upstream runs that nothing can stop.
THEOREM NoneStranded == Spec => []NoStrandedUpstream
<1>1. IInv => NoStrandedUpstream
  BY DEF IInv, RunInv
<1> QED BY <1>1, Inductive, PTL

\* removeLocked and onReleased: what a blocked start waits for in releasing is
\* out of the map and still to release.
THEOREM ReleasingOutstanding == Spec => []ReleasingIsOutstanding
<1>1. IInv => ReleasingIsOutstanding
  BY DEF IInv, RunInv
<1> QED BY <1>1, Inductive, PTL

\* run's deferred calls and the reconciler: a listed channel that does not say
\* it is stopped or failed has not given its slot back.
THEOREM ListedHolds == Spec => []ListedChannelHoldsSlot
<1>1. IInv => ListedChannelHoldsSlot
  <2> SUFFICES ASSUME IInv, NEW i \in Ids, entry[i] # 0,
                      state[entry[i]] \notin {"stopped", "error"}
               PROVE  stage[entry[i]] \notin {"posted", "released"}
    BY DEF ListedChannelHoldsSlot
  <2>1. entry[i] \in Chans /\ entry[of[entry[i]]] = entry[i]
    BY DEF IInv, MapInv, ListedUnderOwnId, TypeOK
  <2> QED BY <2>1 DEF IInv, RunInv, OverIsReported, RunOver
<1> QED BY <1>1, Inductive, PTL
----------------------------------------------------------------------------
(* The viewers. *)

(* The strengthening.  IdleIsNoticed, IdleStopIsFinal, ReclaimTakesNoViewer *)
(* and SessionsEndWithChannel relate a channel's clients to where their     *)
(* callers are, and the way it left the map to the map.                     *)

\* Where a caller is registered with its channel.
At == (Held \ {"away"}) \cup {"ungate", "close"}

ClientsAreAttached ==
  \A c \in Chans, p \in Callers : p \in clients[c] <=> pc[p] \in At /\ chan[p] = c

\* A channel leaves the map once, and only when it was born.
LeftIsUnlisted ==
  \A c \in Chans : how[c] # "no" => c <= born /\ entry[of[c]] # c

HookFollowsRing == \A c \in Chans : hook[c] # "no" => RingClosed(c)

\* Where a session is served, or may yet be.
Serving == {"checked", "active", "joining", "rejoined"}

NoneServedAfterSweep ==
  \A p \in Callers : pc[p] \in Serving => hook[chan[p]] \in {"no", "sweep"}

\* A session that was stopped leaves its client to a channel that is out of
\* the map, or whose outputs are gone.
StoppedSessionsAreMoot ==
  \A p \in Callers :
    /\ pc[p] = "halted" => entry[of[chan[p]]] # chan[p]
    /\ pc[p] = "swept" => OutputsStopped(chan[p])

SessionInv == HookFollowsRing /\ NoneServedAfterSweep /\ StoppedSessionsAreMoot

\* IdleIsNoticed, said of the channel.
Noticed(c) ==
  entry[of[c]] = c /\ ~OutputsStopped(c) /\ clients[c] = {} /\ ~hold[c]
    => polls[c] + asks[c] + checks[c] + fresh[c] + stale[c] > 0

ChannelsNoticed == \A c \in Chans : Noticed(c)

VInv == /\ IInv /\ ClientsAreAttached /\ LeftIsUnlisted /\ SessionInv
        /\ IdleStopIsFinal /\ ReclaimTakesNoViewer /\ ChannelsNoticed
----------------------------------------------------------------------------
(* Clients. *)

\* A caller that moves among the places where it is registered, or among the
\* others, changes no registration.
LEMMA MovesAttached ==
  ASSUME TypeOK, ClientsAreAttached, NEW p \in Callers, NEW place, Goes(p, place),
         pc[p] \in At <=> place \in At, UNCHANGED <<clients, chan>>
  PROVE  ClientsAreAttached'
BY DEF Goes, ClientsAreAttached, TypeOK

\* A caller that leaves a channel is dropped from it.
LEMMA LeavesAttached ==
  ASSUME TypeOK, ClientsAreAttached, NEW p \in Callers, NEW place, Goes(p, place),
         pc[p] \in At, place \notin At, UNCHANGED chan, chan[p] \in Chans,
         clients' = [clients EXCEPT ![chan[p]] = @ \ {p}]
  PROVE  ClientsAreAttached'
BY DEF Goes, ClientsAreAttached, TypeOK

\* A caller that joins a channel is registered with it.
LEMMA JoinsAttached ==
  ASSUME TypeOK, ClientsAreAttached, NEW p \in Callers, NEW place, Goes(p, place),
         pc[p] \notin At, place \in At, NEW c \in Chans,
         chan' = [chan EXCEPT ![p] = c], AddClient(c, p)
  PROVE  ClientsAreAttached'
BY DEF Goes, ClientsAreAttached, AddClient, TypeOK

\* Sessions that are stopped stay registered until their clients are dropped.
LEMMA StopAttached ==
  ASSUME TypeOK, ClientsAreAttached, NEW c \in Chans, NEW place \in {"halted", "swept"},
         StopSessions(c, place), UNCHANGED <<clients, chan>>
  PROVE  ClientsAreAttached'
<1>1. \A p \in Callers : pc'[p] \in At <=> pc[p] \in At
  BY DEF StopSessions, At, Held, TypeOK
<1> QED BY <1>1 DEF ClientsAreAttached


\* Every step keeps the clients registered where their callers are.
LEMMA ClientsKept ==
  ASSUME TypeOK, TypeOK', BirthInv, ClientsAreAttached, Next, Next
  PROVE  ClientsAreAttached'
<1> USE DEF managerVars, birthVars, runVars, hlsVars, idleTasks, stopTasks,
           askVars, callerVars
<1>1. ASSUME NEW p \in Callers, NEW i \in Ids, Tune(p, i)
      PROVE  ClientsAreAttached'
  BY <1>1, MovesAttached DEF Tune, At, Held
<1>2. ASSUME NEW p \in Callers, ClaimJoins(p)
      PROVE  ClientsAreAttached'
  <2>1. entry[id[p]] \in Chans /\ pc[p] = "claim"
    BY <1>2 DEF ClaimJoins, TypeOK
  <2> QED BY <1>2, <2>1, JoinsAttached DEF ClaimJoins, At, Held
<1>3. ASSUME NEW p \in Callers, ClaimStarts(p)
      PROVE  ClientsAreAttached'
  <2>1. PICK place \in {"wait", "start"} : Goes(p, place)
    BY <1>3 DEF ClaimStarts
  <2>2. pc[p] = "claim" /\ UNCHANGED <<clients, chan>>
    BY <1>3 DEF ClaimStarts
  <2> QED BY <2>1, <2>2, MovesAttached DEF At, Held
<1>4. ASSUME NEW p \in Callers, StartFails(p)
      PROVE  ClientsAreAttached'
  <2>1. /\ pc[p] = "start" /\ chan' = [chan EXCEPT ![p] = 0] /\ Goes(p, "ungate")
        /\ UNCHANGED clients
    BY <1>4 DEF StartFails
  <2>2. 0 \notin Chans
    BY DEF Chans
  <2> QED BY <2>1, <2>2 DEF Goes, ClientsAreAttached, At, Held, TypeOK
<1>5. ASSUME NEW p \in Callers, Publish(p)
      PROVE  ClientsAreAttached'
  <2>1. /\ pc[p] = "start" /\ chan' = [chan EXCEPT ![p] = born + 1] /\ Goes(p, "spawn")
        /\ born + 1 \in Chans /\ clients' = [clients EXCEPT ![born + 1] = {p}]
    BY <1>5 DEF Publish
  <2>2. \A q \in Callers : chan[q] # born + 1
    BY DEF BirthInv, CallersHoldBorn, TypeOK
  <2> QED BY <2>1, <2>2 DEF Goes, ClientsAreAttached, At, Held, TypeOK
<1>6. ASSUME NEW p \in Callers, Spawn(p)
      PROVE  ClientsAreAttached'
  BY <1>6, MovesAttached DEF Spawn, At, Held
<1>7. ASSUME NEW p \in Callers, DeleteGate(p)
      PROVE  ClientsAreAttached'
  BY <1>7, MovesAttached DEF DeleteGate, At, Held
<1>8. ASSUME NEW p \in Callers, CloseGate(p)
      PROVE  ClientsAreAttached'
  <2>1. pc[p] = "close" /\ UNCHANGED <<clients, chan>>
    BY <1>8 DEF CloseGate
  <2>2. \A q \in Callers \ { p } : pc'[q] \in At <=> pc[q] \in At
    BY <1>8 DEF CloseGate, At, Held, TypeOK
  <2>3. pc'[p] = IF chan[p] = 0 THEN "out" ELSE "in"
    BY <1>8 DEF CloseGate, TypeOK
  <2>4. 0 \notin Chans
    BY DEF Chans
  <2> QED BY <2>1, <2>2, <2>3, <2>4 DEF ClientsAreAttached, At, Held
<1>9. ASSUME NEW p \in Callers, AttachHLS(p)
      PROVE  ClientsAreAttached'
  <2>1. PICK place \in At : Goes(p, place)
    BY <1>9 DEF AttachHLS, At, Held
  <2>2. pc[p] \in At /\ UNCHANGED <<clients, chan>>
    BY <1>9 DEF AttachHLS, At, Held
  <2> QED BY <2>1, <2>2, MovesAttached
<1>10. ASSUME NEW p \in Callers, AddSession(p)
      PROVE  ClientsAreAttached'
  BY <1>10, MovesAttached DEF AddSession, At, Held
<1>11. ASSUME NEW p \in Callers, SeesOpenRing(p)
      PROVE  ClientsAreAttached'
  BY <1>11, MovesAttached DEF SeesOpenRing, At, Held
<1>12. ASSUME NEW p \in Callers, Activate(p)
      PROVE  ClientsAreAttached'
  BY <1>12, MovesAttached DEF Activate, At, Held
<1>13. ASSUME NEW p \in Callers, TakeReleases(p)
      PROVE  ClientsAreAttached'
  <2>1. PICK place \in At : Goes(p, place)
    BY <1>13 DEF TakeReleases, At, Held
  <2>2. pc[p] \in At /\ UNCHANGED <<clients, chan>>
    BY <1>13 DEF TakeReleases, At, Held
  <2> QED BY <2>1, <2>2, MovesAttached
<1>14. ASSUME NEW p \in Callers, ReleaseOutput(p)
      PROVE  ClientsAreAttached'
  <2>1. PICK place \in At : Goes(p, place)
    BY <1>14 DEF ReleaseOutput, At, Held
  <2>2. pc[p] \in At /\ UNCHANGED <<clients, chan>>
    BY <1>14 DEF ReleaseOutput, At, Held
  <2> QED BY <2>1, <2>2, MovesAttached
<1>15. ASSUME NEW p \in Callers, Resume(p)
      PROVE  ClientsAreAttached'
  <2>1. chan[p] \in Chans /\ pc[p] = "away" /\ UNCHANGED chan
    BY <1>15 DEF Resume, BirthInv, CallersHoldBorn, Held, TypeOK
  <2>2. CASE AddClient(chan[p], p) /\ Goes(p, "joining")
    <3>1. chan' = [chan EXCEPT ![p] = chan[p]]
      BY <2>1 DEF TypeOK
    <3> QED BY <2>1, <2>2, <3>1, JoinsAttached DEF At, Held
  <2>3. CASE UNCHANGED clients /\ Goes(p, "out")
    BY <2>1, <2>3, MovesAttached DEF At, Held
  <2> QED BY <1>15, <2>2, <2>3 DEF Resume
<1>16. ASSUME NEW p \in Callers, ResumePipeline(p)
      PROVE  ClientsAreAttached'
  <2>1. PICK place \in At : Goes(p, place)
    BY <1>16 DEF ResumePipeline, At, Held
  <2>2. pc[p] \in At /\ UNCHANGED <<clients, chan>>
    BY <1>16 DEF ResumePipeline, At, Held
  <2> QED BY <2>1, <2>2, MovesAttached
<1>17. ASSUME NEW p \in Callers, ResumeCommit(p)
      PROVE  ClientsAreAttached'
  <2>1. PICK place \in At : Goes(p, place)
    BY <1>17 DEF ResumeCommit, At, Held
  <2>2. pc[p] \in At /\ UNCHANGED <<clients, chan>>
    BY <1>17 DEF ResumeCommit, At, Held
  <2> QED BY <2>1, <2>2, MovesAttached
<1>18. ASSUME NEW p \in Callers, DropClient(p)
      PROVE  ClientsAreAttached'
  <2>1. PICK place \in {"out", "away"} : Goes(p, place)
    BY <1>18 DEF DropClient
  <2>2. pc[p] \in At /\ pc[p] \in Held
    BY <1>18 DEF DropClient, At, Held
  <2>3. chan[p] \in Chans
    BY <2>2 DEF BirthInv, CallersHoldBorn, TypeOK
  <2>4. UNCHANGED chan /\ clients' = [clients EXCEPT ![chan[p]] = @ \ {p}]
    BY <1>18 DEF DropClient
  <2> QED BY <2>1, <2>2, <2>3, <2>4, LeavesAttached DEF At, Held
<1>19. ASSUME NEW p \in Callers, DropSession(p)
      PROVE  ClientsAreAttached'
  <2>1. PICK place \in {"out", "away"} : Goes(p, place)
    BY <1>19 DEF DropSession
  <2>2. pc[p] \in At /\ pc[p] \in Held
    BY <1>19 DEF DropSession, At, Held
  <2>3. chan[p] \in Chans
    BY <2>2 DEF BirthInv, CallersHoldBorn, TypeOK
  <2>4. UNCHANGED chan /\ clients' = [clients EXCEPT ![chan[p]] = @ \ {p}]
    BY <1>19 DEF DropSession
  <2> QED BY <2>1, <2>2, <2>3, <2>4, LeavesAttached DEF At, Held
<1>20. ASSUME NEW p \in Callers, NEW c \in Chans, ForgetStuck(p, c)
      PROVE  ClientsAreAttached'
  BY <1>20 DEF ForgetStuck, ClientsAreAttached
<1>21. ASSUME NEW p \in Callers, NEW c \in Chans, NEW w \in SUBSET Chans, Reclaim(p, c, w)
      PROVE  ClientsAreAttached'
  BY <1>21, StopAttached DEF Reclaim
<1>22. ASSUME NEW c \in Chans, StopWhenIdle(c)
      PROVE  ClientsAreAttached'
  BY <1>22 DEF StopWhenIdle, ClientsAreAttached
<1>23. ASSUME NEW c \in Chans, StopIfIdle(c)
      PROVE  ClientsAreAttached'
  BY <1>23 DEF StopIfIdle, ClientsAreAttached
<1>24. ASSUME NEW c \in Chans, Decision(c)
      PROVE  ClientsAreAttached'
  BY <1>24 DEF Decision, DecideAtOnce, CountdownEnds, StaleCountdownEnds,
               StopIfStillIdle, Remove, ClientsAreAttached
<1>25. ASSUME NEW c \in Chans, EndSessions(c)
      PROVE  ClientsAreAttached'
  BY <1>25, StopAttached DEF EndSessions
<1>26. ASSUME NEW c \in Chans, Cancel(c)
      PROVE  ClientsAreAttached'
  BY <1>26 DEF Cancel, ClientsAreAttached
<1>27. ASSUME NEW c \in Chans, StopOutputs(c)
      PROVE  ClientsAreAttached'
  BY <1>27 DEF StopOutputs, RunStep, ClientsAreAttached
<1>28. ASSUME NEW c \in Chans, CloseRing(c)
      PROVE  ClientsAreAttached'
  BY <1>28 DEF CloseRing, RunStep, ClientsAreAttached
<1>29. ASSUME NEW c \in Chans, FireRunEnd(c)
      PROVE  ClientsAreAttached'
  BY <1>29 DEF FireRunEnd, RunStep, ClientsAreAttached
<1>30. ASSUME NEW c \in Chans, ReleaseSlot(c)
      PROVE  ClientsAreAttached'
  BY <1>30 DEF ReleaseSlot, RunStep, ClientsAreAttached
<1>31. ASSUME NEW c \in Chans, Released(c)
      PROVE  ClientsAreAttached'
  BY <1>31 DEF Released, RunStep, ClientsAreAttached
<1>32. ASSUME NEW c \in Chans, HookSweeps(c)
      PROVE  ClientsAreAttached'
  BY <1>32, StopAttached DEF HookSweeps
<1>33. ASSUME NEW c \in Chans, HookAsks(c)
      PROVE  ClientsAreAttached'
  BY <1>33 DEF HookAsks, ClientsAreAttached
<1>34. ASSUME NEW c \in Chans, EndLinger(c)
      PROVE  ClientsAreAttached'
  BY <1>34 DEF EndLinger, ClientsAreAttached
<1>35. ASSUME NEW c \in Chans, Promote(c)
      PROVE  ClientsAreAttached'
  BY <1>35 DEF Promote, ClientsAreAttached
<1>36. ASSUME NEW c \in Chans, RunReturns(c)
      PROVE  ClientsAreAttached'
  BY <1>36 DEF RunReturns, RunStep, ClientsAreAttached
<1>37. ASSUME NEW i \in Ids, Stop(i)
      PROVE  ClientsAreAttached'
  BY <1>37 DEF Stop, Remove, ClientsAreAttached
<1> QED
  BY <1>1, <1>2, <1>3, <1>4, <1>5, <1>6, <1>7, <1>8, <1>9, <1>10, <1>11,
     <1>12, <1>13, <1>14, <1>15, <1>16, <1>17, <1>18, <1>19, <1>20, <1>21,
     <1>22, <1>23, <1>24, <1>25, <1>26, <1>27, <1>28, <1>29, <1>30, <1>31,
     <1>32, <1>33, <1>34, <1>35, <1>36, <1>37
  DEF Next, Attaching, Winding, Decision
----------------------------------------------------------------------------
(* How a channel left. *)

\* removeLocked: a listed channel leaves, and no other has left or come.
LEMMA RemovedLeaves ==
  ASSUME TypeOK, ListedUnderOwnId, LeftIsUnlisted, NEW c \in Chans, entry[of[c]] = c,
         NEW why, Remove(c, why), UNCHANGED <<of, born>>
  PROVE  /\ LeftIsUnlisted' /\ how[c] = "no" /\ how'[c] = why
         /\ entry'[of[c]] # c
         /\ \A d \in Chans \ {c} : /\ how'[d] = how[d]
                                   /\ entry'[of[d]] = d => entry[of[d]] = d
<1>1. c # 0
  BY ConstantsAssumption DEF ConstantsAssumption, Chans
<1>2. of[c] \in Ids
  BY DEF TypeOK
<1>3. c <= born
  BY <1>1, <1>2 DEF ListedUnderOwnId
<1>4. /\ entry' = [entry EXCEPT ![of[c]] = 0] /\ how' = [how EXCEPT ![c] = why]
  BY DEF Remove
<1>5. entry'[of[c]] # c /\ how'[c] = why
  BY <1>1, <1>2, <1>4 DEF TypeOK
<1>6. ASSUME NEW d \in Chans \ {c}
      PROVE  how'[d] = how[d] /\ (entry'[of[d]] = d => entry[of[d]] = d)
  <2>1. d # 0
    BY ConstantsAssumption DEF ConstantsAssumption, Chans
  <2>2. of[d] \in Ids
    BY DEF TypeOK
  <2> QED BY <1>4, <2>1, <2>2 DEF TypeOK
<1>7. LeftIsUnlisted'
  BY <1>3, <1>5, <1>6 DEF LeftIsUnlisted
<1> QED BY <1>5, <1>6, <1>7 DEF LeftIsUnlisted


\* Every step leaves a channel that has left out of the map.
LEMMA LeavesOnce ==
  ASSUME TypeOK, TypeOK', MapInv, LeftIsUnlisted, Next, Next
  PROVE  LeftIsUnlisted'
<1> USE DEF managerVars, birthVars, runVars, hlsVars, idleTasks, stopTasks,
           askVars, callerVars
<1>1. ASSUME NEW p \in Callers, NEW i \in Ids, Tune(p, i)
      PROVE  LeftIsUnlisted'
  BY <1>1 DEF Tune, LeftIsUnlisted
<1>2. ASSUME NEW p \in Callers, ClaimJoins(p)
      PROVE  LeftIsUnlisted'
  BY <1>2 DEF ClaimJoins, LeftIsUnlisted
<1>3. ASSUME NEW p \in Callers, ClaimStarts(p)
      PROVE  LeftIsUnlisted'
  <2> DEFINE c == entry[id[p]]
  <2>1. CASE c = 0
    BY <1>3, <2>1 DEF ClaimStarts, LeftIsUnlisted
  <2>2. CASE c # 0
    <3>1. Remove(c, "ended") /\ UNCHANGED <<of, born>>
      BY <1>3, <2>2 DEF ClaimStarts
    <3>2. c \in Chans /\ entry[of[c]] = c
      BY <1>3, <2>2 DEF MapInv, ListedUnderOwnId, TypeOK
    <3> QED BY <3>1, <3>2, RemovedLeaves DEF MapInv
  <2> QED BY <2>1, <2>2
<1>4. ASSUME NEW p \in Callers, StartFails(p)
      PROVE  LeftIsUnlisted'
  BY <1>4 DEF StartFails, LeftIsUnlisted
<1>5. ASSUME NEW p \in Callers, Publish(p)
      PROVE  LeftIsUnlisted'
  <2> DEFINE c == born + 1
  <2>1. c \in Chans /\ c > born /\ of' = [of EXCEPT ![c] = id[p]] /\ UNCHANGED how
        /\ entry' = [entry EXCEPT ![id[p]] = c] /\ born' = c
    BY <1>5 DEF Publish, TypeOK
  <2> SUFFICES ASSUME NEW d \in Chans, how[d] # "no"
               PROVE  d <= born' /\ entry'[of'[d]] # d
    BY <2>1 DEF LeftIsUnlisted
  <2>2. d <= born /\ entry[of[d]] # d
    BY DEF LeftIsUnlisted
  <2>3. d # c /\ d <= born'
    BY <2>1, <2>2 DEF TypeOK, Chans
  <2>4. of'[d] = of[d] /\ of[d] \in Ids
    BY <2>1, <2>3 DEF TypeOK
  <2> QED BY <2>1, <2>2, <2>3, <2>4 DEF TypeOK
<1>6. ASSUME NEW p \in Callers, Spawn(p)
      PROVE  LeftIsUnlisted'
  BY <1>6 DEF Spawn, LeftIsUnlisted
<1>7. ASSUME NEW p \in Callers, DeleteGate(p)
      PROVE  LeftIsUnlisted'
  BY <1>7 DEF DeleteGate, LeftIsUnlisted
<1>8. ASSUME NEW p \in Callers, CloseGate(p)
      PROVE  LeftIsUnlisted'
  BY <1>8 DEF CloseGate, LeftIsUnlisted
<1>9. ASSUME NEW p \in Callers, AttachHLS(p)
      PROVE  LeftIsUnlisted'
  BY <1>9 DEF AttachHLS, LeftIsUnlisted
<1>10. ASSUME NEW p \in Callers, AddSession(p)
      PROVE  LeftIsUnlisted'
  BY <1>10 DEF AddSession, LeftIsUnlisted
<1>11. ASSUME NEW p \in Callers, SeesOpenRing(p)
      PROVE  LeftIsUnlisted'
  BY <1>11 DEF SeesOpenRing, LeftIsUnlisted
<1>12. ASSUME NEW p \in Callers, Activate(p)
      PROVE  LeftIsUnlisted'
  BY <1>12 DEF Activate, LeftIsUnlisted
<1>13. ASSUME NEW p \in Callers, TakeReleases(p)
      PROVE  LeftIsUnlisted'
  BY <1>13 DEF TakeReleases, LeftIsUnlisted
<1>14. ASSUME NEW p \in Callers, ReleaseOutput(p)
      PROVE  LeftIsUnlisted'
  BY <1>14 DEF ReleaseOutput, LeftIsUnlisted
<1>15. ASSUME NEW p \in Callers, Resume(p)
      PROVE  LeftIsUnlisted'
  BY <1>15 DEF Resume, LeftIsUnlisted
<1>16. ASSUME NEW p \in Callers, ResumePipeline(p)
      PROVE  LeftIsUnlisted'
  BY <1>16 DEF ResumePipeline, LeftIsUnlisted
<1>17. ASSUME NEW p \in Callers, ResumeCommit(p)
      PROVE  LeftIsUnlisted'
  BY <1>17 DEF ResumeCommit, LeftIsUnlisted
<1>18. ASSUME NEW p \in Callers, DropClient(p)
      PROVE  LeftIsUnlisted'
  BY <1>18 DEF DropClient, LeftIsUnlisted
<1>19. ASSUME NEW p \in Callers, DropSession(p)
      PROVE  LeftIsUnlisted'
  BY <1>19 DEF DropSession, LeftIsUnlisted
<1>20. ASSUME NEW p \in Callers, NEW c \in Chans, ForgetStuck(p, c)
      PROVE  LeftIsUnlisted'
  BY <1>20 DEF ForgetStuck, LeftIsUnlisted
<1>21. ASSUME NEW p \in Callers, NEW c \in Chans, NEW w \in SUBSET Chans, Reclaim(p, c, w)
      PROVE  LeftIsUnlisted'
  <2>1. entry[of[c]] = c /\ Remove(c, "reclaim") /\ UNCHANGED <<of, born>>
    BY <1>21 DEF Reclaim
  <2> QED BY <2>1, RemovedLeaves DEF MapInv
<1>22. ASSUME NEW c \in Chans, StopWhenIdle(c)
      PROVE  LeftIsUnlisted'
  BY <1>22 DEF StopWhenIdle, LeftIsUnlisted
<1>23. ASSUME NEW c \in Chans, StopIfIdle(c)
      PROVE  LeftIsUnlisted'
  BY <1>23 DEF StopIfIdle, LeftIsUnlisted
<1>24. ASSUME NEW c \in Chans, Decision(c)
      PROVE  LeftIsUnlisted'
  <2>1. StopIfStillIdle(c) /\ UNCHANGED <<of, born>>
    BY <1>24 DEF Decision, DecideAtOnce, CountdownEnds, StaleCountdownEnds,
                 StopIfStillIdle
  <2>2. CASE UNCHANGED <<entry, how>>
    BY <2>1, <2>2 DEF LeftIsUnlisted
  <2>3. CASE entry[of[c]] = c /\ Remove(c, "idle")
    BY <2>1, <2>3, RemovedLeaves DEF MapInv
  <2> QED BY <2>1, <2>2, <2>3 DEF StopIfStillIdle
<1>25. ASSUME NEW c \in Chans, EndSessions(c)
      PROVE  LeftIsUnlisted'
  BY <1>25 DEF EndSessions, LeftIsUnlisted
<1>26. ASSUME NEW c \in Chans, Cancel(c)
      PROVE  LeftIsUnlisted'
  BY <1>26 DEF Cancel, LeftIsUnlisted
<1>27. ASSUME NEW c \in Chans, StopOutputs(c)
      PROVE  LeftIsUnlisted'
  BY <1>27 DEF StopOutputs, LeftIsUnlisted
<1>28. ASSUME NEW c \in Chans, CloseRing(c)
      PROVE  LeftIsUnlisted'
  BY <1>28 DEF CloseRing, LeftIsUnlisted
<1>29. ASSUME NEW c \in Chans, FireRunEnd(c)
      PROVE  LeftIsUnlisted'
  BY <1>29 DEF FireRunEnd, LeftIsUnlisted
<1>30. ASSUME NEW c \in Chans, ReleaseSlot(c)
      PROVE  LeftIsUnlisted'
  BY <1>30 DEF ReleaseSlot, LeftIsUnlisted
<1>31. ASSUME NEW c \in Chans, Released(c)
      PROVE  LeftIsUnlisted'
  BY <1>31 DEF Released, LeftIsUnlisted
<1>32. ASSUME NEW c \in Chans, HookSweeps(c)
      PROVE  LeftIsUnlisted'
  BY <1>32 DEF HookSweeps, LeftIsUnlisted
<1>33. ASSUME NEW c \in Chans, HookAsks(c)
      PROVE  LeftIsUnlisted'
  BY <1>33 DEF HookAsks, LeftIsUnlisted
<1>34. ASSUME NEW c \in Chans, EndLinger(c)
      PROVE  LeftIsUnlisted'
  BY <1>34 DEF EndLinger, LeftIsUnlisted
<1>35. ASSUME NEW c \in Chans, Promote(c)
      PROVE  LeftIsUnlisted'
  BY <1>35 DEF Promote, LeftIsUnlisted
<1>36. ASSUME NEW c \in Chans, RunReturns(c)
      PROVE  LeftIsUnlisted'
  BY <1>36 DEF RunReturns, LeftIsUnlisted
<1>37. ASSUME NEW i \in Ids, Stop(i)
      PROVE  LeftIsUnlisted'
  <2> DEFINE c == entry[i]
  <2>1. c \in Chans /\ entry[of[c]] = c
    BY <1>37 DEF Stop, MapInv, ListedUnderOwnId, TypeOK
  <2>2. Remove(c, "stop") /\ UNCHANGED <<of, born>>
    BY <1>37 DEF Stop
  <2> QED BY <2>1, <2>2, RemovedLeaves DEF MapInv
<1> QED
  BY <1>1, <1>2, <1>3, <1>4, <1>5, <1>6, <1>7, <1>8, <1>9, <1>10, <1>11,
     <1>12, <1>13, <1>14, <1>15, <1>16, <1>17, <1>18, <1>19, <1>20, <1>21,
     <1>22, <1>23, <1>24, <1>25, <1>26, <1>27, <1>28, <1>29, <1>30, <1>31,
     <1>32, <1>33, <1>34, <1>35, <1>36, <1>37
  DEF Next, Attaching, Winding, Decision
\* A client joins no channel that has left the map.
LEMMA JoinsListed ==
  ASSUME TypeOK, LeftIsUnlisted, NEW c \in Chans, NEW p \in Callers,
         entry[of[c]] = c, AddClient(c, p), UNCHANGED how
  PROVE  /\ how[c] = "no" /\ \A d \in Chans \ {c} : clients'[d] = clients[d]
BY DEF LeftIsUnlisted, AddClient, TypeOK


\* Every step keeps a channel that was stopped as idle without viewers.
LEMMA FinalKept ==
  ASSUME TypeOK, TypeOK', MapInv, BirthInv, ClientsAreAttached, LeftIsUnlisted,
         IdleStopIsFinal, Next, Next
  PROVE  IdleStopIsFinal'
<1> USE DEF managerVars, birthVars, runVars, hlsVars, idleTasks, stopTasks,
           askVars, callerVars
<1>1. ASSUME NEW p \in Callers, NEW i \in Ids, Tune(p, i)
      PROVE  IdleStopIsFinal'
  BY <1>1 DEF Tune, IdleStopIsFinal
<1>2. ASSUME NEW p \in Callers, ClaimJoins(p)
      PROVE  IdleStopIsFinal'
  <2> DEFINE c == entry[id[p]]
  <2>1. c \in Chans /\ entry[of[c]] = c
    BY <1>2 DEF ClaimJoins, MapInv, ListedUnderOwnId, TypeOK
  <2>2. AddClient(c, p) /\ UNCHANGED <<how, hold>>
    BY <1>2 DEF ClaimJoins
  <2> QED BY <2>1, <2>2, JoinsListed DEF IdleStopIsFinal
<1>3. ASSUME NEW p \in Callers, ClaimStarts(p)
      PROVE  IdleStopIsFinal'
  <2> DEFINE c == entry[id[p]]
  <2>1. CASE c = 0
    BY <1>3, <2>1 DEF ClaimStarts, IdleStopIsFinal
  <2>2. CASE c # 0
    <3>1. Remove(c, "ended") /\ UNCHANGED <<of, born, clients, hold>>
      BY <1>3, <2>2 DEF ClaimStarts
    <3>2. c \in Chans /\ entry[of[c]] = c
      BY <1>3, <2>2 DEF MapInv, ListedUnderOwnId, TypeOK
    <3> QED BY <3>1, <3>2, RemovedLeaves DEF MapInv, IdleStopIsFinal
  <2> QED BY <2>1, <2>2
<1>4. ASSUME NEW p \in Callers, StartFails(p)
      PROVE  IdleStopIsFinal'
  BY <1>4 DEF StartFails, IdleStopIsFinal
<1>5. ASSUME NEW p \in Callers, Publish(p)
      PROVE  IdleStopIsFinal'
  <2> DEFINE c == born + 1
  <2>1. /\ c \in Chans /\ c > born /\ UNCHANGED <<how, hold>>
        /\ clients' = [clients EXCEPT ![c] = {p}]
    BY <1>5 DEF Publish, TypeOK
  <2>2. how[c] = "no"
    BY <2>1 DEF LeftIsUnlisted, TypeOK
  <2> QED BY <2>1, <2>2 DEF IdleStopIsFinal, TypeOK
<1>6. ASSUME NEW p \in Callers, Spawn(p)
      PROVE  IdleStopIsFinal'
  BY <1>6 DEF Spawn, IdleStopIsFinal
<1>7. ASSUME NEW p \in Callers, DeleteGate(p)
      PROVE  IdleStopIsFinal'
  BY <1>7 DEF DeleteGate, IdleStopIsFinal
<1>8. ASSUME NEW p \in Callers, CloseGate(p)
      PROVE  IdleStopIsFinal'
  BY <1>8 DEF CloseGate, IdleStopIsFinal
<1>9. ASSUME NEW p \in Callers, AttachHLS(p)
      PROVE  IdleStopIsFinal'
  <2>1. UNCHANGED hold \/ hold' = [hold EXCEPT ![chan[p]] = FALSE]
    BY <1>9 DEF AttachHLS
  <2>2. UNCHANGED <<how, clients>>
    BY <1>9 DEF AttachHLS
  <2> QED BY <2>1, <2>2 DEF IdleStopIsFinal, TypeOK
<1>10. ASSUME NEW p \in Callers, AddSession(p)
      PROVE  IdleStopIsFinal'
  BY <1>10 DEF AddSession, IdleStopIsFinal
<1>11. ASSUME NEW p \in Callers, SeesOpenRing(p)
      PROVE  IdleStopIsFinal'
  BY <1>11 DEF SeesOpenRing, IdleStopIsFinal
<1>12. ASSUME NEW p \in Callers, Activate(p)
      PROVE  IdleStopIsFinal'
  BY <1>12 DEF Activate, IdleStopIsFinal
<1>13. ASSUME NEW p \in Callers, TakeReleases(p)
      PROVE  IdleStopIsFinal'
  BY <1>13 DEF TakeReleases, IdleStopIsFinal
<1>14. ASSUME NEW p \in Callers, ReleaseOutput(p)
      PROVE  IdleStopIsFinal'
  <2> DEFINE c == chan[p]
  <2>1. c \in Chans /\ p \in clients[c]
    BY <1>14 DEF ReleaseOutput, BirthInv, CallersHoldBorn, Held,
                 ClientsAreAttached, At, TypeOK
  <2>2. how[c] # "idle"
    BY <2>1 DEF IdleStopIsFinal
  <2>3. UNCHANGED <<how, clients>>
    BY <1>14 DEF ReleaseOutput
  <2>4. UNCHANGED hold \/ hold' = [hold EXCEPT ![c] = TRUE]
    BY <1>14 DEF ReleaseOutput
  <2>5. \A d \in Chans \ { c } : hold'[d] = hold[d]
    BY <2>4 DEF TypeOK
  <2> QED BY <2>2, <2>3, <2>5 DEF IdleStopIsFinal
<1>15. ASSUME NEW p \in Callers, Resume(p)
      PROVE  IdleStopIsFinal'
  <2> DEFINE c == chan[p]
  <2>1. c \in Chans
    BY <1>15 DEF Resume, BirthInv, CallersHoldBorn, Held, TypeOK
  <2>2. UNCHANGED <<how, hold>>
    BY <1>15 DEF Resume
  <2>3. CASE entry[of[c]] = c /\ AddClient(c, p)
    BY <2>1, <2>2, <2>3, JoinsListed DEF IdleStopIsFinal
  <2>4. CASE UNCHANGED clients
    BY <2>2, <2>4 DEF IdleStopIsFinal
  <2> QED BY <1>15, <2>3, <2>4 DEF Resume
<1>16. ASSUME NEW p \in Callers, ResumePipeline(p)
      PROVE  IdleStopIsFinal'
  <2>1. UNCHANGED hold \/ hold' = [hold EXCEPT ![chan[p]] = FALSE]
    BY <1>16 DEF ResumePipeline
  <2>2. UNCHANGED <<how, clients>>
    BY <1>16 DEF ResumePipeline
  <2> QED BY <2>1, <2>2 DEF IdleStopIsFinal, TypeOK
<1>17. ASSUME NEW p \in Callers, ResumeCommit(p)
      PROVE  IdleStopIsFinal'
  BY <1>17 DEF ResumeCommit, IdleStopIsFinal
<1>18. ASSUME NEW p \in Callers, DropClient(p)
      PROVE  IdleStopIsFinal'
  <2>1. clients' = [clients EXCEPT ![chan[p]] = @ \ {p}] /\ UNCHANGED <<how, hold>>
    BY <1>18 DEF DropClient
  <2> QED BY <2>1 DEF IdleStopIsFinal, TypeOK
<1>19. ASSUME NEW p \in Callers, DropSession(p)
      PROVE  IdleStopIsFinal'
  <2>1. clients' = [clients EXCEPT ![chan[p]] = @ \ {p}] /\ UNCHANGED <<how, hold>>
    BY <1>19 DEF DropSession
  <2> QED BY <2>1 DEF IdleStopIsFinal, TypeOK
<1>20. ASSUME NEW p \in Callers, NEW c \in Chans, ForgetStuck(p, c)
      PROVE  IdleStopIsFinal'
  BY <1>20 DEF ForgetStuck, IdleStopIsFinal
<1>21. ASSUME NEW p \in Callers, NEW c \in Chans, NEW w \in SUBSET Chans, Reclaim(p, c, w)
      PROVE  IdleStopIsFinal'
  <2>1. entry[of[c]] = c /\ Remove(c, "reclaim") /\ UNCHANGED <<of, born, clients, hold>>
    BY <1>21 DEF Reclaim
  <2> QED BY <2>1, RemovedLeaves DEF MapInv, IdleStopIsFinal
<1>22. ASSUME NEW c \in Chans, StopWhenIdle(c)
      PROVE  IdleStopIsFinal'
  BY <1>22 DEF StopWhenIdle, IdleStopIsFinal
<1>23. ASSUME NEW c \in Chans, StopIfIdle(c)
      PROVE  IdleStopIsFinal'
  BY <1>23 DEF StopIfIdle, IdleStopIsFinal
<1>24. ASSUME NEW c \in Chans, Decision(c)
      PROVE  IdleStopIsFinal'
  <2>1. StopIfStillIdle(c) /\ UNCHANGED <<of, born, clients, hold>>
    BY <1>24 DEF Decision, DecideAtOnce, CountdownEnds, StaleCountdownEnds,
                 StopIfStillIdle
  <2>2. CASE UNCHANGED how
    BY <2>1, <2>2 DEF IdleStopIsFinal
  <2>3. CASE clients[c] = {} /\ ~hold[c] /\ entry[of[c]] = c /\ Remove(c, "idle")
    BY <2>1, <2>3, RemovedLeaves DEF MapInv, IdleStopIsFinal
  <2> QED BY <2>1, <2>2, <2>3 DEF StopIfStillIdle
<1>25. ASSUME NEW c \in Chans, EndSessions(c)
      PROVE  IdleStopIsFinal'
  BY <1>25 DEF EndSessions, IdleStopIsFinal
<1>26. ASSUME NEW c \in Chans, Cancel(c)
      PROVE  IdleStopIsFinal'
  BY <1>26 DEF Cancel, IdleStopIsFinal
<1>27. ASSUME NEW c \in Chans, StopOutputs(c)
      PROVE  IdleStopIsFinal'
  <2>1. hold' = [hold EXCEPT ![c] = FALSE] /\ UNCHANGED <<how, clients>>
    BY <1>27 DEF StopOutputs
  <2> QED BY <2>1 DEF IdleStopIsFinal, TypeOK
<1>28. ASSUME NEW c \in Chans, CloseRing(c)
      PROVE  IdleStopIsFinal'
  BY <1>28 DEF CloseRing, IdleStopIsFinal
<1>29. ASSUME NEW c \in Chans, FireRunEnd(c)
      PROVE  IdleStopIsFinal'
  BY <1>29 DEF FireRunEnd, IdleStopIsFinal
<1>30. ASSUME NEW c \in Chans, ReleaseSlot(c)
      PROVE  IdleStopIsFinal'
  BY <1>30 DEF ReleaseSlot, IdleStopIsFinal
<1>31. ASSUME NEW c \in Chans, Released(c)
      PROVE  IdleStopIsFinal'
  BY <1>31 DEF Released, IdleStopIsFinal
<1>32. ASSUME NEW c \in Chans, HookSweeps(c)
      PROVE  IdleStopIsFinal'
  BY <1>32 DEF HookSweeps, IdleStopIsFinal
<1>33. ASSUME NEW c \in Chans, HookAsks(c)
      PROVE  IdleStopIsFinal'
  BY <1>33 DEF HookAsks, IdleStopIsFinal
<1>34. ASSUME NEW c \in Chans, EndLinger(c)
      PROVE  IdleStopIsFinal'
  <2>1. hold' = [hold EXCEPT ![c] = FALSE] /\ UNCHANGED <<how, clients>>
    BY <1>34 DEF EndLinger
  <2> QED BY <2>1 DEF IdleStopIsFinal, TypeOK
<1>35. ASSUME NEW c \in Chans, Promote(c)
      PROVE  IdleStopIsFinal'
  BY <1>35 DEF Promote, IdleStopIsFinal
<1>36. ASSUME NEW c \in Chans, RunReturns(c)
      PROVE  IdleStopIsFinal'
  BY <1>36 DEF RunReturns, IdleStopIsFinal
<1>37. ASSUME NEW i \in Ids, Stop(i)
      PROVE  IdleStopIsFinal'
  <2> DEFINE c == entry[i]
  <2>1. c \in Chans /\ entry[of[c]] = c
    BY <1>37 DEF Stop, MapInv, ListedUnderOwnId, TypeOK
  <2>2. Remove(c, "stop") /\ UNCHANGED <<of, born, clients, hold>>
    BY <1>37 DEF Stop
  <2> QED BY <2>1, <2>2, RemovedLeaves DEF MapInv, IdleStopIsFinal
<1> QED
  BY <1>1, <1>2, <1>3, <1>4, <1>5, <1>6, <1>7, <1>8, <1>9, <1>10, <1>11,
     <1>12, <1>13, <1>14, <1>15, <1>16, <1>17, <1>18, <1>19, <1>20, <1>21,
     <1>22, <1>23, <1>24, <1>25, <1>26, <1>27, <1>28, <1>29, <1>30, <1>31,
     <1>32, <1>33, <1>34, <1>35, <1>36, <1>37
  DEF Next, Attaching, Winding, Decision
\* The last clients of a reclaimed channel.
Leaving == {"halted", "departing", "leaving"}

\* A step that leaves the clients and the leaving callers alone keeps what is
\* known of a reclaimed channel's clients.
LEMMA LeaversKept ==
  ASSUME TypeOK, TypeOK', ReclaimTakesNoViewer,
         \A c \in Chans : how'[c] = "reclaim" => how[c] = "reclaim",
         \A c \in Chans : how'[c] = "reclaim" => clients'[c] \subseteq clients[c],
         \A c \in Chans : \A p \in clients'[c] : pc[p] \in Leaving => pc'[p] \in Leaving
  PROVE  ReclaimTakesNoViewer'
BY DEF ReclaimTakesNoViewer, Leaving, TypeOK


\* Every step keeps a reclaimed channel without viewers.
LEMMA ReclaimKept ==
  ASSUME TypeOK, TypeOK', MapInv, BirthInv, ClientsAreAttached, LeftIsUnlisted,
         ReclaimTakesNoViewer, Next, Next
  PROVE  ReclaimTakesNoViewer'
<1> USE DEF managerVars, birthVars, runVars, hlsVars, idleTasks, stopTasks,
           askVars, callerVars
<1>1. ASSUME NEW p \in Callers, NEW i \in Ids, Tune(p, i)
      PROVE  ReclaimTakesNoViewer'
  <2>1. pc[p] \notin Leaving \/ pc'[p] \in Leaving
    BY <1>1 DEF Tune, Leaving, Goes, TypeOK
  <2>2. /\ UNCHANGED <<how, clients>>
        /\ \A q \in Callers \ { p } : pc'[q] = pc[q]
    BY <1>1 DEF Tune, Goes, TypeOK
  <2> QED BY <2>1, <2>2, LeaversKept DEF TypeOK
<1>2. ASSUME NEW p \in Callers, ClaimJoins(p)
      PROVE  ReclaimTakesNoViewer'
  <2> DEFINE c == entry[id[p]]
  <2>1. c \in Chans /\ entry[of[c]] = c
    BY <1>2 DEF ClaimJoins, MapInv, ListedUnderOwnId, TypeOK
  <2>2. /\ AddClient(c, p) /\ UNCHANGED how /\ pc[p] = "claim"
        /\ \A q \in Callers \ { p } : pc'[q] = pc[q]
    BY <1>2 DEF ClaimJoins, Goes, TypeOK
  <2>3. how[c] = "no" /\ \A d \in Chans \ { c } : clients'[d] = clients[d]
    BY <2>1, <2>2, JoinsListed
  <2> QED BY <2>2, <2>3, LeaversKept DEF Leaving, TypeOK
<1>3. ASSUME NEW p \in Callers, ClaimStarts(p)
      PROVE  ReclaimTakesNoViewer'
  <2> DEFINE c == entry[id[p]]
  <2>1. /\ UNCHANGED clients /\ pc[p] = "claim"
        /\ \A q \in Callers \ { p } : pc'[q] = pc[q]
    BY <1>3 DEF ClaimStarts, Goes, TypeOK
  <2>2. CASE c = 0
    <3>1. UNCHANGED how
      BY <1>3, <2>2 DEF ClaimStarts
    <3> QED BY <2>1, <3>1, LeaversKept DEF Leaving, TypeOK
  <2>3. CASE c # 0
    <3>1. Remove(c, "ended") /\ UNCHANGED <<of, born>>
      BY <1>3, <2>3 DEF ClaimStarts
    <3>2. c \in Chans /\ entry[of[c]] = c
      BY <1>3, <2>3 DEF MapInv, ListedUnderOwnId, TypeOK
    <3>3. \A d \in Chans : how'[d] = "reclaim" => how[d] = "reclaim"
      BY <3>1, <3>2, RemovedLeaves DEF MapInv
    <3> QED BY <2>1, <3>3, LeaversKept DEF Leaving, TypeOK
  <2> QED BY <2>2, <2>3
<1>4. ASSUME NEW p \in Callers, StartFails(p)
      PROVE  ReclaimTakesNoViewer'
  <2>1. pc[p] \notin Leaving \/ pc'[p] \in Leaving
    BY <1>4 DEF StartFails, Leaving, Goes, TypeOK
  <2>2. /\ UNCHANGED <<how, clients>>
        /\ \A q \in Callers \ { p } : pc'[q] = pc[q]
    BY <1>4 DEF StartFails, Goes, TypeOK
  <2> QED BY <2>1, <2>2, LeaversKept DEF TypeOK
<1>5. ASSUME NEW p \in Callers, Publish(p)
      PROVE  ReclaimTakesNoViewer'
  <2> DEFINE c == born + 1
  <2>1. /\ c \in Chans /\ c > born /\ UNCHANGED how
        /\ clients' = [clients EXCEPT ![c] = {p}]
        /\ pc[p] = "start" /\ \A q \in Callers \ { p } : pc'[q] = pc[q]
    BY <1>5 DEF Publish, Goes, TypeOK
  <2>2. how[c] = "no"
    BY <2>1 DEF LeftIsUnlisted, TypeOK
  <2>3. \A d \in Chans \ { c } : clients'[d] = clients[d]
    BY <2>1 DEF TypeOK
  <2> QED BY <2>1, <2>2, <2>3, LeaversKept DEF Leaving, TypeOK
<1>6. ASSUME NEW p \in Callers, Spawn(p)
      PROVE  ReclaimTakesNoViewer'
  <2>1. pc[p] \notin Leaving \/ pc'[p] \in Leaving
    BY <1>6 DEF Spawn, Leaving, Goes, TypeOK
  <2>2. /\ UNCHANGED <<how, clients>>
        /\ \A q \in Callers \ { p } : pc'[q] = pc[q]
    BY <1>6 DEF Spawn, Goes, TypeOK
  <2> QED BY <2>1, <2>2, LeaversKept DEF TypeOK
<1>7. ASSUME NEW p \in Callers, DeleteGate(p)
      PROVE  ReclaimTakesNoViewer'
  <2>1. pc[p] \notin Leaving \/ pc'[p] \in Leaving
    BY <1>7 DEF DeleteGate, Leaving, Goes, TypeOK
  <2>2. /\ UNCHANGED <<how, clients>>
        /\ \A q \in Callers \ { p } : pc'[q] = pc[q]
    BY <1>7 DEF DeleteGate, Goes, TypeOK
  <2> QED BY <2>1, <2>2, LeaversKept DEF TypeOK
<1>8. ASSUME NEW p \in Callers, CloseGate(p)
      PROVE  ReclaimTakesNoViewer'
  <2>1. \A q \in Callers : pc[q] \in Leaving => pc'[q] = pc[q]
    BY <1>8 DEF CloseGate, Leaving, TypeOK
  <2>2. UNCHANGED <<how, clients>>
    BY <1>8 DEF CloseGate
  <2> QED BY <2>1, <2>2, LeaversKept DEF TypeOK
<1>9. ASSUME NEW p \in Callers, AttachHLS(p)
      PROVE  ReclaimTakesNoViewer'
  <2>1. pc[p] \notin Leaving \/ pc'[p] \in Leaving
    BY <1>9 DEF AttachHLS, Leaving, Goes, TypeOK
  <2>2. /\ UNCHANGED <<how, clients>>
        /\ \A q \in Callers \ { p } : pc'[q] = pc[q]
    BY <1>9 DEF AttachHLS, Goes, TypeOK
  <2> QED BY <2>1, <2>2, LeaversKept DEF TypeOK
<1>10. ASSUME NEW p \in Callers, AddSession(p)
      PROVE  ReclaimTakesNoViewer'
  <2>1. pc[p] \notin Leaving \/ pc'[p] \in Leaving
    BY <1>10 DEF AddSession, Leaving, Goes, TypeOK
  <2>2. /\ UNCHANGED <<how, clients>>
        /\ \A q \in Callers \ { p } : pc'[q] = pc[q]
    BY <1>10 DEF AddSession, Goes, TypeOK
  <2> QED BY <2>1, <2>2, LeaversKept DEF TypeOK
<1>11. ASSUME NEW p \in Callers, SeesOpenRing(p)
      PROVE  ReclaimTakesNoViewer'
  <2>1. pc[p] \notin Leaving \/ pc'[p] \in Leaving
    BY <1>11 DEF SeesOpenRing, Leaving, Goes, TypeOK
  <2>2. /\ UNCHANGED <<how, clients>>
        /\ \A q \in Callers \ { p } : pc'[q] = pc[q]
    BY <1>11 DEF SeesOpenRing, Goes, TypeOK
  <2> QED BY <2>1, <2>2, LeaversKept DEF TypeOK
<1>12. ASSUME NEW p \in Callers, Activate(p)
      PROVE  ReclaimTakesNoViewer'
  <2>1. pc[p] \notin Leaving \/ pc'[p] \in Leaving
    BY <1>12 DEF Activate, Leaving, Goes, TypeOK
  <2>2. /\ UNCHANGED <<how, clients>>
        /\ \A q \in Callers \ { p } : pc'[q] = pc[q]
    BY <1>12 DEF Activate, Goes, TypeOK
  <2> QED BY <2>1, <2>2, LeaversKept DEF TypeOK
<1>13. ASSUME NEW p \in Callers, TakeReleases(p)
      PROVE  ReclaimTakesNoViewer'
  <2>1. pc[p] \notin Leaving \/ pc'[p] \in Leaving
    BY <1>13 DEF TakeReleases, Leaving, Goes, TypeOK
  <2>2. /\ UNCHANGED <<how, clients>>
        /\ \A q \in Callers \ { p } : pc'[q] = pc[q]
    BY <1>13 DEF TakeReleases, Goes, TypeOK
  <2> QED BY <2>1, <2>2, LeaversKept DEF TypeOK
<1>14. ASSUME NEW p \in Callers, ReleaseOutput(p)
      PROVE  ReclaimTakesNoViewer'
  <2>1. pc[p] \notin Leaving \/ pc'[p] \in Leaving
    BY <1>14 DEF ReleaseOutput, Leaving, Goes, TypeOK
  <2>2. /\ UNCHANGED <<how, clients>>
        /\ \A q \in Callers \ { p } : pc'[q] = pc[q]
    BY <1>14 DEF ReleaseOutput, Goes, TypeOK
  <2> QED BY <2>1, <2>2, LeaversKept DEF TypeOK
<1>15. ASSUME NEW p \in Callers, Resume(p)
      PROVE  ReclaimTakesNoViewer'
  <2> DEFINE c == chan[p]
  <2>1. c \in Chans
    BY <1>15 DEF Resume, BirthInv, CallersHoldBorn, Held, TypeOK
  <2>2. /\ UNCHANGED how /\ pc[p] = "away"
        /\ \A q \in Callers \ { p } : pc'[q] = pc[q]
    BY <1>15 DEF Resume, Goes, TypeOK
  <2>3. CASE entry[of[c]] = c /\ AddClient(c, p)
    <3>1. how[c] = "no" /\ \A d \in Chans \ { c } : clients'[d] = clients[d]
      BY <2>1, <2>2, <2>3, JoinsListed
    <3> QED BY <2>2, <3>1, LeaversKept DEF Leaving, TypeOK
  <2>4. CASE UNCHANGED clients
    BY <2>2, <2>4, LeaversKept DEF Leaving, TypeOK
  <2> QED BY <1>15, <2>3, <2>4 DEF Resume
<1>16. ASSUME NEW p \in Callers, ResumePipeline(p)
      PROVE  ReclaimTakesNoViewer'
  <2>1. pc[p] \notin Leaving \/ pc'[p] \in Leaving
    BY <1>16 DEF ResumePipeline, Leaving, Goes, TypeOK
  <2>2. /\ UNCHANGED <<how, clients>>
        /\ \A q \in Callers \ { p } : pc'[q] = pc[q]
    BY <1>16 DEF ResumePipeline, Goes, TypeOK
  <2> QED BY <2>1, <2>2, LeaversKept DEF TypeOK
<1>17. ASSUME NEW p \in Callers, ResumeCommit(p)
      PROVE  ReclaimTakesNoViewer'
  <2>1. pc[p] \notin Leaving \/ pc'[p] \in Leaving
    BY <1>17 DEF ResumeCommit, Leaving, Goes, TypeOK
  <2>2. /\ UNCHANGED <<how, clients>>
        /\ \A q \in Callers \ { p } : pc'[q] = pc[q]
    BY <1>17 DEF ResumeCommit, Goes, TypeOK
  <2> QED BY <2>1, <2>2, LeaversKept DEF TypeOK
<1>18. ASSUME NEW p \in Callers, DropClient(p)
      PROVE  ReclaimTakesNoViewer'
  <2>1. /\ clients' = [clients EXCEPT ![chan[p]] = @ \ {p}] /\ UNCHANGED how
        /\ \A q \in Callers \ { p } : pc'[q] = pc[q]
    BY <1>18 DEF DropClient, Goes, TypeOK
  <2>2. \A c \in Chans : clients'[c] \subseteq clients[c]
    BY <2>1 DEF TypeOK
  <2>3. \A c \in Chans : p \notin clients'[c]
    BY <1>18, <2>1 DEF DropClient, ClientsAreAttached, TypeOK
  <2> QED BY <2>1, <2>2, <2>3, LeaversKept DEF TypeOK
<1>19. ASSUME NEW p \in Callers, DropSession(p)
      PROVE  ReclaimTakesNoViewer'
  <2>1. /\ clients' = [clients EXCEPT ![chan[p]] = @ \ {p}] /\ UNCHANGED how
        /\ \A q \in Callers \ { p } : pc'[q] = pc[q]
    BY <1>19 DEF DropSession, Goes, TypeOK
  <2>2. \A c \in Chans : clients'[c] \subseteq clients[c]
    BY <2>1 DEF TypeOK
  <2>3. \A c \in Chans : p \notin clients'[c]
    BY <1>19, <2>1 DEF DropSession, ClientsAreAttached, TypeOK
  <2> QED BY <2>1, <2>2, <2>3, LeaversKept DEF TypeOK
<1>20. ASSUME NEW p \in Callers, NEW c \in Chans, ForgetStuck(p, c)
      PROVE  ReclaimTakesNoViewer'
  BY <1>20 DEF ForgetStuck, ReclaimTakesNoViewer
<1>21. ASSUME NEW p \in Callers, NEW c \in Chans, NEW w \in SUBSET Chans, Reclaim(p, c, w)
      PROVE  ReclaimTakesNoViewer'
  <2>1. /\ entry[of[c]] = c /\ Remove(c, "reclaim") /\ StopSessions(c, "halted")
        /\ MayBeSilent(c) /\ UNCHANGED <<of, born, clients>>
    BY <1>21 DEF Reclaim
  <2>2. \A d \in Chans \ { c } : how'[d] = how[d]
    BY <2>1, RemovedLeaves DEF MapInv
  <2>3. \A q \in Callers : pc[q] \in Leaving => pc'[q] = pc[q]
    BY <2>1 DEF StopSessions, Leaving, TypeOK
  <2>4. \A q \in clients[c] : pc'[q] \in Leaving
    BY <2>1 DEF StopSessions, MayBeSilent, ClientsAreAttached, Leaving, TypeOK
  <2> QED BY <2>1, <2>2, <2>3, <2>4 DEF ReclaimTakesNoViewer, Leaving, TypeOK
<1>22. ASSUME NEW c \in Chans, StopWhenIdle(c)
      PROVE  ReclaimTakesNoViewer'
  BY <1>22 DEF StopWhenIdle, ReclaimTakesNoViewer
<1>23. ASSUME NEW c \in Chans, StopIfIdle(c)
      PROVE  ReclaimTakesNoViewer'
  BY <1>23 DEF StopIfIdle, ReclaimTakesNoViewer
<1>24. ASSUME NEW c \in Chans, Decision(c)
      PROVE  ReclaimTakesNoViewer'
  <2>1. StopIfStillIdle(c) /\ UNCHANGED <<of, born, clients, pc>>
    BY <1>24 DEF Decision, DecideAtOnce, CountdownEnds, StaleCountdownEnds,
                 StopIfStillIdle
  <2>2. CASE UNCHANGED how
    BY <2>1, <2>2 DEF ReclaimTakesNoViewer
  <2>3. CASE entry[of[c]] = c /\ Remove(c, "idle")
    BY <2>1, <2>3, RemovedLeaves DEF MapInv, ReclaimTakesNoViewer
  <2> QED BY <2>1, <2>2, <2>3 DEF StopIfStillIdle
<1>25. ASSUME NEW c \in Chans, EndSessions(c)
      PROVE  ReclaimTakesNoViewer'
  <2>1. \A q \in Callers : pc[q] \in Leaving => pc'[q] = pc[q]
    BY <1>25 DEF EndSessions, StopSessions, Leaving, TypeOK
  <2>2. UNCHANGED <<how, clients>>
    BY <1>25 DEF EndSessions
  <2> QED BY <2>1, <2>2, LeaversKept DEF TypeOK
<1>26. ASSUME NEW c \in Chans, Cancel(c)
      PROVE  ReclaimTakesNoViewer'
  BY <1>26 DEF Cancel, ReclaimTakesNoViewer
<1>27. ASSUME NEW c \in Chans, StopOutputs(c)
      PROVE  ReclaimTakesNoViewer'
  BY <1>27 DEF StopOutputs, ReclaimTakesNoViewer
<1>28. ASSUME NEW c \in Chans, CloseRing(c)
      PROVE  ReclaimTakesNoViewer'
  BY <1>28 DEF CloseRing, ReclaimTakesNoViewer
<1>29. ASSUME NEW c \in Chans, FireRunEnd(c)
      PROVE  ReclaimTakesNoViewer'
  BY <1>29 DEF FireRunEnd, ReclaimTakesNoViewer
<1>30. ASSUME NEW c \in Chans, ReleaseSlot(c)
      PROVE  ReclaimTakesNoViewer'
  BY <1>30 DEF ReleaseSlot, ReclaimTakesNoViewer
<1>31. ASSUME NEW c \in Chans, Released(c)
      PROVE  ReclaimTakesNoViewer'
  BY <1>31 DEF Released, ReclaimTakesNoViewer
<1>32. ASSUME NEW c \in Chans, HookSweeps(c)
      PROVE  ReclaimTakesNoViewer'
  <2>1. \A q \in Callers : pc[q] \in Leaving => pc'[q] = pc[q]
    BY <1>32 DEF HookSweeps, StopSessions, Leaving, TypeOK
  <2>2. UNCHANGED <<how, clients>>
    BY <1>32 DEF HookSweeps
  <2> QED BY <2>1, <2>2, LeaversKept DEF TypeOK
<1>33. ASSUME NEW c \in Chans, HookAsks(c)
      PROVE  ReclaimTakesNoViewer'
  BY <1>33 DEF HookAsks, ReclaimTakesNoViewer
<1>34. ASSUME NEW c \in Chans, EndLinger(c)
      PROVE  ReclaimTakesNoViewer'
  BY <1>34 DEF EndLinger, ReclaimTakesNoViewer
<1>35. ASSUME NEW c \in Chans, Promote(c)
      PROVE  ReclaimTakesNoViewer'
  BY <1>35 DEF Promote, ReclaimTakesNoViewer
<1>36. ASSUME NEW c \in Chans, RunReturns(c)
      PROVE  ReclaimTakesNoViewer'
  BY <1>36 DEF RunReturns, ReclaimTakesNoViewer
<1>37. ASSUME NEW i \in Ids, Stop(i)
      PROVE  ReclaimTakesNoViewer'
  <2> DEFINE c == entry[i]
  <2>1. c \in Chans /\ entry[of[c]] = c
    BY <1>37 DEF Stop, MapInv, ListedUnderOwnId, TypeOK
  <2>2. Remove(c, "stop") /\ UNCHANGED <<of, born, clients, pc>>
    BY <1>37 DEF Stop
  <2> QED BY <2>1, <2>2, RemovedLeaves DEF MapInv, ReclaimTakesNoViewer
<1> QED
  BY <1>1, <1>2, <1>3, <1>4, <1>5, <1>6, <1>7, <1>8, <1>9, <1>10, <1>11,
     <1>12, <1>13, <1>14, <1>15, <1>16, <1>17, <1>18, <1>19, <1>20, <1>21,
     <1>22, <1>23, <1>24, <1>25, <1>26, <1>27, <1>28, <1>29, <1>30, <1>31,
     <1>32, <1>33, <1>34, <1>35, <1>36, <1>37
  DEF Next, Attaching, Winding, Decision
----------------------------------------------------------------------------
(* Sessions. *)

\* A step of the callers alone, that serves nobody anew and stops nobody.
LEMMA CallersOnly ==
  ASSUME TypeOK, SessionInv,
         UNCHANGED <<hook, stage, chan, of>>,
         \A i \in Ids : entry'[i] \in {entry[i], 0},
         \A p \in Callers : /\ pc'[p] \in Serving => pc[p] \in Serving
                            /\ pc'[p] \in {"halted", "swept"} => pc'[p] = pc[p]
                            /\ pc'[p] = "halted" => chan[p] \in Chans
  PROVE  SessionInv'
<1> USE DEF SessionInv
<1>1. HookFollowsRing'
  BY DEF HookFollowsRing, RingClosed
<1>2. NoneServedAfterSweep'
  BY DEF NoneServedAfterSweep
<1>3. StoppedSessionsAreMoot'
  <2>1. ASSUME NEW p \in Callers, pc'[p] = "halted"
        PROVE  entry'[of[chan[p]]] # chan[p]
    <3>1. chan[p] \in Chans /\ entry[of[chan[p]]] # chan[p]
      BY <2>1 DEF StoppedSessionsAreMoot
    <3>2. chan[p] # 0
      BY <3>1, ConstantsAssumption DEF Chans, ConstantsAssumption
    <3>3. of[chan[p]] \in Ids
      BY <3>1 DEF TypeOK
    <3> QED BY <3>1, <3>2, <3>3
  <2>2. \A p \in Callers : pc'[p] = "swept" => OutputsStopped(chan[p])
    BY DEF StoppedSessionsAreMoot
  <2> QED BY <2>1, <2>2 DEF StoppedSessionsAreMoot, OutputsStopped
<1> QED BY <1>1, <1>2, <1>3

\* The run goes on to its end, and no caller moves.
LEMMA RunOnly ==
  ASSUME TypeOK, SessionInv,
         UNCHANGED <<pc, chan, of, entry, hook>>,
         \A c \in Chans : RingClosed(c) => RingClosed(c)',
         \A c \in Chans : OutputsStopped(c) => OutputsStopped(c)',
         \A p \in Callers : pc[p] = "swept" => chan[p] \in Chans
  PROVE  SessionInv'
BY DEF SessionInv, HookFollowsRing, NoneServedAfterSweep, StoppedSessionsAreMoot


\* Every step keeps what is known of the sessions.
LEMMA SessionsKept ==
  ASSUME TypeOK, TypeOK', MapInv, BirthInv, RunInv, LeftIsUnlisted,
         SessionInv, Next, Next
  PROVE  SessionInv'
<1> USE DEF managerVars, birthVars, runVars, hlsVars, idleTasks, stopTasks,
           askVars, callerVars
<1>1. ASSUME NEW p \in Callers, NEW i \in Ids, Tune(p, i)
      PROVE  SessionInv'
  <2>1. \A q \in Callers : pc[q] \in {"halted", "swept"} => chan[q] \in Chans
    BY DEF BirthInv, CallersHoldBorn, Held, TypeOK
  <2>2. UNCHANGED <<hook, stage, chan, of>>
    BY <1>1 DEF Tune
  <2>3. \A j \in Ids : entry'[j] \in {entry[j], 0}
    BY <1>1 DEF Tune, TypeOK
  <2>4. \A q \in Callers : /\ pc'[q] \in Serving => pc[q] \in Serving
                           /\ pc'[q] \in {"halted", "swept"} => pc'[q] = pc[q]
    BY <1>1 DEF Tune, Serving, Goes, TypeOK
  <2> QED BY <2>1, <2>2, <2>3, <2>4, CallersOnly
<1>2. ASSUME NEW p \in Callers, ClaimJoins(p)
      PROVE  SessionInv'
  <2>1. /\ pc'[p] \notin Serving \cup {"halted", "swept"}
        /\ \A q \in Callers \ { p } : pc'[q] = pc[q] /\ chan'[q] = chan[q]
    BY <1>2 DEF ClaimJoins, Serving, Goes, TypeOK
  <2>2. UNCHANGED <<hook, entry, of, stage>>
    BY <1>2 DEF ClaimJoins
  <2> QED BY <2>1, <2>2 DEF SessionInv, HookFollowsRing, NoneServedAfterSweep,
             StoppedSessionsAreMoot, RingClosed, OutputsStopped
<1>3. ASSUME NEW p \in Callers, ClaimStarts(p)
      PROVE  SessionInv'
  <2>1. \A q \in Callers : pc[q] \in {"halted", "swept"} => chan[q] \in Chans
    BY DEF BirthInv, CallersHoldBorn, Held, TypeOK
  <2>2. UNCHANGED <<hook, stage, chan, of>>
    BY <1>3 DEF ClaimStarts, Remove
  <2>3. \A j \in Ids : entry'[j] \in {entry[j], 0}
    BY <1>3 DEF ClaimStarts, Remove, TypeOK
  <2>4. \A q \in Callers : /\ pc'[q] \in Serving => pc[q] \in Serving
                           /\ pc'[q] \in {"halted", "swept"} => pc'[q] = pc[q]
    BY <1>3 DEF ClaimStarts, Remove, Serving, Goes, TypeOK
  <2> QED BY <2>1, <2>2, <2>3, <2>4, CallersOnly
<1>4. ASSUME NEW p \in Callers, StartFails(p)
      PROVE  SessionInv'
  <2>1. /\ pc'[p] \notin Serving \cup {"halted", "swept"}
        /\ \A q \in Callers \ { p } : pc'[q] = pc[q] /\ chan'[q] = chan[q]
    BY <1>4 DEF StartFails, Serving, Goes, TypeOK
  <2>2. UNCHANGED <<hook, entry, of, stage>>
    BY <1>4 DEF StartFails
  <2> QED BY <2>1, <2>2 DEF SessionInv, HookFollowsRing, NoneServedAfterSweep,
             StoppedSessionsAreMoot, RingClosed, OutputsStopped
<1>5. ASSUME NEW p \in Callers, Publish(p)
      PROVE  SessionInv'
  <2> DEFINE c == born + 1
  <2>1. /\ pc'[p] \notin Serving \cup {"halted", "swept"}
        /\ \A q \in Callers \ { p } : pc'[q] = pc[q] /\ chan'[q] = chan[q]
    BY <1>5 DEF Publish, Serving, Goes, TypeOK
  <2>2. /\ c \in Chans /\ c > born /\ of' = [of EXCEPT ![c] = id[p]] /\ UNCHANGED hook
        /\ entry' = [entry EXCEPT ![id[p]] = c] /\ stage' = [stage EXCEPT ![c] = "made"]
    BY <1>5 DEF Publish, TypeOK
  <2>3. hook[c] = "no"
    BY <2>2 DEF BirthInv, UnbornIsFresh
  <2>4. \A d \in Chans \ { c } : of'[d] = of[d] /\ stage'[d] = stage[d]
    BY <2>2 DEF TypeOK
  <2>5. HookFollowsRing'
    BY <2>2, <2>3, <2>4 DEF SessionInv, HookFollowsRing, RingClosed
  <2>6. NoneServedAfterSweep'
    BY <2>1, <2>2 DEF SessionInv, NoneServedAfterSweep
  <2>7. ASSUME NEW q \in Callers, pc'[q] \in {"halted", "swept"}
        PROVE  /\ q # p /\ pc[q] = pc'[q] /\ chan'[q] = chan[q]
               /\ chan[q] \in Chans \ { c }
    <3>1. q # p /\ pc[q] = pc'[q] /\ chan'[q] = chan[q]
      BY <2>1, <2>7
    <3>2. chan[q] \in Chans /\ chan[q] <= born
      BY <2>7, <3>1 DEF BirthInv, CallersHoldBorn, Held, TypeOK
    <3> QED BY <2>2, <3>1, <3>2 DEF TypeOK, Chans
  <2>8. StoppedSessionsAreMoot'
    <3>1. ASSUME NEW q \in Callers, pc'[q] = "halted"
          PROVE  entry'[of'[chan'[q]]] # chan'[q]
      <4>1. /\ chan'[q] = chan[q] /\ chan[q] \in Chans \ { c }
            /\ entry[of[chan[q]]] # chan[q]
        BY <2>7, <3>1 DEF SessionInv, StoppedSessionsAreMoot
      <4>2. of'[chan[q]] = of[chan[q]] /\ of[chan[q]] \in Ids
        BY <2>4, <4>1 DEF TypeOK
      <4> QED BY <2>2, <4>1, <4>2 DEF TypeOK
    <3>2. ASSUME NEW q \in Callers, pc'[q] = "swept"
          PROVE  OutputsStopped(chan[q])'
      BY <2>4, <2>7, <3>2 DEF SessionInv, StoppedSessionsAreMoot, OutputsStopped
    <3> QED BY <3>1, <3>2 DEF StoppedSessionsAreMoot
  <2> QED BY <2>5, <2>6, <2>8 DEF SessionInv
<1>6. ASSUME NEW p \in Callers, Spawn(p)
      PROVE  SessionInv'
  <2>1. chan[p] \in Chans /\ stage[chan[p]] = "made"
    BY <1>6 DEF Spawn, BirthInv, SpawnsWhatItMade, CallersHoldBorn, Held, TypeOK
  <2>2. /\ stage' = [stage EXCEPT ![chan[p]] = "run"] /\ pc' = [pc EXCEPT ![p] = "ungate"]
        /\ UNCHANGED <<hook, entry, of, chan>>
    BY <1>6 DEF Spawn, Goes
  <2>3. \A d \in Chans : /\ RingClosed(d) => RingClosed(d)'
                         /\ OutputsStopped(d) => OutputsStopped(d)'
    BY <2>1, <2>2 DEF RingClosed, OutputsStopped, TypeOK
  <2>4. \A q \in Callers : pc[q] = "swept" => chan[q] \in Chans
    BY DEF BirthInv, CallersHoldBorn, Held, TypeOK
  <2> QED BY <2>2, <2>3, <2>4 DEF SessionInv, HookFollowsRing, NoneServedAfterSweep,
             StoppedSessionsAreMoot, Serving, TypeOK
<1>7. ASSUME NEW p \in Callers, DeleteGate(p)
      PROVE  SessionInv'
  <2>1. \A q \in Callers : pc[q] \in {"halted", "swept"} => chan[q] \in Chans
    BY DEF BirthInv, CallersHoldBorn, Held, TypeOK
  <2>2. UNCHANGED <<hook, stage, chan, of>>
    BY <1>7 DEF DeleteGate
  <2>3. \A j \in Ids : entry'[j] \in {entry[j], 0}
    BY <1>7 DEF DeleteGate, TypeOK
  <2>4. \A q \in Callers : /\ pc'[q] \in Serving => pc[q] \in Serving
                           /\ pc'[q] \in {"halted", "swept"} => pc'[q] = pc[q]
    BY <1>7 DEF DeleteGate, Serving, Goes, TypeOK
  <2> QED BY <2>1, <2>2, <2>3, <2>4, CallersOnly
<1>8. ASSUME NEW p \in Callers, CloseGate(p)
      PROVE  SessionInv'
  <2>1. \A q \in Callers : pc[q] \in {"halted", "swept"} => chan[q] \in Chans
    BY DEF BirthInv, CallersHoldBorn, Held, TypeOK
  <2>2. UNCHANGED <<hook, stage, chan, of>>
    BY <1>8 DEF CloseGate
  <2>3. \A j \in Ids : entry'[j] \in {entry[j], 0}
    BY <1>8 DEF CloseGate, TypeOK
  <2>4. \A q \in Callers : /\ pc'[q] \in Serving => pc[q] \in Serving
                           /\ pc'[q] \in {"halted", "swept"} => pc'[q] = pc[q]
    BY <1>8 DEF CloseGate, Serving, Goes, TypeOK
  <2> QED BY <2>1, <2>2, <2>3, <2>4, CallersOnly
<1>9. ASSUME NEW p \in Callers, AttachHLS(p)
      PROVE  SessionInv'
  <2>1. \A q \in Callers : pc[q] \in {"halted", "swept"} => chan[q] \in Chans
    BY DEF BirthInv, CallersHoldBorn, Held, TypeOK
  <2>2. UNCHANGED <<hook, stage, chan, of>>
    BY <1>9 DEF AttachHLS
  <2>3. \A j \in Ids : entry'[j] \in {entry[j], 0}
    BY <1>9 DEF AttachHLS, TypeOK
  <2>4. \A q \in Callers : /\ pc'[q] \in Serving => pc[q] \in Serving
                           /\ pc'[q] \in {"halted", "swept"} => pc'[q] = pc[q]
    BY <1>9 DEF AttachHLS, Serving, Goes, TypeOK
  <2> QED BY <2>1, <2>2, <2>3, <2>4, CallersOnly
<1>10. ASSUME NEW p \in Callers, AddSession(p)
      PROVE  SessionInv'
  <2>1. \A q \in Callers : pc[q] \in {"halted", "swept"} => chan[q] \in Chans
    BY DEF BirthInv, CallersHoldBorn, Held, TypeOK
  <2>2. UNCHANGED <<hook, stage, chan, of>>
    BY <1>10 DEF AddSession
  <2>3. \A j \in Ids : entry'[j] \in {entry[j], 0}
    BY <1>10 DEF AddSession, TypeOK
  <2>4. \A q \in Callers : /\ pc'[q] \in Serving => pc[q] \in Serving
                           /\ pc'[q] \in {"halted", "swept"} => pc'[q] = pc[q]
    BY <1>10 DEF AddSession, Serving, Goes, TypeOK
  <2> QED BY <2>1, <2>2, <2>3, <2>4, CallersOnly
<1>11. ASSUME NEW p \in Callers, SeesOpenRing(p)
      PROVE  SessionInv'
  <2>1. /\ pc' = [pc EXCEPT ![p] = "checked"] /\ ~RingClosed(chan[p])
        /\ UNCHANGED <<hook, entry, of, stage, chan>>
    BY <1>11 DEF SeesOpenRing, Goes
  <2>2. chan[p] \in Chans
    BY <1>11 DEF SeesOpenRing, BirthInv, CallersHoldBorn, Held, TypeOK
  <2>3. hook[chan[p]] = "no"
    BY <2>1, <2>2 DEF SessionInv, HookFollowsRing
  <2> QED BY <2>1, <2>3 DEF SessionInv, HookFollowsRing, NoneServedAfterSweep,
             StoppedSessionsAreMoot, RingClosed, OutputsStopped, Serving, TypeOK
<1>12. ASSUME NEW p \in Callers, Activate(p)
      PROVE  SessionInv'
  <2>1. \A q \in Callers : pc[q] \in {"halted", "swept"} => chan[q] \in Chans
    BY DEF BirthInv, CallersHoldBorn, Held, TypeOK
  <2>2. UNCHANGED <<hook, stage, chan, of>>
    BY <1>12 DEF Activate
  <2>3. \A j \in Ids : entry'[j] \in {entry[j], 0}
    BY <1>12 DEF Activate, TypeOK
  <2>4. \A q \in Callers : /\ pc'[q] \in Serving => pc[q] \in Serving
                           /\ pc'[q] \in {"halted", "swept"} => pc'[q] = pc[q]
    BY <1>12 DEF Activate, Serving, Goes, TypeOK
  <2> QED BY <2>1, <2>2, <2>3, <2>4, CallersOnly
<1>13. ASSUME NEW p \in Callers, TakeReleases(p)
      PROVE  SessionInv'
  <2>1. \A q \in Callers : pc[q] \in {"halted", "swept"} => chan[q] \in Chans
    BY DEF BirthInv, CallersHoldBorn, Held, TypeOK
  <2>2. UNCHANGED <<hook, stage, chan, of>>
    BY <1>13 DEF TakeReleases
  <2>3. \A j \in Ids : entry'[j] \in {entry[j], 0}
    BY <1>13 DEF TakeReleases, TypeOK
  <2>4. \A q \in Callers : /\ pc'[q] \in Serving => pc[q] \in Serving
                           /\ pc'[q] \in {"halted", "swept"} => pc'[q] = pc[q]
    BY <1>13 DEF TakeReleases, Serving, Goes, TypeOK
  <2> QED BY <2>1, <2>2, <2>3, <2>4, CallersOnly
<1>14. ASSUME NEW p \in Callers, ReleaseOutput(p)
      PROVE  SessionInv'
  <2>1. \A q \in Callers : pc[q] \in {"halted", "swept"} => chan[q] \in Chans
    BY DEF BirthInv, CallersHoldBorn, Held, TypeOK
  <2>2. UNCHANGED <<hook, stage, chan, of>>
    BY <1>14 DEF ReleaseOutput
  <2>3. \A j \in Ids : entry'[j] \in {entry[j], 0}
    BY <1>14 DEF ReleaseOutput, TypeOK
  <2>4. \A q \in Callers : /\ pc'[q] \in Serving => pc[q] \in Serving
                           /\ pc'[q] \in {"halted", "swept"} => pc'[q] = pc[q]
    BY <1>14 DEF ReleaseOutput, Serving, Goes, TypeOK
  <2> QED BY <2>1, <2>2, <2>3, <2>4, CallersOnly
<1>15. ASSUME NEW p \in Callers, Resume(p)
      PROVE  SessionInv'
  <2> DEFINE c == chan[p]
  <2>1. UNCHANGED <<hook, entry, of, stage, chan>>
    BY <1>15 DEF Resume
  <2>2. c \in Chans
    BY <1>15 DEF Resume, BirthInv, CallersHoldBorn, Held, TypeOK
  <2>3. \/ ~RingClosed(c) /\ pc' = [pc EXCEPT ![p] = "joining"]
        \/ pc' = [pc EXCEPT ![p] = "out"]
    BY <1>15 DEF Resume, Goes
  <2>4. ~RingClosed(c) => hook[c] = "no"
    BY <2>2 DEF SessionInv, HookFollowsRing
  <2> QED BY <2>1, <2>3, <2>4 DEF SessionInv, HookFollowsRing, NoneServedAfterSweep,
             StoppedSessionsAreMoot, RingClosed, OutputsStopped, Serving, TypeOK
<1>16. ASSUME NEW p \in Callers, ResumePipeline(p)
      PROVE  SessionInv'
  <2>1. \A q \in Callers : pc[q] \in {"halted", "swept"} => chan[q] \in Chans
    BY DEF BirthInv, CallersHoldBorn, Held, TypeOK
  <2>2. UNCHANGED <<hook, stage, chan, of>>
    BY <1>16 DEF ResumePipeline
  <2>3. \A j \in Ids : entry'[j] \in {entry[j], 0}
    BY <1>16 DEF ResumePipeline, TypeOK
  <2>4. \A q \in Callers : /\ pc'[q] \in Serving => pc[q] \in Serving
                           /\ pc'[q] \in {"halted", "swept"} => pc'[q] = pc[q]
    BY <1>16 DEF ResumePipeline, Serving, Goes, TypeOK
  <2> QED BY <2>1, <2>2, <2>3, <2>4, CallersOnly
<1>17. ASSUME NEW p \in Callers, ResumeCommit(p)
      PROVE  SessionInv'
  <2>1. \A q \in Callers : pc[q] \in {"halted", "swept"} => chan[q] \in Chans
    BY DEF BirthInv, CallersHoldBorn, Held, TypeOK
  <2>2. UNCHANGED <<hook, stage, chan, of>>
    BY <1>17 DEF ResumeCommit
  <2>3. \A j \in Ids : entry'[j] \in {entry[j], 0}
    BY <1>17 DEF ResumeCommit, TypeOK
  <2>4. \A q \in Callers : /\ pc'[q] \in Serving => pc[q] \in Serving
                           /\ pc'[q] \in {"halted", "swept"} => pc'[q] = pc[q]
    BY <1>17 DEF ResumeCommit, Serving, Goes, TypeOK
  <2> QED BY <2>1, <2>2, <2>3, <2>4, CallersOnly
<1>18. ASSUME NEW p \in Callers, DropClient(p)
      PROVE  SessionInv'
  <2>1. \A q \in Callers : pc[q] \in {"halted", "swept"} => chan[q] \in Chans
    BY DEF BirthInv, CallersHoldBorn, Held, TypeOK
  <2>2. UNCHANGED <<hook, stage, chan, of>>
    BY <1>18 DEF DropClient
  <2>3. \A j \in Ids : entry'[j] \in {entry[j], 0}
    BY <1>18 DEF DropClient, TypeOK
  <2>4. \A q \in Callers : /\ pc'[q] \in Serving => pc[q] \in Serving
                           /\ pc'[q] \in {"halted", "swept"} => pc'[q] = pc[q]
    BY <1>18 DEF DropClient, Serving, Goes, TypeOK
  <2> QED BY <2>1, <2>2, <2>3, <2>4, CallersOnly
<1>19. ASSUME NEW p \in Callers, DropSession(p)
      PROVE  SessionInv'
  <2>1. \A q \in Callers : pc[q] \in {"halted", "swept"} => chan[q] \in Chans
    BY DEF BirthInv, CallersHoldBorn, Held, TypeOK
  <2>2. UNCHANGED <<hook, stage, chan, of>>
    BY <1>19 DEF DropSession
  <2>3. \A j \in Ids : entry'[j] \in {entry[j], 0}
    BY <1>19 DEF DropSession, TypeOK
  <2>4. \A q \in Callers : /\ pc'[q] \in Serving => pc[q] \in Serving
                           /\ pc'[q] \in {"halted", "swept"} => pc'[q] = pc[q]
    BY <1>19 DEF DropSession, Serving, Goes, TypeOK
  <2> QED BY <2>1, <2>2, <2>3, <2>4, CallersOnly
<1>20. ASSUME NEW p \in Callers, NEW c \in Chans, ForgetStuck(p, c)
      PROVE  SessionInv'
  <2>1. \A q \in Callers : pc[q] \in {"halted", "swept"} => chan[q] \in Chans
    BY DEF BirthInv, CallersHoldBorn, Held, TypeOK
  <2>2. UNCHANGED <<hook, stage, chan, of>>
    BY <1>20 DEF ForgetStuck
  <2>3. \A j \in Ids : entry'[j] \in {entry[j], 0}
    BY <1>20 DEF ForgetStuck, TypeOK
  <2>4. \A q \in Callers : /\ pc'[q] \in Serving => pc[q] \in Serving
                           /\ pc'[q] \in {"halted", "swept"} => pc'[q] = pc[q]
    BY <1>20 DEF ForgetStuck, Serving, Goes, TypeOK
  <2> QED BY <2>1, <2>2, <2>3, <2>4, CallersOnly
<1>21. ASSUME NEW p \in Callers, NEW c \in Chans, NEW w \in SUBSET Chans, Reclaim(p, c, w)
      PROVE  SessionInv'
  <2>1. UNCHANGED <<chan, of, hook, stage>> /\ StopSessions(c, "halted")
    BY <1>21 DEF Reclaim
  <2>2. /\ entry'[of[c]] # c
        /\ \A d \in Chans \ { c } : entry'[of[d]] = d => entry[of[d]] = d
    <3>1. entry[of[c]] = c /\ Remove(c, "reclaim") /\ UNCHANGED <<of, born>>
      BY <1>21 DEF Reclaim
    <3> QED BY <3>1, RemovedLeaves DEF MapInv
  <2>3. ASSUME NEW q \in Callers
        PROVE  /\ pc'[q] \in Serving => pc[q] \in Serving
               /\ pc'[q] = "swept" => pc[q] = "swept"
               /\ pc'[q] = "halted" => pc[q] = "halted" \/ chan[q] = c
    BY <2>1 DEF StopSessions, Serving, TypeOK
  <2>4. \A q \in Callers : pc[q] = "halted" => chan[q] \in Chans
    BY DEF BirthInv, CallersHoldBorn, Held, TypeOK
  <2>5. HookFollowsRing'
    BY <2>1 DEF SessionInv, HookFollowsRing, RingClosed
  <2>6. NoneServedAfterSweep'
    BY <2>1, <2>3 DEF SessionInv, NoneServedAfterSweep
  <2>7. StoppedSessionsAreMoot'
    BY <2>1, <2>2, <2>3, <2>4 DEF SessionInv, StoppedSessionsAreMoot, OutputsStopped
  <2> QED BY <2>5, <2>6, <2>7 DEF SessionInv
<1>22. ASSUME NEW c \in Chans, StopWhenIdle(c)
      PROVE  SessionInv'
  <2>1. \A q \in Callers : pc[q] \in {"halted", "swept"} => chan[q] \in Chans
    BY DEF BirthInv, CallersHoldBorn, Held, TypeOK
  <2>2. UNCHANGED <<hook, stage, chan, of>>
    BY <1>22 DEF StopWhenIdle
  <2>3. \A j \in Ids : entry'[j] \in {entry[j], 0}
    BY <1>22 DEF StopWhenIdle, TypeOK
  <2>4. \A q \in Callers : /\ pc'[q] \in Serving => pc[q] \in Serving
                           /\ pc'[q] \in {"halted", "swept"} => pc'[q] = pc[q]
    BY <1>22 DEF StopWhenIdle, Serving, Goes, TypeOK
  <2> QED BY <2>1, <2>2, <2>3, <2>4, CallersOnly
<1>23. ASSUME NEW c \in Chans, StopIfIdle(c)
      PROVE  SessionInv'
  <2>1. \A q \in Callers : pc[q] \in {"halted", "swept"} => chan[q] \in Chans
    BY DEF BirthInv, CallersHoldBorn, Held, TypeOK
  <2>2. UNCHANGED <<hook, stage, chan, of>>
    BY <1>23 DEF StopIfIdle
  <2>3. \A j \in Ids : entry'[j] \in {entry[j], 0}
    BY <1>23 DEF StopIfIdle, TypeOK
  <2>4. \A q \in Callers : /\ pc'[q] \in Serving => pc[q] \in Serving
                           /\ pc'[q] \in {"halted", "swept"} => pc'[q] = pc[q]
    BY <1>23 DEF StopIfIdle, Serving, Goes, TypeOK
  <2> QED BY <2>1, <2>2, <2>3, <2>4, CallersOnly
<1>24. ASSUME NEW c \in Chans, Decision(c)
      PROVE  SessionInv'
  <2>1. \A q \in Callers : pc[q] \in {"halted", "swept"} => chan[q] \in Chans
    BY DEF BirthInv, CallersHoldBorn, Held, TypeOK
  <2>2. UNCHANGED <<hook, stage, chan, of>>
    BY <1>24 DEF Decision, DecideAtOnce, CountdownEnds, StaleCountdownEnds,
                 StopIfStillIdle, Remove
  <2>3. \A j \in Ids : entry'[j] \in {entry[j], 0}
    BY <1>24 DEF Decision, DecideAtOnce, CountdownEnds, StaleCountdownEnds,
                 StopIfStillIdle, Remove, TypeOK
  <2>4. \A q \in Callers : /\ pc'[q] \in Serving => pc[q] \in Serving
                           /\ pc'[q] \in {"halted", "swept"} => pc'[q] = pc[q]
    BY <1>24 DEF Decision, DecideAtOnce, CountdownEnds, StaleCountdownEnds,
                 StopIfStillIdle, Remove, Serving, Goes, TypeOK
  <2> QED BY <2>1, <2>2, <2>3, <2>4, CallersOnly
<1>25. ASSUME NEW c \in Chans, EndSessions(c)
      PROVE  SessionInv'
  <2>1. UNCHANGED <<chan, of, hook, stage>> /\ StopSessions(c, "halted")
    BY <1>25 DEF EndSessions
  <2>2. UNCHANGED entry /\ entry[of[c]] # c
    <3>1. sweeps[c] + cancels[c] > 0 /\ UNCHANGED entry
      BY <1>25 DEF EndSessions, TypeOK
    <3> QED BY <3>1 DEF RunInv, StoppingIsUnlisted
  <2>3. ASSUME NEW q \in Callers
        PROVE  /\ pc'[q] \in Serving => pc[q] \in Serving
               /\ pc'[q] = "swept" => pc[q] = "swept"
               /\ pc'[q] = "halted" => pc[q] = "halted" \/ chan[q] = c
    BY <2>1 DEF StopSessions, Serving, TypeOK
  <2>4. \A q \in Callers : pc[q] = "halted" => chan[q] \in Chans
    BY DEF BirthInv, CallersHoldBorn, Held, TypeOK
  <2>5. HookFollowsRing'
    BY <2>1 DEF SessionInv, HookFollowsRing, RingClosed
  <2>6. NoneServedAfterSweep'
    BY <2>1, <2>3 DEF SessionInv, NoneServedAfterSweep
  <2>7. StoppedSessionsAreMoot'
    BY <2>1, <2>2, <2>3, <2>4 DEF SessionInv, StoppedSessionsAreMoot, OutputsStopped
  <2> QED BY <2>5, <2>6, <2>7 DEF SessionInv
<1>26. ASSUME NEW c \in Chans, Cancel(c)
      PROVE  SessionInv'
  <2>1. \A q \in Callers : pc[q] \in {"halted", "swept"} => chan[q] \in Chans
    BY DEF BirthInv, CallersHoldBorn, Held, TypeOK
  <2>2. UNCHANGED <<hook, stage, chan, of>>
    BY <1>26 DEF Cancel
  <2>3. \A j \in Ids : entry'[j] \in {entry[j], 0}
    BY <1>26 DEF Cancel, TypeOK
  <2>4. \A q \in Callers : /\ pc'[q] \in Serving => pc[q] \in Serving
                           /\ pc'[q] \in {"halted", "swept"} => pc'[q] = pc[q]
    BY <1>26 DEF Cancel, Serving, Goes, TypeOK
  <2> QED BY <2>1, <2>2, <2>3, <2>4, CallersOnly
<1>27. ASSUME NEW c \in Chans, StopOutputs(c)
      PROVE  SessionInv'
  <2>1. UNCHANGED <<pc, chan, of, entry, hook>>
    BY <1>27 DEF StopOutputs
  <2>2. \A d \in Chans : /\ RingClosed(d) => RingClosed(d)'
                         /\ OutputsStopped(d) => OutputsStopped(d)'
    BY <1>27 DEF StopOutputs, RunStep, RingClosed, OutputsStopped, TypeOK
  <2>3. \A q \in Callers : pc[q] = "swept" => chan[q] \in Chans
    BY DEF BirthInv, CallersHoldBorn, Held, TypeOK
  <2> QED BY <2>1, <2>2, <2>3, RunOnly
<1>28. ASSUME NEW c \in Chans, CloseRing(c)
      PROVE  SessionInv'
  <2>1. UNCHANGED <<pc, chan, of, entry, hook>>
    BY <1>28 DEF CloseRing
  <2>2. \A d \in Chans : /\ RingClosed(d) => RingClosed(d)'
                         /\ OutputsStopped(d) => OutputsStopped(d)'
    BY <1>28 DEF CloseRing, RunStep, RingClosed, OutputsStopped, TypeOK
  <2>3. \A q \in Callers : pc[q] = "swept" => chan[q] \in Chans
    BY DEF BirthInv, CallersHoldBorn, Held, TypeOK
  <2> QED BY <2>1, <2>2, <2>3, RunOnly
<1>29. ASSUME NEW c \in Chans, FireRunEnd(c)
      PROVE  SessionInv'
  <2>1. UNCHANGED <<pc, chan, of, entry>> /\ hook' = [hook EXCEPT ![c] = "sweep"]
    BY <1>29 DEF FireRunEnd
  <2>2. \A d \in Chans : /\ RingClosed(d) => RingClosed(d)'
                         /\ OutputsStopped(d) => OutputsStopped(d)'
    BY <1>29 DEF FireRunEnd, RunStep, RingClosed, OutputsStopped, TypeOK
  <2>3. RingClosed(c)
    BY <1>29 DEF FireRunEnd, RunStep, RingClosed
  <2>4. \A q \in Callers : pc[q] \in Serving \cup {"swept"} => chan[q] \in Chans
    BY DEF BirthInv, CallersHoldBorn, Held, Serving, TypeOK
  <2> QED BY <2>1, <2>2, <2>3, <2>4 DEF SessionInv, HookFollowsRing,
                                        NoneServedAfterSweep,
             StoppedSessionsAreMoot, Serving, TypeOK
<1>30. ASSUME NEW c \in Chans, ReleaseSlot(c)
      PROVE  SessionInv'
  <2>1. UNCHANGED <<pc, chan, of, entry, hook>>
    BY <1>30 DEF ReleaseSlot
  <2>2. \A d \in Chans : /\ RingClosed(d) => RingClosed(d)'
                         /\ OutputsStopped(d) => OutputsStopped(d)'
    BY <1>30 DEF ReleaseSlot, RunStep, RingClosed, OutputsStopped, TypeOK
  <2>3. \A q \in Callers : pc[q] = "swept" => chan[q] \in Chans
    BY DEF BirthInv, CallersHoldBorn, Held, TypeOK
  <2> QED BY <2>1, <2>2, <2>3, RunOnly
<1>31. ASSUME NEW c \in Chans, Released(c)
      PROVE  SessionInv'
  <2>1. UNCHANGED <<pc, chan, of, entry, hook>>
    BY <1>31 DEF Released
  <2>2. \A d \in Chans : /\ RingClosed(d) => RingClosed(d)'
                         /\ OutputsStopped(d) => OutputsStopped(d)'
    BY <1>31 DEF Released, RunStep, RingClosed, OutputsStopped, TypeOK
  <2>3. \A q \in Callers : pc[q] = "swept" => chan[q] \in Chans
    BY DEF BirthInv, CallersHoldBorn, Held, TypeOK
  <2> QED BY <2>1, <2>2, <2>3, RunOnly
<1>32. ASSUME NEW c \in Chans, HookSweeps(c)
      PROVE  SessionInv'
  <2>1. /\ UNCHANGED <<chan, of, entry, stage>> /\ hook[c] = "sweep"
        /\ \A d \in Chans \ { c } : hook'[d] = hook[d]
        /\ StopSessions(c, "swept")
    BY <1>32 DEF HookSweeps, TypeOK
  <2>2. OutputsStopped(c) /\ RingClosed(c)
    BY <2>1 DEF SessionInv, HookFollowsRing, RingClosed, OutputsStopped
  <2>3. ASSUME NEW q \in Callers
        PROVE  /\ pc'[q] \in Serving => pc[q] \in Serving /\ chan[q] \in Chans \ { c }
               /\ pc'[q] = "swept" => pc[q] = "swept" \/ chan[q] = c
               /\ pc'[q] = "halted" => pc[q] = "halted"
    <3>1. pc'[q] \in Serving => pc[q] \in Serving /\ chan[q] # c
      BY <2>1 DEF StopSessions, Serving, TypeOK
    <3>2. pc[q] \in Serving => chan[q] \in Chans
      BY DEF BirthInv, CallersHoldBorn, Held, Serving, TypeOK
    <3>3. /\ pc'[q] = "swept" => pc[q] = "swept" \/ chan[q] = c
          /\ pc'[q] = "halted" => pc[q] = "halted"
      BY <2>1 DEF StopSessions, TypeOK
    <3> QED BY <3>1, <3>2, <3>3
  <2>4. HookFollowsRing'
    BY <2>1, <2>2 DEF SessionInv, HookFollowsRing, RingClosed
  <2>5. NoneServedAfterSweep'
    BY <2>1, <2>3 DEF SessionInv, NoneServedAfterSweep
  <2>6. StoppedSessionsAreMoot'
    BY <2>1, <2>2, <2>3 DEF SessionInv, StoppedSessionsAreMoot, OutputsStopped
  <2> QED BY <2>4, <2>5, <2>6 DEF SessionInv
<1>33. ASSUME NEW c \in Chans, HookAsks(c)
      PROVE  SessionInv'
  <2>1. /\ UNCHANGED <<pc, chan, of, entry, stage>> /\ hook[c] = "drop"
        /\ hook' = [hook EXCEPT ![c] = "over"]
    BY <1>33 DEF HookAsks
  <2>2. \A q \in Callers : pc[q] \in Serving => chan[q] \in Chans \ { c }
    BY <2>1 DEF SessionInv, NoneServedAfterSweep, BirthInv, CallersHoldBorn, Held,
                Serving,
                TypeOK
  <2> QED BY <2>1, <2>2 DEF SessionInv, HookFollowsRing, NoneServedAfterSweep,
             StoppedSessionsAreMoot, RingClosed, OutputsStopped, TypeOK
<1>34. ASSUME NEW c \in Chans, EndLinger(c)
      PROVE  SessionInv'
  <2>1. \A q \in Callers : pc[q] \in {"halted", "swept"} => chan[q] \in Chans
    BY DEF BirthInv, CallersHoldBorn, Held, TypeOK
  <2>2. UNCHANGED <<hook, stage, chan, of>>
    BY <1>34 DEF EndLinger
  <2>3. \A j \in Ids : entry'[j] \in {entry[j], 0}
    BY <1>34 DEF EndLinger, TypeOK
  <2>4. \A q \in Callers : /\ pc'[q] \in Serving => pc[q] \in Serving
                           /\ pc'[q] \in {"halted", "swept"} => pc'[q] = pc[q]
    BY <1>34 DEF EndLinger, Serving, Goes, TypeOK
  <2> QED BY <2>1, <2>2, <2>3, <2>4, CallersOnly
<1>35. ASSUME NEW c \in Chans, Promote(c)
      PROVE  SessionInv'
  <2>1. \A q \in Callers : pc[q] \in {"halted", "swept"} => chan[q] \in Chans
    BY DEF BirthInv, CallersHoldBorn, Held, TypeOK
  <2>2. UNCHANGED <<hook, stage, chan, of>>
    BY <1>35 DEF Promote
  <2>3. \A j \in Ids : entry'[j] \in {entry[j], 0}
    BY <1>35 DEF Promote, TypeOK
  <2>4. \A q \in Callers : /\ pc'[q] \in Serving => pc[q] \in Serving
                           /\ pc'[q] \in {"halted", "swept"} => pc'[q] = pc[q]
    BY <1>35 DEF Promote, Serving, Goes, TypeOK
  <2> QED BY <2>1, <2>2, <2>3, <2>4, CallersOnly
<1>36. ASSUME NEW c \in Chans, RunReturns(c)
      PROVE  SessionInv'
  <2>1. UNCHANGED <<pc, chan, of, entry, hook>>
    BY <1>36 DEF RunReturns
  <2>2. \A d \in Chans : /\ RingClosed(d) => RingClosed(d)'
                         /\ OutputsStopped(d) => OutputsStopped(d)'
    BY <1>36 DEF RunReturns, RunStep, RingClosed, OutputsStopped, TypeOK
  <2>3. \A q \in Callers : pc[q] = "swept" => chan[q] \in Chans
    BY DEF BirthInv, CallersHoldBorn, Held, TypeOK
  <2> QED BY <2>1, <2>2, <2>3, RunOnly
<1>37. ASSUME NEW i \in Ids, Stop(i)
      PROVE  SessionInv'
  <2>1. \A q \in Callers : pc[q] \in {"halted", "swept"} => chan[q] \in Chans
    BY DEF BirthInv, CallersHoldBorn, Held, TypeOK
  <2>2. UNCHANGED <<hook, stage, chan, of>>
    BY <1>37 DEF Stop, Remove
  <2>3. \A j \in Ids : entry'[j] \in {entry[j], 0}
    BY <1>37 DEF Stop, Remove, TypeOK
  <2>4. \A q \in Callers : /\ pc'[q] \in Serving => pc[q] \in Serving
                           /\ pc'[q] \in {"halted", "swept"} => pc'[q] = pc[q]
    BY <1>37 DEF Stop, Remove, Serving, Goes, TypeOK
  <2> QED BY <2>1, <2>2, <2>3, <2>4, CallersOnly
<1> QED
  BY <1>1, <1>2, <1>3, <1>4, <1>5, <1>6, <1>7, <1>8, <1>9, <1>10, <1>11,
     <1>12, <1>13, <1>14, <1>15, <1>16, <1>17, <1>18, <1>19, <1>20, <1>21,
     <1>22, <1>23, <1>24, <1>25, <1>26, <1>27, <1>28, <1>29, <1>30, <1>31,
     <1>32, <1>33, <1>34, <1>35, <1>36, <1>37
  DEF Next, Attaching, Winding, Decision
----------------------------------------------------------------------------
(* Idle channels. *)

\* Whoever is registered is a client.
LEMMA AttachedCounts ==
  ASSUME TypeOK, BirthInv, ClientsAreAttached, NEW p \in Callers,
         pc[p] \in At \cap Held
  PROVE  chan[p] \in Chans /\ p \in clients[chan[p]]
BY DEF BirthInv, CallersHoldBorn, ClientsAreAttached, TypeOK

\* A client that joins a channel leaves every other as it is.
LEMMA JoinNoticed ==
  ASSUME TypeOK, NEW c \in Chans, NEW p \in Callers, AddClient(c, p),
         UNCHANGED <<entry, of, stage, hold, polls, asks, checks>>,
         NEW d \in Chans, Noticed(d)
  PROVE  Noticed(d)'
<1>1. CASE d = c
  <2>1. p \in clients'[c]
    BY DEF AddClient, TypeOK
  <2> QED BY <1>1, <2>1 DEF Noticed
<1>2. CASE d # c
  <2>1. clients'[d] = clients[d] /\ fresh'[d] = fresh[d] /\ stale'[d] = stale[d]
    BY <1>2 DEF AddClient, TypeOK
  <2> QED BY <2>1 DEF Noticed, OutputsStopped
<1> QED BY <1>1, <1>2


\* Every step keeps idle channels noticed.
LEMMA IdleKept ==
  ASSUME TypeOK, TypeOK', BirthInv, ClientsAreAttached, SessionInv,
         ChannelsNoticed, Next, Next
  PROVE  ChannelsNoticed'
<1> USE DEF managerVars, birthVars, runVars, hlsVars, idleTasks, stopTasks,
           askVars, callerVars
<1>1. ASSUME NEW p \in Callers, NEW i \in Ids, Tune(p, i)
      PROVE  ChannelsNoticed'
  BY <1>1 DEF Tune, ChannelsNoticed, Noticed, OutputsStopped
<1>2. ASSUME NEW p \in Callers, ClaimJoins(p)
      PROVE  ChannelsNoticed'
  <2> SUFFICES ASSUME NEW d \in Chans PROVE Noticed(d)'
    BY DEF ChannelsNoticed
  <2>1. Noticed(d)
    BY DEF ChannelsNoticed
  <2>2. entry[id[p]] \in Chans /\ AddClient(entry[id[p]], p)
    BY <1>2 DEF ClaimJoins, TypeOK
  <2>3. UNCHANGED <<entry, of, stage, hold, polls, asks, checks>>
    BY <1>2 DEF ClaimJoins
  <2> QED BY <2>1, <2>2, <2>3, JoinNoticed
<1>3. ASSUME NEW p \in Callers, ClaimStarts(p)
      PROVE  ChannelsNoticed'
  <2> SUFFICES ASSUME NEW d \in Chans PROVE Noticed(d)'
    BY DEF ChannelsNoticed
  <2>1. Noticed(d)
    BY DEF ChannelsNoticed
  <2>2. UNCHANGED <<of, born, stage, hold, clients, idleTasks>>
    BY <1>3 DEF ClaimStarts
  <2>3. entry'[of[d]] \in {entry[of[d]], 0} /\ d # 0
    <3>1. of[d] \in Ids
      BY DEF TypeOK
    <3>2. d # 0
      BY ConstantsAssumption DEF ConstantsAssumption, Chans
    <3> QED BY <1>3, <3>1, <3>2 DEF ClaimStarts, Remove, TypeOK
  <2> QED BY <2>1, <2>2, <2>3 DEF Noticed, OutputsStopped
<1>4. ASSUME NEW p \in Callers, StartFails(p)
      PROVE  ChannelsNoticed'
  BY <1>4 DEF StartFails, ChannelsNoticed, Noticed, OutputsStopped
<1>5. ASSUME NEW p \in Callers, Publish(p)
      PROVE  ChannelsNoticed'
  <2> SUFFICES ASSUME NEW d \in Chans PROVE Noticed(d)'
    BY DEF ChannelsNoticed
  <2>1. Noticed(d)
    BY DEF ChannelsNoticed
  <2> DEFINE c == born + 1
  <2>2. /\ c \in Chans /\ of' = [of EXCEPT ![c] = id[p]]
        /\ entry' = [entry EXCEPT ![id[p]] = c] /\ stage' = [stage EXCEPT ![c] = "made"]
        /\ clients' = [clients EXCEPT ![c] = {p}] /\ UNCHANGED <<hold, idleTasks>>
    BY <1>5 DEF Publish
  <2>3. CASE d = c
    <3>1. clients'[c] = {p}
      BY <2>2 DEF TypeOK
    <3> QED BY <2>3, <3>1 DEF Noticed
  <2>4. CASE d # c
    <3>1. of'[d] = of[d] /\ stage'[d] = stage[d] /\ clients'[d] = clients[d]
      BY <2>2, <2>4 DEF TypeOK
    <3>2. entry'[of[d]] \in {entry[of[d]], c}
      BY <2>2 DEF TypeOK
    <3> QED BY <2>1, <2>2, <2>4, <3>1, <3>2 DEF Noticed, OutputsStopped
  <2> QED BY <2>3, <2>4
<1>6. ASSUME NEW p \in Callers, Spawn(p)
      PROVE  ChannelsNoticed'
  <2> SUFFICES ASSUME NEW d \in Chans PROVE Noticed(d)'
    BY DEF ChannelsNoticed
  <2>1. Noticed(d)
    BY DEF ChannelsNoticed
  <2>2. chan[p] \in Chans /\ stage[chan[p]] = "made"
    BY <1>6 DEF Spawn, BirthInv, SpawnsWhatItMade, CallersHoldBorn, Held, TypeOK
  <2>3. /\ stage' = [stage EXCEPT ![chan[p]] = "run"]
        /\ UNCHANGED <<entry, of, clients, hold, idleTasks>>
    BY <1>6 DEF Spawn
  <2>4. OutputsStopped(d) => OutputsStopped(d)'
    BY <2>2, <2>3 DEF OutputsStopped, TypeOK
  <2> QED BY <2>1, <2>3, <2>4 DEF Noticed
<1>7. ASSUME NEW p \in Callers, DeleteGate(p)
      PROVE  ChannelsNoticed'
  BY <1>7 DEF DeleteGate, ChannelsNoticed, Noticed, OutputsStopped
<1>8. ASSUME NEW p \in Callers, CloseGate(p)
      PROVE  ChannelsNoticed'
  BY <1>8 DEF CloseGate, ChannelsNoticed, Noticed, OutputsStopped
<1>9. ASSUME NEW p \in Callers, AttachHLS(p)
      PROVE  ChannelsNoticed'
  <2> SUFFICES ASSUME NEW d \in Chans PROVE Noticed(d)'
    BY DEF ChannelsNoticed
  <2>1. Noticed(d)
    BY DEF ChannelsNoticed
  <2>2. chan[p] \in Chans /\ p \in clients[chan[p]]
    BY <1>9, AttachedCounts DEF AttachHLS, At, Held
  <2>3. UNCHANGED <<entry, of, stage, clients, idleTasks>>
    BY <1>9 DEF AttachHLS
  <2>4. d # chan[p] => hold'[d] = hold[d]
    <3>1. \/ UNCHANGED hold \/ hold' = [hold EXCEPT ![chan[p]] = FALSE]
          \/ hold' = [hold EXCEPT ![chan[p]] = TRUE]
      BY <1>9 DEF AttachHLS
    <3> QED BY <3>1 DEF TypeOK
  <2> QED BY <2>1, <2>2, <2>3, <2>4 DEF Noticed, OutputsStopped
<1>10. ASSUME NEW p \in Callers, AddSession(p)
      PROVE  ChannelsNoticed'
  BY <1>10 DEF AddSession, ChannelsNoticed, Noticed, OutputsStopped
<1>11. ASSUME NEW p \in Callers, SeesOpenRing(p)
      PROVE  ChannelsNoticed'
  BY <1>11 DEF SeesOpenRing, ChannelsNoticed, Noticed, OutputsStopped
<1>12. ASSUME NEW p \in Callers, Activate(p)
      PROVE  ChannelsNoticed'
  BY <1>12 DEF Activate, ChannelsNoticed, Noticed, OutputsStopped
<1>13. ASSUME NEW p \in Callers, TakeReleases(p)
      PROVE  ChannelsNoticed'
  BY <1>13 DEF TakeReleases, ChannelsNoticed, Noticed, OutputsStopped
<1>14. ASSUME NEW p \in Callers, ReleaseOutput(p)
      PROVE  ChannelsNoticed'
  <2> SUFFICES ASSUME NEW d \in Chans PROVE Noticed(d)'
    BY DEF ChannelsNoticed
  <2>1. Noticed(d)
    BY DEF ChannelsNoticed
  <2>2. chan[p] \in Chans /\ p \in clients[chan[p]]
    BY <1>14, AttachedCounts DEF ReleaseOutput, At, Held
  <2>3. UNCHANGED <<entry, of, stage, clients, idleTasks>>
    BY <1>14 DEF ReleaseOutput
  <2>4. d # chan[p] => hold'[d] = hold[d]
    <3>1. \/ UNCHANGED hold \/ hold' = [hold EXCEPT ![chan[p]] = FALSE]
          \/ hold' = [hold EXCEPT ![chan[p]] = TRUE]
      BY <1>14 DEF ReleaseOutput
    <3> QED BY <3>1 DEF TypeOK
  <2> QED BY <2>1, <2>2, <2>3, <2>4 DEF Noticed, OutputsStopped
<1>15. ASSUME NEW p \in Callers, Resume(p)
      PROVE  ChannelsNoticed'
  <2> SUFFICES ASSUME NEW d \in Chans PROVE Noticed(d)'
    BY DEF ChannelsNoticed
  <2>1. Noticed(d)
    BY DEF ChannelsNoticed
  <2>2. chan[p] \in Chans
    BY <1>15 DEF Resume, BirthInv, CallersHoldBorn, Held, TypeOK
  <2>3. UNCHANGED <<entry, of, stage, hold, polls, asks, checks>>
    BY <1>15 DEF Resume
  <2>4. CASE AddClient(chan[p], p)
    BY <2>1, <2>2, <2>3, <2>4, JoinNoticed
  <2>5. CASE UNCHANGED <<clients, fresh, stale>>
    BY <2>1, <2>3, <2>5 DEF Noticed, OutputsStopped
  <2> QED BY <1>15, <2>4, <2>5 DEF Resume
<1>16. ASSUME NEW p \in Callers, ResumePipeline(p)
      PROVE  ChannelsNoticed'
  <2> SUFFICES ASSUME NEW d \in Chans PROVE Noticed(d)'
    BY DEF ChannelsNoticed
  <2>1. Noticed(d)
    BY DEF ChannelsNoticed
  <2>2. chan[p] \in Chans /\ p \in clients[chan[p]]
    BY <1>16, AttachedCounts DEF ResumePipeline, At, Held
  <2>3. UNCHANGED <<entry, of, stage, clients, idleTasks>>
    BY <1>16 DEF ResumePipeline
  <2>4. d # chan[p] => hold'[d] = hold[d]
    <3>1. \/ UNCHANGED hold \/ hold' = [hold EXCEPT ![chan[p]] = FALSE]
          \/ hold' = [hold EXCEPT ![chan[p]] = TRUE]
      BY <1>16 DEF ResumePipeline
    <3> QED BY <3>1 DEF TypeOK
  <2> QED BY <2>1, <2>2, <2>3, <2>4 DEF Noticed, OutputsStopped
<1>17. ASSUME NEW p \in Callers, ResumeCommit(p)
      PROVE  ChannelsNoticed'
  BY <1>17 DEF ResumeCommit, ChannelsNoticed, Noticed, OutputsStopped
<1>18. ASSUME NEW p \in Callers, DropClient(p)
      PROVE  ChannelsNoticed'
  <2> SUFFICES ASSUME NEW d \in Chans PROVE Noticed(d)'
    BY DEF ChannelsNoticed
  <2>1. Noticed(d)
    BY DEF ChannelsNoticed
  <2> DEFINE c == chan[p]
  <2>2. c \in Chans
    BY <1>18 DEF DropClient, BirthInv, CallersHoldBorn, Held, TypeOK
  <2>3. /\ clients' = [clients EXCEPT ![c] = @ \ {p}]
        /\ asks' = IF clients'[c] = {} THEN Bump(asks, c) ELSE asks
        /\ UNCHANGED <<entry, of, stage, hold, polls, checks, fresh, stale>>
    BY <1>18 DEF DropClient
  <2>4. CASE d = c /\ clients'[c] = {}
    <3>1. asks'[c] > 0
      BY <2>2, <2>3, <2>4 DEF Bump, TypeOK
    <3>2. polls'[c] + asks'[c] + checks'[c] + fresh'[c] + stale'[c] > 0
      BY <2>2, <3>1 DEF TypeOK
    <3> QED BY <2>4, <3>2 DEF Noticed
  <2>5. CASE d = c /\ clients'[c] # {}
    BY <2>5 DEF Noticed
  <2>6. CASE d # c
    <3>1. clients'[d] = clients[d] /\ asks'[d] = asks[d]
      BY <2>2, <2>3, <2>6 DEF Bump, TypeOK
    <3> QED BY <2>1, <2>3, <3>1 DEF Noticed, OutputsStopped
  <2> QED BY <2>4, <2>5, <2>6
<1>19. ASSUME NEW p \in Callers, DropSession(p)
      PROVE  ChannelsNoticed'
  <2> SUFFICES ASSUME NEW d \in Chans PROVE Noticed(d)'
    BY DEF ChannelsNoticed
  <2>1. Noticed(d)
    BY DEF ChannelsNoticed
  <2> DEFINE c == chan[p]
  <2>2. c \in Chans
    BY <1>19 DEF DropSession, BirthInv, CallersHoldBorn, Held, TypeOK
  <2>3. /\ clients' = [clients EXCEPT ![c] = @ \ {p}] /\ pc[p] \in {"halted", "swept"}
        /\ UNCHANGED <<entry, of, stage, hold, idleTasks>>
    BY <1>19 DEF DropSession
  <2>4. CASE d = c
    <3>1. entry[of[c]] # c \/ OutputsStopped(c)
      BY <2>3 DEF SessionInv, StoppedSessionsAreMoot
    <3> QED BY <2>3, <2>4, <3>1 DEF Noticed, OutputsStopped
  <2>5. CASE d # c
    <3>1. clients'[d] = clients[d]
      BY <2>3, <2>5 DEF TypeOK
    <3> QED BY <2>1, <2>3, <3>1 DEF Noticed, OutputsStopped
  <2> QED BY <2>4, <2>5
<1>20. ASSUME NEW p \in Callers, NEW c \in Chans, ForgetStuck(p, c)
      PROVE  ChannelsNoticed'
  BY <1>20 DEF ForgetStuck, ChannelsNoticed, Noticed, OutputsStopped
<1>21. ASSUME NEW p \in Callers, NEW c \in Chans, NEW w \in SUBSET Chans, Reclaim(p, c, w)
      PROVE  ChannelsNoticed'
  <2> SUFFICES ASSUME NEW d \in Chans PROVE Noticed(d)'
    BY DEF ChannelsNoticed
  <2>1. Noticed(d)
    BY DEF ChannelsNoticed
  <2>2. UNCHANGED <<of, born, stage, hold, clients, idleTasks>>
    BY <1>21 DEF Reclaim
  <2>3. entry'[of[d]] \in {entry[of[d]], 0} /\ d # 0
    <3>1. of[d] \in Ids
      BY DEF TypeOK
    <3>2. d # 0
      BY ConstantsAssumption DEF ConstantsAssumption, Chans
    <3> QED BY <1>21, <3>1, <3>2 DEF Reclaim, Remove, TypeOK
  <2> QED BY <2>1, <2>2, <2>3 DEF Noticed, OutputsStopped
<1>22. ASSUME NEW c \in Chans, StopWhenIdle(c)
      PROVE  ChannelsNoticed'
  <2> SUFFICES ASSUME NEW d \in Chans PROVE Noticed(d)'
    BY DEF ChannelsNoticed
  <2>1. Noticed(d)
    BY DEF ChannelsNoticed
  <2>2. /\ UNCHANGED <<entry, of, stage, clients, hold, polls, stale>>
        /\ asks[c] > 0 /\ asks' = Lessen(asks, c)
    BY <1>22 DEF StopWhenIdle
  <2>3. \/ hold[c] /\ UNCHANGED <<fresh, checks>>
        \/ fresh' = Bump(fresh, c) /\ UNCHANGED checks
        \/ checks' = Bump(checks, c) /\ UNCHANGED fresh
    BY <1>22 DEF StopWhenIdle
  <2>4. CASE d = c
    <3>1. hold[c] \/ fresh'[c] > 0 \/ checks'[c] > 0
      BY <2>3 DEF Bump, TypeOK
    <3>2. hold[c] \/ polls'[c] + asks'[c] + checks'[c] + fresh'[c] + stale'[c] > 0
      BY <3>1 DEF TypeOK
    <3> QED BY <2>2, <2>4, <3>2 DEF Noticed
  <2>5. CASE d # c
    <3>1. asks'[d] = asks[d] /\ fresh'[d] = fresh[d] /\ checks'[d] = checks[d]
      BY <2>2, <2>3, <2>5 DEF Bump, Lessen, TypeOK
    <3> QED BY <2>1, <2>2, <3>1 DEF Noticed, OutputsStopped
  <2> QED BY <2>4, <2>5
<1>23. ASSUME NEW c \in Chans, StopIfIdle(c)
      PROVE  ChannelsNoticed'
  <2> SUFFICES ASSUME NEW d \in Chans PROVE Noticed(d)'
    BY DEF ChannelsNoticed
  <2>1. Noticed(d)
    BY DEF ChannelsNoticed
  <2>2. /\ UNCHANGED <<entry, of, stage, clients, hold, checks, fresh, stale>>
        /\ polls[c] > 0 /\ polls' = Lessen(polls, c)
        /\ asks' = IF clients[c] = {} THEN Bump(asks, c) ELSE asks
    BY <1>23 DEF StopIfIdle
  <2>3. CASE d = c /\ clients[c] = {}
    <3>1. asks'[c] > 0
      BY <2>2, <2>3 DEF Bump, TypeOK
    <3>2. polls'[c] + asks'[c] + checks'[c] + fresh'[c] + stale'[c] > 0
      BY <3>1 DEF TypeOK
    <3> QED BY <2>3, <3>2 DEF Noticed
  <2>4. CASE d = c /\ clients[c] # {}
    BY <2>2, <2>4 DEF Noticed
  <2>5. CASE d # c
    <3>1. polls'[d] = polls[d] /\ asks'[d] = asks[d]
      BY <2>2, <2>5 DEF Bump, Lessen, TypeOK
    <3> QED BY <2>1, <2>2, <3>1 DEF Noticed, OutputsStopped
  <2> QED BY <2>3, <2>4, <2>5
<1>24. ASSUME NEW c \in Chans, Decision(c)
      PROVE  ChannelsNoticed'
  <2> SUFFICES ASSUME NEW d \in Chans PROVE Noticed(d)'
    BY DEF ChannelsNoticed
  <2>1. Noticed(d)
    BY DEF ChannelsNoticed
  <2>2. /\ StopIfStillIdle(c)
        /\ UNCHANGED <<of, born, stage, clients, hold, polls, asks>>
    BY <1>24 DEF Decision, DecideAtOnce, CountdownEnds, StaleCountdownEnds,
                 StopIfStillIdle
  <2>3. of[d] \in Ids /\ of[c] \in Ids
    BY DEF TypeOK
  <2>4. c # 0 /\ d # 0
    BY ConstantsAssumption DEF ConstantsAssumption, Chans
  <2>5. CASE d = c
    <3>1. \/ ~(clients[c] = {} /\ ~hold[c])
          \/ entry'[of[c]] # c
      BY <2>2, <2>3, <2>4 DEF StopIfStillIdle, Remove, TypeOK
    <3> QED BY <2>2, <2>5, <3>1 DEF Noticed
  <2>6. CASE d # c
    <3>1. checks'[d] = checks[d] /\ fresh'[d] = fresh[d] /\ stale'[d] = stale[d]
      BY <1>24, <2>6
         DEF Decision, DecideAtOnce, CountdownEnds, StaleCountdownEnds, Lessen,
             TypeOK
    <3>2. entry'[of[d]] \in {entry[of[d]], 0}
      BY <2>2, <2>3 DEF StopIfStillIdle, Remove, TypeOK
    <3> QED BY <2>1, <2>2, <2>4, <3>1, <3>2 DEF Noticed, OutputsStopped
  <2> QED BY <2>5, <2>6
<1>25. ASSUME NEW c \in Chans, EndSessions(c)
      PROVE  ChannelsNoticed'
  BY <1>25 DEF EndSessions, ChannelsNoticed, Noticed, OutputsStopped
<1>26. ASSUME NEW c \in Chans, Cancel(c)
      PROVE  ChannelsNoticed'
  BY <1>26 DEF Cancel, ChannelsNoticed, Noticed, OutputsStopped
<1>27. ASSUME NEW c \in Chans, StopOutputs(c)
      PROVE  ChannelsNoticed'
  <2> SUFFICES ASSUME NEW d \in Chans PROVE Noticed(d)'
    BY DEF ChannelsNoticed
  <2>1. Noticed(d)
    BY DEF ChannelsNoticed
  <2>2. UNCHANGED <<entry, of, clients, idleTasks>>
    BY <1>27 DEF StopOutputs
  <2>3. OutputsStopped(d) => OutputsStopped(d)'
    BY <1>27 DEF StopOutputs, RunStep, OutputsStopped, TypeOK
  <2>4. hold'[d] = hold[d] \/ OutputsStopped(d)'
    BY <1>27 DEF StopOutputs, RunStep, OutputsStopped, TypeOK
  <2> QED BY <2>1, <2>2, <2>3, <2>4 DEF Noticed
<1>28. ASSUME NEW c \in Chans, CloseRing(c)
      PROVE  ChannelsNoticed'
  <2> SUFFICES ASSUME NEW d \in Chans PROVE Noticed(d)'
    BY DEF ChannelsNoticed
  <2>1. Noticed(d)
    BY DEF ChannelsNoticed
  <2>2. UNCHANGED <<entry, of, clients, idleTasks>>
    BY <1>28 DEF CloseRing
  <2>3. OutputsStopped(d) => OutputsStopped(d)'
    BY <1>28 DEF CloseRing, RunStep, OutputsStopped, TypeOK
  <2>4. hold'[d] = hold[d] \/ OutputsStopped(d)'
    BY <1>28 DEF CloseRing, RunStep, OutputsStopped, TypeOK
  <2> QED BY <2>1, <2>2, <2>3, <2>4 DEF Noticed
<1>29. ASSUME NEW c \in Chans, FireRunEnd(c)
      PROVE  ChannelsNoticed'
  <2> SUFFICES ASSUME NEW d \in Chans PROVE Noticed(d)'
    BY DEF ChannelsNoticed
  <2>1. Noticed(d)
    BY DEF ChannelsNoticed
  <2>2. UNCHANGED <<entry, of, clients, idleTasks>>
    BY <1>29 DEF FireRunEnd
  <2>3. OutputsStopped(d) => OutputsStopped(d)'
    BY <1>29 DEF FireRunEnd, RunStep, OutputsStopped, TypeOK
  <2>4. hold'[d] = hold[d] \/ OutputsStopped(d)'
    BY <1>29 DEF FireRunEnd, RunStep, OutputsStopped, TypeOK
  <2> QED BY <2>1, <2>2, <2>3, <2>4 DEF Noticed
<1>30. ASSUME NEW c \in Chans, ReleaseSlot(c)
      PROVE  ChannelsNoticed'
  <2> SUFFICES ASSUME NEW d \in Chans PROVE Noticed(d)'
    BY DEF ChannelsNoticed
  <2>1. Noticed(d)
    BY DEF ChannelsNoticed
  <2>2. UNCHANGED <<entry, of, clients, idleTasks>>
    BY <1>30 DEF ReleaseSlot
  <2>3. OutputsStopped(d) => OutputsStopped(d)'
    BY <1>30 DEF ReleaseSlot, RunStep, OutputsStopped, TypeOK
  <2>4. hold'[d] = hold[d] \/ OutputsStopped(d)'
    BY <1>30 DEF ReleaseSlot, RunStep, OutputsStopped, TypeOK
  <2> QED BY <2>1, <2>2, <2>3, <2>4 DEF Noticed
<1>31. ASSUME NEW c \in Chans, Released(c)
      PROVE  ChannelsNoticed'
  <2> SUFFICES ASSUME NEW d \in Chans PROVE Noticed(d)'
    BY DEF ChannelsNoticed
  <2>1. Noticed(d)
    BY DEF ChannelsNoticed
  <2>2. UNCHANGED <<entry, of, clients, idleTasks>>
    BY <1>31 DEF Released
  <2>3. OutputsStopped(d) => OutputsStopped(d)'
    BY <1>31 DEF Released, RunStep, OutputsStopped, TypeOK
  <2>4. hold'[d] = hold[d] \/ OutputsStopped(d)'
    BY <1>31 DEF Released, RunStep, OutputsStopped, TypeOK
  <2> QED BY <2>1, <2>2, <2>3, <2>4 DEF Noticed
<1>32. ASSUME NEW c \in Chans, HookSweeps(c)
      PROVE  ChannelsNoticed'
  BY <1>32 DEF HookSweeps, ChannelsNoticed, Noticed, OutputsStopped
<1>33. ASSUME NEW c \in Chans, HookAsks(c)
      PROVE  ChannelsNoticed'
  <2> SUFFICES ASSUME NEW d \in Chans PROVE Noticed(d)'
    BY DEF ChannelsNoticed
  <2>1. Noticed(d)
    BY DEF ChannelsNoticed
  <2>2. /\ UNCHANGED <<entry, of, stage, clients, hold, asks, checks, fresh, stale>>
        /\ polls' = Bump(polls, c)
    BY <1>33 DEF HookAsks
  <2>3. CASE d = c
    <3>1. polls'[c] > 0
      BY <2>2 DEF Bump, TypeOK
    <3>2. polls'[c] + asks'[c] + checks'[c] + fresh'[c] + stale'[c] > 0
      BY <3>1 DEF TypeOK
    <3> QED BY <2>3, <3>2 DEF Noticed
  <2>4. CASE d # c
    <3>1. polls'[d] = polls[d]
      BY <2>2, <2>4 DEF Bump, TypeOK
    <3> QED BY <2>1, <2>2, <3>1 DEF Noticed, OutputsStopped
  <2> QED BY <2>3, <2>4
<1>34. ASSUME NEW c \in Chans, EndLinger(c)
      PROVE  ChannelsNoticed'
  <2> SUFFICES ASSUME NEW d \in Chans PROVE Noticed(d)'
    BY DEF ChannelsNoticed
  <2>1. Noticed(d)
    BY DEF ChannelsNoticed
  <2>2. /\ UNCHANGED <<entry, of, stage, clients, asks, checks, fresh, stale>>
        /\ hold' = [hold EXCEPT ![c] = FALSE] /\ polls' = Bump(polls, c)
    BY <1>34 DEF EndLinger
  <2>3. CASE d = c
    <3>1. polls'[c] > 0
      BY <2>2 DEF Bump, TypeOK
    <3>2. polls'[c] + asks'[c] + checks'[c] + fresh'[c] + stale'[c] > 0
      BY <3>1 DEF TypeOK
    <3> QED BY <2>3, <3>2 DEF Noticed
  <2>4. CASE d # c
    <3>1. polls'[d] = polls[d] /\ hold'[d] = hold[d]
      BY <2>2, <2>4 DEF Bump, TypeOK
    <3> QED BY <2>1, <2>2, <3>1 DEF Noticed, OutputsStopped
  <2> QED BY <2>3, <2>4
<1>35. ASSUME NEW c \in Chans, Promote(c)
      PROVE  ChannelsNoticed'
  BY <1>35 DEF Promote, ChannelsNoticed, Noticed, OutputsStopped
<1>36. ASSUME NEW c \in Chans, RunReturns(c)
      PROVE  ChannelsNoticed'
  <2> SUFFICES ASSUME NEW d \in Chans PROVE Noticed(d)'
    BY DEF ChannelsNoticed
  <2>1. Noticed(d)
    BY DEF ChannelsNoticed
  <2>2. UNCHANGED <<entry, of, clients, idleTasks>>
    BY <1>36 DEF RunReturns
  <2>3. OutputsStopped(d) => OutputsStopped(d)'
    BY <1>36 DEF RunReturns, RunStep, OutputsStopped, TypeOK
  <2>4. hold'[d] = hold[d] \/ OutputsStopped(d)'
    BY <1>36 DEF RunReturns, RunStep, OutputsStopped, TypeOK
  <2> QED BY <2>1, <2>2, <2>3, <2>4 DEF Noticed
<1>37. ASSUME NEW i \in Ids, Stop(i)
      PROVE  ChannelsNoticed'
  <2> SUFFICES ASSUME NEW d \in Chans PROVE Noticed(d)'
    BY DEF ChannelsNoticed
  <2>1. Noticed(d)
    BY DEF ChannelsNoticed
  <2>2. UNCHANGED <<of, born, stage, hold, clients, idleTasks>>
    BY <1>37 DEF Stop
  <2>3. entry'[of[d]] \in {entry[of[d]], 0} /\ d # 0
    <3>1. of[d] \in Ids
      BY DEF TypeOK
    <3>2. d # 0
      BY ConstantsAssumption DEF ConstantsAssumption, Chans
    <3> QED BY <1>37, <3>1, <3>2 DEF Stop, Remove, TypeOK
  <2> QED BY <2>1, <2>2, <2>3 DEF Noticed, OutputsStopped
<1> QED
  BY <1>1, <1>2, <1>3, <1>4, <1>5, <1>6, <1>7, <1>8, <1>9, <1>10, <1>11,
     <1>12, <1>13, <1>14, <1>15, <1>16, <1>17, <1>18, <1>19, <1>20, <1>21,
     <1>22, <1>23, <1>24, <1>25, <1>26, <1>27, <1>28, <1>29, <1>30, <1>31,
     <1>32, <1>33, <1>34, <1>35, <1>36, <1>37
  DEF Next, Attaching, Winding, Decision
----------------------------------------------------------------------------
(* The theorems. *)

\* VInv holds at the start.
LEMMA InitVInv == Init => VInv
<1> SUFFICES ASSUME Init PROVE VInv
  OBVIOUS
<1>1. IInv
  BY InitIInv
<1>2. ClientsAreAttached
  BY DEF Init, ClientsAreAttached, At, Held
<1>3. LeftIsUnlisted /\ IdleStopIsFinal /\ ReclaimTakesNoViewer
  BY DEF Init, LeftIsUnlisted, IdleStopIsFinal, ReclaimTakesNoViewer
<1>4. SessionInv
  BY DEF Init, SessionInv, HookFollowsRing, NoneServedAfterSweep, Serving,
         StoppedSessionsAreMoot
<1>5. ChannelsNoticed
  <2>1. \A c \in Chans : c # 0 /\ of[c] \in Ids
    <3>1. \A c \in Chans : of[c] \in Ids
      BY <1>1 DEF IInv, TypeOK
    <3>2. \A c \in Chans : c # 0
      BY ConstantsAssumption DEF ConstantsAssumption, Chans
    <3> QED BY <3>1, <3>2
  <2> QED BY <2>1 DEF Init, ChannelsNoticed, Noticed
<1> QED BY <1>1, <1>2, <1>3, <1>4, <1>5 DEF VInv

\* Every step keeps it.
LEMMA StepVInv == VInv /\ [Next]_vars => VInv'
<1> SUFFICES ASSUME VInv, [Next]_vars PROVE VInv'
  OBVIOUS
<1>1. IInv'
  BY StepIInv DEF VInv
<1>2. CASE Next
  <2>1. /\ TypeOK /\ TypeOK' /\ MapInv /\ BirthInv /\ RunInv
    BY <1>1 DEF VInv, IInv
  <2>2. ClientsAreAttached'
    BY <1>2, <2>1, ClientsKept DEF VInv
  <2>3. LeftIsUnlisted'
    BY <1>2, <2>1, LeavesOnce DEF VInv
  <2>4. SessionInv'
    BY <1>2, <2>1, SessionsKept DEF VInv
  <2>5. IdleStopIsFinal'
    BY <1>2, <2>1, FinalKept DEF VInv
  <2>6. ReclaimTakesNoViewer'
    BY <1>2, <2>1, ReclaimKept DEF VInv
  <2>7. ChannelsNoticed'
    BY <1>2, <2>1, IdleKept DEF VInv
  <2> QED BY <1>1, <2>2, <2>3, <2>4, <2>5, <2>6, <2>7 DEF VInv
<1>3. CASE UNCHANGED vars
  <2> USE <1>3 DEF vars, managerVars, birthVars, runVars, hlsVars, idleTasks,
                   stopTasks, askVars, callerVars
  <2>1. ClientsAreAttached'
    BY DEF VInv, ClientsAreAttached
  <2>2. LeftIsUnlisted' /\ IdleStopIsFinal' /\ ReclaimTakesNoViewer'
    BY DEF VInv, LeftIsUnlisted, IdleStopIsFinal, ReclaimTakesNoViewer
  <2>3. SessionInv'
    BY DEF VInv, SessionInv, HookFollowsRing, NoneServedAfterSweep,
           StoppedSessionsAreMoot, RingClosed, OutputsStopped
  <2>4. ChannelsNoticed'
    BY DEF VInv, ChannelsNoticed, Noticed, OutputsStopped
  <2> QED BY <1>1, <2>1, <2>2, <2>3, <2>4 DEF VInv
<1> QED BY <1>2, <1>3

\* VInv holds in every reachable state.
LEMMA ViewersInductive == Spec => []VInv
BY InitVInv, StepVInv, PTL DEF Spec

\* release, stopWhenIdle, endLinger and their kin: while its outputs run, a
\* listed channel with no client and no linger has an idle question, a decision
\* or a countdown pending.
THEOREM IdleNoticed == Spec => []IdleIsNoticed
<1>1. VInv => IdleIsNoticed
  <2> SUFFICES ASSUME VInv, NEW i \in Ids, entry[i] # 0, ~OutputsStopped(entry[i]),
                      clients[entry[i]] = {}, ~hold[entry[i]]
               PROVE  polls[entry[i]] + asks[entry[i]] + checks[entry[i]]
                        + fresh[entry[i]] + stale[entry[i]] > 0
    BY DEF IdleIsNoticed
  <2>1. entry[i] \in Chans /\ entry[of[entry[i]]] = entry[i]
    BY DEF VInv, IInv, MapInv, ListedUnderOwnId, TypeOK
  <2> QED BY <2>1 DEF VInv, ChannelsNoticed, Noticed
<1> QED BY <1>1, ViewersInductive, PTL

\* stopIfStillIdle: no client is on, or ever joins, a channel that was stopped
\* as idle.
THEOREM IdleStopFinal == Spec => []IdleStopIsFinal
<1>1. VInv => IdleStopIsFinal
  BY DEF VInv
<1> QED BY <1>1, ViewersInductive, PTL

\* ReclaimFor: what is left of a reclaimed channel's clients are sessions that
\* were stopped with it or were leaving already.
THEOREM ReclaimSparesViewers == Spec => []ReclaimTakesNoViewer
<1>1. VInv => ReclaimTakesNoViewer
  BY DEF VInv
<1> QED BY <1>1, ViewersInductive, PTL

\* runEnded and the session table: no session is active on a channel whose
\* run-ended hook has swept.
THEOREM SessionsEnd == Spec => []SessionsEndWithChannel
<1>1. VInv => SessionsEndWithChannel
  BY DEF VInv, SessionInv, NoneServedAfterSweep, Serving, SessionsEndWithChannel
<1> QED BY <1>1, ViewersInductive, PTL
==============================================================================

----------------------------- MODULE VodSession -----------------------------
(***************************************************************************)
(* A VOD session's record and the provider slot behind it                  *)
(* (apps/proxy/vod_proxy: stream_vod and the multi-worker connection        *)
(* manager).  A player opens one session with several requests at a time   *)
(* (ranges, seeks), each on its own worker; they share a Redis hash that   *)
(* counts the streams, and the request that takes the count from 0 to 1    *)
(* takes the profile's slot, the one that takes it from 1 to 0 gives it    *)
(* back.                                                                   *)
(*                                                                         *)
(* One action is one Redis command or Lua script of one request, or the    *)
(* provider's answer.  All requests are for one title, with the same seek  *)
(* parameters, so that every idle session matches every request.  Left     *)
(* out: the hash's TTL, an unreachable Redis, ownership and seek metadata  *)
(* (their saves never touch the counter, nor a record that is gone).       *)
(***************************************************************************)
EXTENDS Integers, FiniteSets

CONSTANTS
  Requests,      \* GETs on /proxy/vod/.../{session}
  Sessions,      \* session ids
  VodProfiles,   \* the M3U account's profiles
  OwnSession,    \* per request: the session in its URL
  Room,          \* per profile: max_streams
  Missing        \* no record, no profile

ASSUME VodAssumption ==
  /\ OwnSession \in [Requests -> Sessions]
  /\ Room \in [VodProfiles -> Nat \ {0}]
  /\ Missing \notin VodProfiles \cup [on : VodProfiles, active : Nat]
  /\ IsFiniteSet(Requests)

VARIABLES
  record,   \* vod_persistent_connection:{session}: its profile and active_streams
  used,     \* profile_connections:{profile}
  where,    \* per request: the next step of stream_content_with_session
  session,  \* effective_session_id
  profile,  \* the m3u_profile the view chose
  creates,  \* existing_state is None: the request makes the record
  reserved, \* profile_connections_incremented
  counted,  \* history: an increment of this request's is in a record's count
  muddled   \* history: one of the events SlotsFollowSessions names has happened

vodVars == <<record, used, where, session, profile, creates, reserved, counted,
             muddled>>
perRequest == <<session, profile, creates, reserved>>

Steps == {"new", "match", "adopt", "look", "reserve", "create", "join",
          "retake", "get", "ready", "stream", "again", "hand", "clean",
          "undo", "refund", "tidy", "refuse", "return", "over"}

VodTypeOK ==
  /\ record \in [Sessions -> {Missing} \cup [on : VodProfiles, active : 0..Cardinality(Requests)]]
  /\ used \in [VodProfiles -> 0..2 * Cardinality(Requests)]
  /\ where \in [Requests -> Steps]
  /\ session \in [Requests -> Sessions]
  /\ profile \in [Requests -> VodProfiles \cup {Missing}]
  /\ creates \in [Requests -> BOOLEAN] /\ reserved \in [Requests -> BOOLEAN]
  /\ counted \in [Requests -> BOOLEAN] /\ muddled \in BOOLEAN

VodInit ==
  /\ record = [s \in Sessions |-> Missing]
  /\ used = [p \in VodProfiles |-> 0]
  /\ where = [r \in Requests |-> "new"]
  /\ session = OwnSession
  /\ profile = [r \in Requests |-> Missing]
  /\ creates = [r \in Requests |-> FALSE]
  /\ reserved = [r \in Requests |-> FALSE]
  /\ counted = [r \in Requests |-> FALSE]
  /\ muddled = FALSE

----------------------------------------------------------------------------
(* The scripts on a session's hash, and on a profile's counter. *)

Exists(s)  == record[s] # Missing
Active(s)  == IF Exists(s) THEN record[s].active ELSE 0
IdleRecord(s) == Exists(s) /\ Active(s) = 0

IncrActive(s) == record' = IF Exists(s) THEN [record EXCEPT ![s].active = @ + 1] ELSE record
DecrActive(s) == record' = IF Active(s) > 0 THEN [record EXCEPT ![s].active = @ - 1] ELSE record

\* cleanup: the hash goes only if no stream is counted on it.
DropIfIdle(s) == record' = IF IdleRecord(s) THEN [record EXCEPT ![s] = Missing] ELSE record

HasRoom(p)  == used[p] < Room[p]
TakeSlot(p) == used' = [used EXCEPT ![p] = @ + 1]
FreeSlot(p) == used' = [used EXCEPT ![p] = IF @ > 0 THEN @ - 1 ELSE @]

Step(r, from, to) == where[r] = from /\ where' = [where EXCEPT ![r] = to]

\* A request that makes the record of s holds its slot and is not in its count yet.
Opening(s) == \E q \in Requests : session[q] = s /\ creates[q] /\ where[q] \in {"get", "ready", "undo", "refuse"}
\* The slot of s is on its way back, under the profile its record names.
Handing(s) == \E q \in Requests : session[q] = s /\ where[q] = "hand"
OthersOn(r) == {q \in Requests \ {r} : counted[q] /\ session[q] = session[r]}
Muddle(event) == muddled' = (muddled \/ event)

----------------------------------------------------------------------------
(* The request, up to its place in the session. *)

\* _get_m3u_profile: the profile of the session's record, else one with room.
Choose(r) ==
  /\ where[r] = "new"
  /\ LET s == OwnSession[r] IN
     IF Exists(s)
       THEN /\ profile' = [profile EXCEPT ![r] = record[s].on]
            /\ Step(r, "new", "match")
       ELSE \/ \E p \in VodProfiles :
                 /\ HasRoom(p)
                 /\ profile' = [profile EXCEPT ![r] = p]
                 /\ Step(r, "new", "match")
            \/ /\ \A p \in VodProfiles : ~HasRoom(p)
               /\ Step(r, "new", "over") /\ UNCHANGED profile
  /\ UNCHANGED <<record, used, session, creates, reserved, counted, muddled>>

\* find_matching_idle_session: any session of the title with no active stream.
FindIdle(r) ==
  /\ \/ \E s \in Sessions :
          /\ IdleRecord(s)
          /\ session' = [session EXCEPT ![r] = s]
          /\ Step(r, "match", "adopt")
     \/ /\ \A s \in Sessions : ~IdleRecord(s)
        /\ Step(r, "match", "look") /\ UNCHANGED session
  /\ UNCHANGED <<record, used, profile, creates, reserved, counted, muddled>>

\* The matched session is held by its count; if it is gone, back to the own one.
Adopt(r) ==
  /\ where[r] = "adopt"
  /\ IncrActive(session[r])
  /\ counted' = [counted EXCEPT ![r] = Exists(session[r])]
  /\ IF Exists(session[r])
       THEN Step(r, "adopt", "retake") /\ UNCHANGED session
       ELSE Step(r, "adopt", "look") /\ session' = [session EXCEPT ![r] = OwnSession[r]]
  /\ Muddle(Active(session[r]) > 0)
  /\ UNCHANGED <<used, profile, creates, reserved>>

LookUp(r) ==
  /\ creates' = [creates EXCEPT ![r] = ~Exists(session[r])]
  /\ Step(r, "look", IF Exists(session[r]) THEN "join" ELSE "reserve")
  /\ UNCHANGED <<record, used, session, profile, reserved, counted, muddled>>

\* A new session takes its slot first: with none, 429.
ReserveForNew(r) ==
  /\ where[r] = "reserve"
  /\ IF HasRoom(profile[r])
       THEN /\ TakeSlot(profile[r]) /\ reserved' = [reserved EXCEPT ![r] = TRUE]
            /\ Step(r, "reserve", "create")
       ELSE Step(r, "reserve", "over") /\ UNCHANGED <<used, reserved>>
  /\ UNCHANGED <<record, session, profile, creates, counted, muddled>>

\* create_connection, under the session's lock.  A record that another request
\* has made in the meantime is taken as it is.
CreateRecord(r) ==
  LET s == session[r] IN
  /\ Step(r, "create", "get")
  /\ record' = IF Exists(s) THEN record
               ELSE [record EXCEPT ![s] = [on |-> profile[r], active |-> 0]]
  /\ Muddle(Exists(s))
  /\ UNCHANGED <<used, perRequest, counted>>

\* Another request of the session has the lock: the slot goes back, 500.
CreateFails(r) ==
  /\ Step(r, "create", "over")
  /\ \E q \in Requests \ {r} : session[q] = session[r] /\ where[q] \in {"create", "get", "stream"}
  /\ FreeSlot(profile[r]) /\ reserved' = [reserved EXCEPT ![r] = FALSE]
  /\ UNCHANGED <<record, session, profile, creates, counted, muddled>>

\* Seeded defect: the first stream on an idle record takes no slot.
JoinTakesNoSlot(r) ==
  LET s == session[r] IN
  /\ IncrActive(s)
  /\ counted' = [counted EXCEPT ![r] = Exists(s)]
  /\ Step(r, "join", IF Exists(s) THEN "get" ELSE "over")
  /\ UNCHANGED <<used, perRequest, muddled>>

\* The own session has a record: count this stream on it.  The first one takes
\* a slot, another finds it taken; with the record gone, 500.
Join(r) ==
  LET s == session[r] IN
  /\ IncrActive(s)
  /\ counted' = [counted EXCEPT ![r] = Exists(s)]
  /\ Step(r, "join", IF ~Exists(s) THEN "over" ELSE IF Active(s) = 0 THEN "retake" ELSE "get")
  /\ UNCHANGED <<used, perRequest, muddled>>

\* A session whose last stream ended has given its slot back: take one again,
\* or leave with a 429.
RetakeSlot(r) ==
  LET s == session[r] IN
  /\ where[r] = "retake"
  /\ IF HasRoom(profile[r])
       THEN /\ TakeSlot(profile[r]) /\ reserved' = [reserved EXCEPT ![r] = TRUE]
            /\ Step(r, "retake", "get")
            /\ Muddle(Opening(s) \/ profile[r] # record[s].on)
            /\ UNCHANGED <<record, counted>>
       ELSE /\ DecrActive(s) /\ counted' = [counted EXCEPT ![r] = FALSE]
            /\ Step(r, "retake", "over") /\ Muddle(OthersOn(r) # {})
            /\ UNCHANGED <<used, reserved>>
  /\ UNCHANGED <<session, profile, creates>>

----------------------------------------------------------------------------
(* The provider, and a request that does not come to stream. *)

\* get_stream: the provider answers; it has nothing for this range (or the
\* record is gone); or it fails, and get_stream cleans up before it raises.
GetStream(r) ==
  \/ /\ Step(r, "get", "ready") /\ Exists(session[r])
     /\ UNCHANGED <<record, used, perRequest, counted, muddled>>
  \/ /\ Step(r, "get", "refuse")
     /\ UNCHANGED <<record, used, perRequest, counted, muddled>>
  \/ /\ Step(r, "get", "undo") /\ Exists(session[r])
     /\ DropIfIdle(session[r])
     /\ Muddle(IdleRecord(session[r]) /\ (~creates[r] \/ Handing(session[r])))
     /\ UNCHANGED <<used, perRequest, counted>>

\* The count goes back if it was taken here; a new session's record is dropped
\* by a refusal, and by a failure once the slot is back.
Undo(r) ==
  LET s == session[r] IN
  /\ \/ Step(r, "refuse", "return")
     \/ Step(r, "undo", "refund")
  /\ IF ~creates[r]
       THEN DecrActive(s) /\ counted' = [counted EXCEPT ![r] = FALSE]
       ELSE /\ IF where[r] = "refuse" THEN DropIfIdle(s) ELSE UNCHANGED record
            /\ UNCHANGED counted
  /\ Muddle(counted[r] /\ reserved[r] # (Active(s) = 1))
  /\ UNCHANGED <<used, perRequest>>

\* A refusal ends here; a failed request that took a slot cleans up after it.
Refund(r) ==
  /\ \/ Step(r, "return", "over")
     \/ Step(r, "refund", IF reserved[r] THEN "tidy" ELSE "over")
  /\ IF reserved[r] THEN FreeSlot(profile[r]) ELSE UNCHANGED used
  /\ reserved' = [reserved EXCEPT ![r] = FALSE]
  /\ UNCHANGED <<record, session, profile, creates, counted, muddled>>

----------------------------------------------------------------------------
(* The generator of the body. *)

\* Only a request that made the record is not counted yet.
BeginBody(r) ==
  /\ Step(r, "ready", "stream")
  /\ IF creates[r]
       THEN IncrActive(session[r]) /\ counted' = [counted EXCEPT ![r] = Exists(session[r])]
       ELSE UNCHANGED <<record, counted>>
  /\ Muddle(creates[r] /\ Active(session[r]) > 0)
  /\ UNCHANGED <<used, perRequest>>

\* The client is gone before the first chunk: the generator never runs.
NeverBegins(r) ==
  /\ Step(r, "ready", "over")
  /\ Muddle(TRUE)
  /\ UNCHANGED <<record, used, perRequest, counted>>

\* The body is over (sent, stopped, failed, or the client is gone): count it
\* out, and hand the slot back if it was the last.  A count that is not there
\* is tried once more in the finally block.
EndBody(r) ==
  LET s == session[r] IN
  /\ DecrActive(s)
  /\ counted' = [counted EXCEPT ![r] = FALSE]
  /\ \/ Active(s) = 0 /\ (Step(r, "stream", "again") \/ Step(r, "again", "over"))
     \/ Active(s) = 1 /\ (Step(r, "stream", "hand") \/ Step(r, "again", "hand"))
     \/ Active(s) > 1 /\ (Step(r, "stream", "over") \/ Step(r, "again", "over"))
  /\ UNCHANGED <<used, perRequest, muddled>>

\* The slot that goes back is the one the record names.
Handed(r) == IF Exists(session[r]) THEN record[session[r]].on ELSE profile[r]

HandBack(r) ==
  /\ Step(r, "hand", "clean")
  /\ FreeSlot(Handed(r))
  /\ UNCHANGED <<record, perRequest, counted, muddled>>

\* The cleanup, a second after the last stream, or at once after an error.
CleanUp(r) ==
  LET s == session[r] IN
  /\ Step(r, "clean", "over") \/ Step(r, "tidy", "over")
  /\ DropIfIdle(s)
  /\ Muddle(IdleRecord(s) /\ (Opening(s) \/ Handing(s)))
  /\ UNCHANGED <<used, perRequest, counted>>

RequestEnters(r) == Choose(r) \/ FindIdle(r) \/ Adopt(r) \/ LookUp(r)
RequestTakes(r)  == ReserveForNew(r) \/ CreateRecord(r) \/ CreateFails(r) \/ Join(r) \/ RetakeSlot(r)
RequestFails(r)  == GetStream(r) \/ Undo(r) \/ Refund(r)
RequestStreams(r) == BeginBody(r) \/ NeverBegins(r) \/ EndBody(r) \/ HandBack(r) \/ CleanUp(r)

VodNext == \E r \in Requests :
  RequestEnters(r) \/ RequestTakes(r) \/ RequestFails(r) \/ RequestStreams(r)

VodSpec == VodInit /\ [][VodNext]_vodVars

----------------------------------------------------------------------------
(* Properties. *)

\* The sessions with a stream on profile p, unless the stream that takes their
\* slot again is still about to.
Streaming(p) ==
  {s \in Sessions : Active(s) > 0 /\ record[s].on = p
                     /\ ~\E r \in Requests : session[r] = s /\ where[r] = "retake"}
\* The requests that hold a slot of p for a session none of them streams from.
Between(p) ==
  {r \in Requests :
     \/ where[r] = "hand" /\ Handed(r) = p
     \/ reserved[r] /\ profile[r] = p
          /\ \/ where[r] \in {"refund", "return"}
             \/ creates[r] /\ where[r] \in {"create", "get", "ready", "undo", "refuse"}}

\* As long as none of this happens: a second request meets a session whose
\* creator has not started its body (to join it, to drop its record or to make
\* it too), a session is adopted by two requests or by one of another profile,
\* a request that took the slot fails while others stream, or one that did not
\* fails as the last, a body never begins -- the record of a session counts
\* exactly the requests that stream from it, and the slots taken are those of
\* the sessions with a stream and those of the requests that open a session or
\* hand it back.
SlotsFollowSessions ==
  ~muddled =>
    /\ \A s \in Sessions :
         Active(s) = Cardinality({r \in Requests : counted[r] /\ session[r] = s})
    /\ \A p \in VodProfiles :
         used[p] = Cardinality(Streaming(p)) + Cardinality(Between(p))

\* multi_worker_connection_manager.py:1066 "0->1 transition: previous stream's
\* GeneratorExit already DECRed the profile counter": when a request takes the
\* slot of a session again, no other request that is still open holds one of it.  One
\* may: README, section 4.
PreviousStreamGaveBack ==
  \A r, q \in Requests :
    where[r] = "retake" /\ q # r /\ session[q] = session[r] =>
      ~(reserved[q] /\ where[q] \in {"create", "get", "ready", "stream"})
=============================================================================

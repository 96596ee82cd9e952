------------------------------- MODULE FanOut -------------------------------
(***************************************************************************)
(* What a channel's ring promises to the clients that read it: one log of  *)
(* chunks, which grows at one end and is forgotten at the other, read by   *)
(* any number of readers at their own pace.  A reader is handed the log's  *)
(* chunks in order, each once; it misses a chunk only when the log had     *)
(* forgotten it before the reader came to it.                              *)
(***************************************************************************)
EXTENDS Integers, Sequences

CONSTANTS Readers,  \* the clients
          Capacity  \* the log remembers at most this many chunks

VARIABLES
  log,     \* every chunk ever published
  floor,   \* the oldest chunk still remembered
  closed,  \* nothing will be published again
  pos,     \* per reader: the last chunk it was handed, or joined after
  at,      \* per reader: out, in, gone
  got      \* per reader: the chunks it was handed

vars == <<log, floor, closed, pos, at, got>>

Init ==
  /\ log = << >> /\ floor = 1 /\ closed = FALSE
  /\ pos = [r \in Readers |-> 0]
  /\ at = [r \in Readers |-> "out"]
  /\ got = [r \in Readers |-> << >>]

\* The log grows, and forgets as much as it likes but never what it has just
\* been given unless that alone is more than it can hold.
Publish ==
  /\ ~closed
  /\ Len(log') > Len(log)
  /\ SubSeq(log', 1, Len(log)) = log
  /\ floor' >= floor
  /\ floor' <= Len(log') /\ floor' > Len(log') - Capacity
  /\ UNCHANGED <<closed, pos, at, got>>

Close == ~closed /\ closed' = TRUE /\ UNCHANGED <<log, floor, pos, at, got>>

\* A reader joins at the live end or behind it, at a chunk still remembered.
Join(r) ==
  /\ at[r] = "out"
  /\ at' = [at EXCEPT ![r] = "in"]
  /\ \E p \in (floor - 1)..Len(log) : pos' = [pos EXCEPT ![r] = p]
  /\ UNCHANGED <<log, floor, closed, got>>

NextFor(r) == IF pos[r] + 1 < floor THEN floor ELSE pos[r] + 1

\* A reader is handed the next chunks it can still have, and not one less.
Deliver(r) ==
  /\ at[r] = "in"
  /\ \E last \in NextFor(r)..Len(log) :
       /\ pos' = [pos EXCEPT ![r] = last]
       /\ got' = [got EXCEPT ![r] = @ \o SubSeq(log, NextFor(r), last)]
  /\ UNCHANGED <<log, floor, closed, at>>

\* A reader that has everything there will ever be is done.
Drain(r) ==
  /\ at[r] = "in" /\ closed /\ pos[r] = Len(log)
  /\ at' = [at EXCEPT ![r] = "gone"]
  /\ UNCHANGED <<log, floor, closed, pos, got>>

Leave(r) ==
  /\ at[r] = "in"
  /\ at' = [at EXCEPT ![r] = "gone"]
  /\ UNCHANGED <<log, floor, closed, pos, got>>

Next ==
  \/ Publish \/ Close
  \/ \E r \in Readers : Join(r) \/ Deliver(r) \/ Drain(r) \/ Leave(r)

Spec == Init /\ [][Next]_vars

\* A reader that stays is handed what it has not seen.
Live == \A r \in Readers : WF_vars(Deliver(r)) /\ WF_vars(Drain(r))
============================================================================

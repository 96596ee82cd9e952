------------------------------- MODULE MCSlot -------------------------------
(* Values for the small instances of SlotPool. *)
EXTENDS SlotPool, TLC

CONSTANTS a, b, sa, sb, ta, px, py
TwoChannels == {a, b}
OneChannel  == {a}
From(s, t)  == [stream |-> s, profile |-> t]
\* Channel a has a stream on px and an alternate on py, b a stream on px.
Walks      == a :> <<From(sa, px), From(ta, py)>> @@ b :> <<From(sb, px)>>
WalksOfOne == a :> <<From(sa, px), From(ta, py)>>
\* px has room for one, or for two.
Tight == px :> 1 @@ py :> 1
Caps  == px :> 2 @@ py :> 1
=============================================================================

----------------------------- MODULE MCManager -----------------------------
(* Values for the small instances of ChannelManager. *)
EXTENDS ChannelManager

CONSTANTS i1, p1, p2
OneId  == {i1}
TwoCallers   == {p1, p2}
NoCaller == {}
Never == {FALSE}
Always == {TRUE}
============================================================================

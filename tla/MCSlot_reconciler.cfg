\* One run of a channel, a call that fails, and the reconciler.
SPECIFICATION FairSpec
CONSTANTS
  a = a
  b = b
  sa = sa
  sb = sb
  ta = ta
  px = px
  py = py
  None = None
  Channels <- OneChannel
  Streams = {sa, sb, ta}
  Profiles = {px, py}
  MaxRuns = 1
  Switchers = {1}
  Candidates <- WalksOfOne
  MaxStreams <- Caps
  Failing = {"tune", "switch", "release"}
  MaxFaults = 1
PROPERTIES
  CountersConverge
CHECK_DEADLOCK FALSE

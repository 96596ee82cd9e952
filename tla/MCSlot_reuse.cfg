\* The comment in get_stream, taken at its word.
SPECIFICATION Spec
CONSTANTS
  a = a
  b = b
  sa = sa
  sb = sb
  ta = ta
  px = px
  py = py
  None = None
  Channels <- OneChannel
  Streams = {sa, sb, ta}
  Profiles = {px, py}
  MaxRuns = 2
  Switchers = {1}
  Candidates <- WalksOfOne
  MaxStreams <- Caps
  Failing = {}
  MaxFaults = 0
INVARIANTS
  RunningChannelsAreCounted
CHECK_DEADLOCK FALSE

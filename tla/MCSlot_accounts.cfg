\* Two channels, two runs, no failure: tunes, a failover and releases that share the providers.
SPECIFICATION Spec
CONSTANTS
  a = a
  b = b
  sa = sa
  sb = sb
  ta = ta
  px = px
  py = py
  None = None
  Channels <- TwoChannels
  Streams = {sa, sb, ta}
  Profiles = {px, py}
  MaxRuns = 2
  Switchers = {1}
  Candidates <- Walks
  MaxStreams <- Tight
  Failing = {}
  MaxFaults = 0
INVARIANTS
  UncrossedCallsAccount
PROPERTIES
  ReconcileSparesHolders
CHECK_DEADLOCK FALSE

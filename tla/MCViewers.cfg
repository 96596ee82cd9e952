\* The manager: two HLS clients, two ids, one channel at a time.  The sessions: two viewers or
\* two requests, two pipelines.  A drain of one channel and of two.
SPECIFICATION SubjectSpec
CONSTANTS
  i1 = i1
  i2 = i2
  p1 = p1
  p2 = p2
  v1 = v1
  v2 = v2
  g1 = g1
  g2 = g2
  c1 = c1
  c2 = c2
  Channels = {c1, c2}
  QueueDepth = 3
  MaxBatch = 2
  MaxTries = 2
  MaxMisses = 1
  Nobody = Nobody
  Viewers = {v1, v2}
  Requests = {g1, g2}
  MaxPipes = 2
  LingerOn = TRUE
  Subjects <- EitherParty
  None = None
  Ids <- TwoIds
  Callers <- TwoCallers
  HlsCallers <- TwoCallers
  Delays <- Always
  Lingers <- Always
  MaxChans = 1
  MaxTunes = 2
INVARIANTS
  OneStartPerId
  NoStrandedUpstream
  ListedChannelHoldsSlot
  SessionsEndWithChannel
  IdleIsNoticed
  IdleStopIsFinal
  ReclaimTakesNoViewer
  RefsAreHeld
  ClientsAreHeld
  MarkExcludesPipeline
  ConnectsAreClosed
  DrainTellsTheEnds
  RowsKeepTheOrder
PROPERTIES
  StoppedIsFinal
SYMMETRY PartySymmetry
CHECK_DEADLOCK FALSE

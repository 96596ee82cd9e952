\* The waits of the manager end; a run of three streams with two URLs, one switch, one Advance;
\* an HLS pipeline with one audio rendition.
SPECIFICATION SubjectSpec
CONSTANTS
  i1 = i1
  p1 = p1
  p2 = p2
  s1 = s1
  s2 = s2
  s3 = s3
  u1 = u1
  u2 = u2
  Subjects <- AllParts
  None = None
  Ids <- OneId
  Callers <- TwoCallers
  HlsCallers <- OneCaller
  Delays <- Never
  Lingers <- Never
  MaxChans = 1
  MaxTunes = 2
  Nobody = Nobody
  Streams = {s1, s2, s3}
  Url <- TwoUrls
  First = s1
  MaxStreamSwitches = 1
  MaxRetries = 2
  MaxUnhealthyChecks = 2
  MaxAdvances = 1
  MaxCalm = 1
  AudioTracks <- OneTrack
  Automatic = TRUE
  MaxDeaths = 2
  MaxAhead = 1
INVARIANTS
  SwitchesStayInBudget
  AutomaticSwitchesArePlayed
  MediaMatchesInit
PROPERTIES
  GateOpens
  RemovedIsReleased
  DeadUpstreamsEndThisRun
  StopEndsPipeline
CHECK_DEADLOCK FALSE

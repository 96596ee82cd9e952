\* The comment on starting, taken at its word.
SPECIFICATION Spec
CONSTANTS
  i1 = i1
  p1 = p1
  p2 = p2
  None = None
  Ids <- OneId
  Callers <- TwoCallers
  HlsCallers <- NoCaller
  Delays <- Never
  Lingers <- Never
  MaxChans = 2
  MaxTunes = 2
INVARIANTS
  OneUpstreamPerChannel
CHECK_DEADLOCK FALSE

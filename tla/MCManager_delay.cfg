\* The comment on Attach, taken at its word.
SPECIFICATION Spec
CONSTANTS
  i1 = i1
  p1 = p1
  p2 = p2
  None = None
  Ids <- OneId
  Callers <- TwoCallers
  HlsCallers <- NoCaller
  Delays <- Always
  Lingers <- Never
  MaxChans = 1
  MaxTunes = 2
PROPERTIES
  DelayRunsFromLastRelease
CHECK_DEADLOCK FALSE

\* The comment in claim, taken at its word.
SPECIFICATION Spec
CONSTANTS
  i1 = i1
  p1 = p1
  p2 = p2
  None = None
  Ids <- OneId
  Callers <- TwoCallers
  HlsCallers <- TwoCallers
  Delays <- Always
  Lingers <- Always
  MaxChans = 1
  MaxTunes = 1
INVARIANTS
  FinishedEntryHasAWatcher
CHECK_DEADLOCK FALSE

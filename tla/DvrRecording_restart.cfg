\* Two dispatches and a crash: a recovery that finds the lock of a dead worker.
SPECIFICATION DvrSpec
CONSTANTS
  MaxJobs = 2
  MaxParts = 1
  MaxPaths = 1
  MaxNow = 1
  MaxFaults = 1
  MaxEdits = 0
PROPERTIES
  RecoverySkipsOnlyLive
CHECK_DEADLOCK FALSE

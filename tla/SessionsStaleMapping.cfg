SPECIFICATION Spec
CONSTANTS
  p1 = p1
  p2 = p2
  Procs <- TwoProcs
  None = none
  Options <- WritersAndReaders
  InitialCapacity = 1
  CreatedFirst = TRUE
  MaxCapacity = 2
  MaxCount = 2
INVARIANT RecordsReachable
CHECK_DEADLOCK FALSE

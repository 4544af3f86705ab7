SPECIFICATION Spec
CONSTANTS
  p1 = p1
  p2 = p2
  Procs <- TwoProcs
  None = none
  Options <- JustOneWriter
  InitialCapacity = 1
  CreatedFirst = TRUE
  MaxCapacity = 2
  MaxCount = 2
INVARIANT CounterIsTheWriters
CHECK_DEADLOCK FALSE

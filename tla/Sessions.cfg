SPECIFICATION Spec
CONSTANTS
  p1 = p1
  p2 = p2
  Procs <- TwoProcs
  None = none
  Options <- LockedWriters
  InitialCapacity = 1
  CreatedFirst = TRUE
  MaxCapacity = 4
  MaxCount = 3
SYMMETRY Swapped
INVARIANTS TypeOK NothingLeftBehind FaultsExplained OpenedIdentified
PROPERTY ImplementsOneWriterLog
CHECK_DEADLOCK FALSE

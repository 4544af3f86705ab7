SPECIFICATION DurableSpec
CONSTANTS
  a1 = a1
  s1 = s1
  Appenders <- MCAppenders
  Syncers <- MCSyncers
  None = none
  HeaderSize = 2
  RecordSize = 2
  PageSize = 3
  InitialCapacity = 1
  MaxVA = 12
  SyncsAlone = TRUE
  FlushesGrown = FALSE
  LengthFirst = TRUE
  MaxCount = 5
  MaxOpens = 2
INVARIANTS DurableTypeOK SyncedSurvives RecordsMapped
CHECK_DEADLOCK FALSE

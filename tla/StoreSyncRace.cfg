SPECIFICATION Spec
CONSTANTS
  a1 = a1
  a2 = a2
  s1 = s1
  s2 = s2
  Appenders <- TwoAppenders
  Syncers <- OneSyncer
  None = none
  HeaderSize = 1
  RecordSize = 2
  PageSize = 4
  InitialCapacity = 1
  MaxVA = 12
  SyncsAlone = FALSE
  FlushesGrown = FALSE
  MaxCount = 4
  MaxOpens = 3
PROPERTY UniqueIndices
CHECK_DEADLOCK FALSE

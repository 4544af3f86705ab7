SPECIFICATION FairSpec
CONSTANTS
  a1 = a1
  a2 = a2
  s1 = s1
  s2 = s2
  Appenders <- TwoAppenders
  Syncers <- TwoSyncers
  None = none
  HeaderSize = 1
  RecordSize = 2
  PageSize = 4
  InitialCapacity = 1
  MaxVA = 20
  SyncsAlone = TRUE
  FlushesGrown = TRUE
  MaxCount = 9
  MaxOpens = 3
INVARIANTS TypeOK CapacityBacked IssuedLive
PROPERTIES ImplementsLog UniqueIndices AppendReturns
CHECK_DEADLOCK FALSE

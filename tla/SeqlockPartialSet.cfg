SPECIFICATION Spec
CONSTANTS
  w1 = w1
  w2 = w2
  r1 = r1
  v0 = v0
  v1 = v1
  Writers <- OneWriter
  Readers <- OneReader
  NumWords = 2
  Fields <- TwoScalars
  Fallible <- TheSecond
  Bodies <- NoField
  Values <- TwoValues
  Zero = v0
  None = none
  TooLong = tooLong
  Serialized = TRUE
  CleanCrashes = TRUE
  MaxRecords = 1
  MaxSeq = 4
  MaxCrashes = 0
PROPERTY SetAllOrNothing
CHECK_DEADLOCK FALSE

SPECIFICATION FairSpec
CONSTANTS
  w1 = w1
  w2 = w2
  r1 = r1
  v0 = v0
  v1 = v1
  Writers <- TwoWriters
  Readers <- OneReader
  NumWords = 3
  Fields <- StringFirst
  Fallible <- StringFirst
  Bodies <- BodyFirst
  Values <- TwoValues
  Zero = v0
  None = none
  TooLong = tooLong
  Serialized = TRUE
  CleanCrashes = TRUE
  MaxRecords = 1
  MaxSeq = 4
  MaxCrashes = 1
INVARIANTS TypeOK ValidMeansCommitted OddIffWriting FreshRecordsZero
PROPERTIES ImplementsAtomic SetByFields GetReturns
CHECK_DEADLOCK FALSE

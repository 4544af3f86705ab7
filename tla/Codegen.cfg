SPECIFICATION Spec
CONSTANTS
  Word = 64
  Calls <- NoCalls
  Sources <- AllSources
  LowerCase <- Lower
  BadSize = badSize
INVARIANTS TypeOK FieldsApart Compact RejectsInvalid AccessorsApart EveryFieldAccessible EverySchemaWritten RejectedWritesNothing HashGuardsLayout
CHECK_DEADLOCK FALSE

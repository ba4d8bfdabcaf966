\* A whole run of the client, with every configuration of four values and every
\* way to fail.
SPECIFICATION ClientSpec
CONSTANTS
  Size = 4
  Trees <- AllTrees
  MaxRevision = 1
  NoRevision = NoRevision
INVARIANTS
  ClientTypeOK
  CodeTellsOutcome
  SentIsComplete
  AskedOnce
PROPERTIES
  ClientEnds
CHECK_DEADLOCK FALSE

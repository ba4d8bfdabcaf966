\* Is the revision run that was signed?
SPECIFICATION ClientSpec
CONSTANTS
  Size = 1
  Trees <- AllTrees
  MaxRevision = 1
  NoRevision = NoRevision
INVARIANTS
  RanRequestedRevision
CHECK_DEADLOCK FALSE

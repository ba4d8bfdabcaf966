\* A timer that may be late and a clock that may be set, for a few intervals,
\* with a response that reconnects.
SPECIFICATION Spec
CONSTANTS
  Response = {"starter", "joined"}
  Starter = "starter"
  Interval = 3
  Lateness = 1
  MaxBack = 1
  IdleLimit = 6
  MaxTime = 13
INVARIANTS
  KeepAliveTypeOK
  SilenceBounded
  StarterNotCut
PROPERTIES
  EndedIsSilent
CHECK_DEADLOCK FALSE

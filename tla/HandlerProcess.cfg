\* Two requests, one with a revision and a core section, one with neither, on
\* one process.
SPECIFICATION HandlerSpec
CONSTANTS
  Token = {t1, t2}
  Child = {c1}
  HasRevision = {t1}
  HasCore = {t1, t2}
  MaxChunks = 2
  ExitWaitsForStdio = TRUE
  NoChild = NoChild
INVARIANTS
  HandlerTypeOK
  EndIsLast
  EndAfterCleanup
  SandboxCoversRun
PROPERTIES
  EveryRequestEnds
  OrphansExit
CHECK_DEADLOCK FALSE

\* As HandlerProcess.cfg, on a Node whose exit event does not wait for the pipes.
SPECIFICATION HandlerSpec
CONSTANTS
  Token = {t1, t2}
  Child = {c1}
  HasRevision = {t1}
  HasCore = {t1, t2}
  MaxChunks = 2
  ExitWaitsForStdio = FALSE
  NoChild = NoChild
INVARIANTS
  EndIsLast
CHECK_DEADLOCK FALSE

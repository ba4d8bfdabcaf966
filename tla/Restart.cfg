\* A restart, a key that comes and goes, a malformed request, and output that
\* is read after the shell has exited: the server stops and starts at any point.
SPECIFICATION Spec
CONSTANTS
  c1 = c1
  c2 = c2
  c3 = c3
  alice = alice
  bob = bob
  NoChild = NoChild
  NoToken = NoToken
  Child <- Processes
  Token = {c1, c2, c3}
  Digest = {"d1", "d2"}
  DigestOf <- DigestsOfThree
  User = {alice}
  UserOf <- OneSigner
  HasRevision = {}
  HasCore = {c1, c2}
  WellFormed = {c1, c2}
  Movable = {alice}
  MaxChunks = 1
  MaxRestarts = 1
  ExitWaitsForStdio = FALSE
INVARIANTS
  EndedAfterCleanup
  AuditTrail
CHECK_DEADLOCK FALSE

\* Two requests with one signature, and every interleaving of a run with a
\* reconnection, on one user and without restarts.
SPECIFICATION Spec
CONSTANTS
  c1 = c1
  c2 = c2
  c3 = c3
  alice = alice
  bob = bob
  NoChild = NoChild
  NoToken = NoToken
  Child <- Processes
  Token = {c1, c2}
  Digest = {"d1"}
  DigestOf <- DigestsOfTwo
  User = {alice}
  UserOf <- OneSigner
  HasRevision = {c1}
  HasCore = {c1}
  WellFormed = {c1, c2}
  Movable = {}
  MaxChunks = 2
  MaxRestarts = 0
  ExitWaitsForStdio = TRUE
INVARIANTS
  TypeOK
  NoGaps
  StarterHasAll
PROPERTIES
  EveryRequestAnswered
  ImplementsService
CHECK_DEADLOCK FALSE

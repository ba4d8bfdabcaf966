\* Two users, each with a process: two requests of one, one of the other, whose
\* key may also be added after the start, or go away.
SPECIFICATION Spec
CONSTANTS
  c1 = c1
  c2 = c2
  c3 = c3
  alice = alice
  bob = bob
  NoChild = NoChild
  NoToken = NoToken
  Child <- Processes
  Token = {c1, c2, c3}
  Digest = {"d1", "d2"}
  DigestOf <- DigestsOfThree
  User = {alice, bob}
  UserOf <- TwoSigners
  HasRevision = {}
  HasCore = {c1, c2, c3}
  WellFormed = {c1, c2, c3}
  Movable = {bob}
  MaxChunks = 1
  MaxRestarts = 0
  ExitWaitsForStdio = TRUE
INVARIANTS
  TablesAgree
  SingleFlight
  EveryMessageHasEmitter
  OwnOutputOnly
CHECK_DEADLOCK FALSE

\* One challenge against a changing sandbox with a nested directory, a
\* whitelisted jar and a jar in the sandbox of another token.
SPECIFICATION Spec
CONSTANTS
  q1 = q1
  box = box
  other = other
  checkout = checkout
  white = white
  NoDir = NoDir
  Absent = Absent
  Undefined = Undefined
  Challenge = {q1}
  Sha1Of <- AskForGood
  SandboxOf <- AskBox
  Sandbox = {box, other}
  Dir = {box, other, checkout, white}
  Jar = {"top", "deep", "listed", "foreign"}
  Parent <- Parents
  WhitelistDir = white
  Hash = {"good", "bad"}
  MaxWrites = 2
INVARIANTS
  ChallengeTypeOK
  NokIsJustified
  WalkIsOver
  AnswerIsAudited
  OkIsVouched
PROPERTIES
  EveryChallengeAnswered
CHECK_DEADLOCK FALSE

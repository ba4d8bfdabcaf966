\* A job with up to two jars, with the token of a sandbox, with another one or
\* with none, against a server that may end and restart, connections that break
\* and directories that change.
SPECIFICATION JobSpec
CONSTANTS
  box = box
  elsewhere = elsewhere
  white = white
  job1 = job1
  NoDir = NoDir
  Absent = Absent
  Undefined = Undefined
  NoToken = NoToken
  EmptyToken = EmptyToken
  NoHash = NoHash
  Job = {job1}
  MaxJars = 2
  TokensOf <- AnyToken
  Challenge <- Challenges
  Sha1Of <- HashIn
  SandboxOf <- TokenIn
  Sandbox = {box}
  Dir = {box, elsewhere, white}
  Jar = {"top", "listed"}
  Parent <- ParentOf
  WhitelistDir = white
  Hash = {"good", "bad"}
  MaxWrites = 1
INVARIANTS
  JobTypeOK
  
  RejectionIsExplained

  
CHECK_DEADLOCK FALSE

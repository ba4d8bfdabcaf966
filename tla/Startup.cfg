\* Two keys and a file that is none; two starts in all, by start and restart.
SPECIFICATION Spec
CONSTANTS
  File = {"u.pem", "v.pem", "readme"}
  Pem = {"u.pem", "v.pem"}
  MaxStarts = 2
  NoPid = NoPid
INVARIANTS
  StartupTypeOK
  ServesOnlyReady
  RunningIsNamed
PROPERTIES
  StartedServes
CHECK_DEADLOCK FALSE

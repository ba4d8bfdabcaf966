------------------------------- MODULE Startup -------------------------------
(***************************************************************************)
(* The life of the audit server before its first request and around its    *)
(* last: auditserver.sh with its pid file, the key directory, the          *)
(* hand-shake with one handler process per key and the counter that says   *)
(* when to listen (audit-server.js, lib/handlerprocess/process.js).        *)
(***************************************************************************)
EXTENDS Naturals, FiniteSets

CONSTANTS
  File,      \* what lies in the key directory
  Pem,       \* the files named <user>.pem
  MaxStarts, \* bound: how many servers the script starts
  NoPid

ASSUME StartupAssumption ==
  /\ IsFiniteSet(File)
  /\ Pem \subseteq File
  /\ MaxStarts \in Nat \ {0}
  /\ NoPid \notin 1..MaxStarts

VARIABLES
  script,   \* what the script is about to do
  pidFile,  \* /var/run/auditserver/auditserver.pid
  server,   \* the servers started so far
  killed,   \* those that were sent a signal
  waiting,  \* numberOfChildProcessesThatAreStillInitializing
  child,    \* how far each handler process is in the hand-shake
  dead      \* the handler processes that have ended

vars == <<script, pidFile, server, killed, waiting, child, dead>>

Pid == 1..MaxStarts

\* `readyForConfig`, `configuration` and `handlerReady` are messages in the
\* channel of the process.
Phase == {"none", "forked", "readyForConfig", "configuration",
          "handlerReady", "ready"}

StartupTypeOK ==
  /\ script \in [at : {"idle", "refused", "start", "launch", "pid", "stop", "rm"},
                 restart : BOOLEAN]
  /\ pidFile \in Pid \cup {NoPid}
  /\ server \in [Pid -> {"none", "readdir", "waiting", "listening", "ended"}]
  /\ killed \subseteq Pid
  /\ waiting \in [Pid -> 0..Cardinality(File)]
  /\ child \in [Pid -> [Pem -> Phase]]
  /\ dead \subseteq Pid \X Pem

Init ==
  /\ script = [at |-> "idle", restart |-> FALSE]
  /\ pidFile = NoPid
  /\ server = [n \in Pid |-> "none"]
  /\ killed = {}
  /\ waiting = [n \in Pid |-> 0]
  /\ child = [n \in Pid |-> [u \in Pem |-> "none"]]
  /\ dead = {}

Running(n) == server[n] \in {"readdir", "waiting", "listening"}

-----------------------------------------------------------------------------
(* auditserver.sh                                                          *)

Goto(at) == script' = [script EXCEPT !.at = at]

Call ==
  /\ script.at \in {"idle", "refused"}
  /\ \E op \in {"start", "stop", "restart"} :
       /\ op # "stop" => server[MaxStarts] = "none"
       /\ script' = [at |-> IF op = "start" THEN "start" ELSE "stop",
                     restart |-> op = "restart"]
  /\ UNCHANGED <<pidFile, server, killed, waiting, child, dead>>

\* Slip: start does not look for the pid file.
NeverRefused == FALSE
AlreadyRunning == pidFile # NoPid

Start ==
  /\ script.at = "start"
  /\ Goto(IF AlreadyRunning THEN "refused" ELSE "launch")
  /\ UNCHANGED <<pidFile, server, killed, waiting, child, dead>>

Launch ==
  /\ script.at = "launch"
  /\ \E n \in Pid : /\ server[n] = "none"
                    /\ n # 1 => server[n - 1] # "none"
                    /\ server' = [server EXCEPT ![n] = "readdir"]
  /\ Goto("pid")
  /\ UNCHANGED <<pidFile, killed, waiting, child, dead>>

Latest == CHOOSE n \in Pid :
            server[n] # "none" /\ \A m \in Pid : m > n => server[m] = "none"

\* The script is taken to run to its end, and the file to be writable.
WritePid ==
  /\ script.at = "pid"
  /\ pidFile' = Latest
  /\ Goto("idle")
  /\ UNCHANGED <<server, killed, waiting, child, dead>>

\* Without a pid file the script ends here, also when it was to restart.
StopServer ==
  /\ script.at = "stop"
  /\ IF pidFile = NoPid
     THEN Goto("idle") /\ UNCHANGED killed
     ELSE Goto("rm") /\ killed' = killed \cup {pidFile}
  /\ UNCHANGED <<pidFile, server, waiting, child, dead>>

RemovePid ==
  /\ script.at = "rm"
  /\ pidFile' = NoPid
  /\ Goto(IF script.restart THEN "start" ELSE "idle")
  /\ UNCHANGED <<server, killed, waiting, child, dead>>

Script == Call \/ Start \/ Launch \/ WritePid \/ StopServer \/ RemovePid

-----------------------------------------------------------------------------
(* The server and its handler processes.                                   *)

\* Slips: files that are no keys are taken off twice, or stay counted.
InitialCountTwice == Cardinality(Pem) - Cardinality(File \ Pem)
InitialCountAll == Cardinality(File)
InitialCount == Cardinality(File) - Cardinality(File \ Pem)

\* A process is forked for each key; nothing checks the counter here, so that
\* a server without keys never listens.
PopulateChildren(n) ==
  /\ server[n] = "readdir"
  /\ \/ /\ server' = [server EXCEPT ![n] = "ended"]
        /\ UNCHANGED <<waiting, child>>
     \/ /\ server' = [server EXCEPT ![n] = "waiting"]
        /\ waiting' = [waiting EXCEPT ![n] = InitialCount]
        /\ child' = [child EXCEPT ![n] = [u \in Pem |-> "forked"]]
  /\ UNCHANGED <<script, pidFile, killed, dead>>

\* The process sends its first message, or answers CONFIGURATION.
ChildStep(n, u) ==
  /\ Running(n)
  /\ <<n, u>> \notin dead
  /\ \/ /\ child[n][u] = "forked"
        /\ child' = [child EXCEPT ![n][u] = "readyForConfig"]
     \/ /\ child[n][u] = "configuration"
        /\ child' = [child EXCEPT ![n][u] = "handlerReady"]
  /\ UNCHANGED <<script, pidFile, server, killed, waiting, dead>>

ReadyForConfig(n, u) ==
  /\ Running(n)
  /\ child[n][u] = "readyForConfig"
  /\ child' = [child EXCEPT ![n][u] = "configuration"]
  /\ UNCHANGED <<script, pidFile, server, killed, waiting, dead>>

\* Slip: the first process that is ready opens the server.
AnyReady(n) == TRUE
AllReady(n) == waiting[n] = 1

\* The counter goes down and at 0 the server listens, if the port is free.
HandlerReady(n, u) ==
  /\ Running(n)
  /\ child[n][u] = "handlerReady"
  /\ child' = [child EXCEPT ![n][u] = "ready"]
  /\ waiting' = [waiting EXCEPT ![n] = @ - 1]
  /\ server' = [server EXCEPT ![n] =
                  CASE ~AllReady(n) -> @
                    [] AllReady(n) /\ \E m \in Pid : server[m] = "listening"
                         -> "ended"
                    [] OTHER -> "listening"]
  /\ UNCHANGED <<script, pidFile, killed, dead>>

\* No group for the user, an exception in a recipe, a signal.
ChildDies(n, u) ==
  /\ Running(n)
  /\ child[n][u] # "none"
  /\ dead' = dead \cup {<<n, u>>}
  /\ UNCHANGED <<script, pidFile, server, killed, waiting, child>>

ChildExited(n) == \E u \in Pem : <<n, u>> \in dead

\* A signal, the exit event of a process, or an exception.
Ends(n) ==
  /\ Running(n)
  /\ n \in killed \/ ChildExited(n) \/ server[n] = "listening"
  /\ server' = [server EXCEPT ![n] = "ended"]
  /\ UNCHANGED <<script, pidFile, killed, waiting, child, dead>>

ServerStep(n) ==
  \/ PopulateChildren(n)
  \/ \E u \in Pem : ReadyForConfig(n, u) \/ HandlerReady(n, u)

Next ==
  \/ Script
  \/ \E n \in Pid :
       \/ ServerStep(n) \/ Ends(n)
       \/ \E u \in Pem : ChildStep(n, u) \/ ChildDies(n, u)

\* Event loops run; signals and exit events arrive.  The administrator is free,
\* and nothing makes a listening server end.
Spec ==
  /\ Init /\ [][Next]_vars
  /\ \A n \in Pid :
       /\ WF_vars(ServerStep(n))
       /\ WF_vars((n \in killed \/ ChildExited(n)) /\ Ends(n))
       /\ \A u \in Pem : WF_vars(ChildStep(n, u))

-----------------------------------------------------------------------------

\* Requests are taken only when every user's process has been configured, as
\* the routes assume of `children` (audit-server.js:120-123,139-146); whatever
\* order the messages of the processes come in, and whoever dies meanwhile.
ServesOnlyReady ==
  \A n \in Pid : server[n] = "listening" =>
    \A u \in Pem : child[n][u] = "ready"

\* A server that is not told to end is the one the pid file names, so that the
\* script can stop it (auditserver.sh:3-43); the script is run by one person at
\* a time.
RunningIsNamed ==
  script.at \in {"idle", "refused"} =>
    \A n \in Pid \ killed : Running(n) => pidFile = n

\* A start leads to a server that listens or has ended: no lost message or dead
\* process leaves it waiting (audit-server.js:111-161).
StartedServes ==
  \A n \in Pid : server[n] = "readdir" ~> server[n] \in {"listening", "ended"}

=============================================================================

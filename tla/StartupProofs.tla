---------------------------- MODULE StartupProofs ----------------------------
(***************************************************************************)
(* The hand-shake and the pid file, for any number of keys, stray files    *)
(* and launches.                                                           *)
(***************************************************************************)
EXTENDS Startup, FiniteSetTheorems, TLAPS

\* The processes of a server that have not been counted as ready.
NotReady(n) == {u \in Pem : child[n][u] # "ready"}

\* A server has processes once it has read the key directory, and its counter
\* is the number of those that are not ready.
CounterCounts ==
  \A n \in Pid :
    /\ server[n] \in {"none", "readdir"} => \A u \in Pem : child[n][u] = "none"
    /\ server[n] \in {"waiting", "listening"} =>
         waiting[n] = Cardinality(NotReady(n))
    /\ server[n] = "listening" => waiting[n] = 0

\* Servers are launched in the order of their numbers.
InOrder == \A m, n \in Pid : m < n /\ server[n] # "none" => server[m] # "none"

Newest(n) ==
  server[n] # "none" /\ \A m \in Pid : m > n => server[m] = "none"

\* What the script knows at each of its commands about the servers that it has
\* not sent a signal.
PidFileAgrees ==
  /\ script.at \in {"idle", "refused", "start", "stop"} =>
       \A n \in Pid \ killed : Running(n) => pidFile = n
  /\ script.at \in {"launch", "rm"} => \A n \in Pid \ killed : ~Running(n)
  /\ script.at = "pid" =>
       /\ \E n \in Pid : Newest(n)
       /\ \A n \in Pid \ killed : Running(n) => Newest(n)

StartupInv == StartupTypeOK /\ CounterCounts /\ InOrder /\ PidFileAgrees

-----------------------------------------------------------------------------

\* The counter starts at the number of keys.
LEMMA InitialCountIsKeys == InitialCount = Cardinality(Pem)
<1>1. IsFiniteSet(Pem) /\ IsFiniteSet(File \ Pem) /\ Pem = File \ (File \ Pem)
  BY StartupAssumption, FS_Subset
<1>2. Cardinality(File \ Pem) \in Nat /\ Cardinality(Pem) \in Nat
  BY <1>1, FS_CardinalityType
<1>3. Cardinality(File) = Cardinality(Pem) + Cardinality(File \ Pem)
  <2>1. /\ Pem \cup (File \ Pem) = File
        /\ Pem \cap (File \ Pem) = {}
    BY StartupAssumption
  <2> QED
    BY <1>1, <1>2, <2>1, FS_Union, FS_EmptySet
<1> QED
  BY <1>2, <1>3 DEF InitialCount

\* A set of keys has at most as many elements as there are files.
LEMMA KeysBounded ==
  ASSUME NEW S \in SUBSET Pem
  PROVE  IsFiniteSet(S) /\ Cardinality(S) \in 0..Cardinality(File)
<1>1. S \in SUBSET File
  BY StartupAssumption
<1>2. IsFiniteSet(S) /\ Cardinality(S) <= Cardinality(File)
  BY <1>1, StartupAssumption, FS_Subset
<1> QED
  BY <1>2, StartupAssumption, FS_CardinalityType

\* No server, no pid file, no process.
LEMMA InitStartup == Init => StartupInv
<1> SUFFICES ASSUME Init PROVE StartupInv
  OBVIOUS
<1>1. StartupTypeOK
  BY StartupAssumption, FS_CardinalityType DEF Init, StartupTypeOK, Phase
<1>2. CounterCounts /\ InOrder /\ PidFileAgrees
  BY DEF Init, CounterCounts, InOrder, PidFileAgrees, Running
<1> QED
  BY <1>1, <1>2 DEF StartupInv

-----------------------------------------------------------------------------
(* The script.                                                             *)

\* A launched server comes after all others.
LEMMA LaunchIsNewest ==
  ASSUME StartupInv, Launch
  PROVE  \E n \in Pid : /\ server[n] = "none"
                        /\ server' = [server EXCEPT ![n] = "readdir"]
                        /\ \A m \in Pid : m < n => server[m] # "none"
                        /\ \A m \in Pid : m > n => server[m] = "none"
<1>1. PICK n \in Pid : /\ server[n] = "none"
                       /\ n # 1 => server[n - 1] # "none"
                       /\ server' = [server EXCEPT ![n] = "readdir"]
  BY DEF Launch
<1>2. ASSUME NEW m \in Pid, m < n PROVE server[m] # "none"
  <2>1. n - 1 \in Pid /\ m <= n - 1
    BY <1>2, StartupAssumption DEF Pid
  <2> QED
    BY <1>1, <1>2, <2>1, StartupAssumption DEF StartupInv, InOrder, Pid
<1>3. ASSUME NEW m \in Pid, m > n PROVE server[m] = "none"
  BY <1>1, <1>3, StartupAssumption DEF StartupInv, InOrder, Pid
<1> QED
  BY <1>1, <1>2, <1>3

\* There is only one newest server.
LEMMA NewestIsLatest ==
  ASSUME NEW n \in Pid, Newest(n)
  PROVE  Latest = n
<1>1. \A m \in Pid : Newest(m) => m = n
  BY StartupAssumption DEF Newest, Pid
<1> QED
  BY <1>1 DEF Latest, Newest

\* Every command of the script keeps the invariant.
LEMMA ScriptStep ==
  ASSUME StartupInv, Script
  PROVE  StartupInv'
<1> USE DEF StartupInv
<1>1. CASE Call
  <2>1. /\ UNCHANGED <<pidFile, server, killed, waiting, child, dead>>
        /\ script.at \in {"idle", "refused"}
        /\ script'.at \in {"start", "stop"}
        /\ StartupTypeOK'
    BY <1>1 DEF Call, StartupTypeOK
  <2> QED
    BY <2>1 DEF CounterCounts, NotReady, InOrder, PidFileAgrees, Running
<1>2. CASE Start
  <2>1. /\ UNCHANGED <<pidFile, server, killed, waiting, child, dead>>
        /\ script.at = "start"
        /\ StartupTypeOK'
    BY <1>2 DEF Start, Goto, StartupTypeOK
  <2>2. \/ script'.at = "refused"
        \/ script'.at = "launch" /\ pidFile = NoPid
    BY <1>2 DEF Start, Goto, AlreadyRunning, StartupTypeOK
  <2>3. CounterCounts' /\ InOrder'
    BY <2>1 DEF CounterCounts, NotReady, InOrder
  <2>4. PidFileAgrees'
    BY <2>1, <2>2, StartupAssumption DEF PidFileAgrees, Running, Pid
  <2> QED
    BY <2>1, <2>3, <2>4
<1>3. CASE Launch
  <2>1. /\ UNCHANGED <<pidFile, killed, waiting, child, dead>>
        /\ script.at = "launch" /\ script'.at = "pid"
        /\ StartupTypeOK'
    BY <1>3 DEF Launch, Goto, StartupTypeOK
  <2>2. PICK n \in Pid : /\ server[n] = "none"
                         /\ server' = [server EXCEPT ![n] = "readdir"]
                         /\ \A m \in Pid : m < n => server[m] # "none"
                         /\ \A m \in Pid : m > n => server[m] = "none"
    BY <1>3, LaunchIsNewest
  <2>3. /\ server'[n] = "readdir"
        /\ \A m \in Pid \ {n} : server'[m] = server[m]
    BY <2>2 DEF StartupTypeOK
  <2>4. CounterCounts'
    BY <2>1, <2>2, <2>3 DEF CounterCounts, NotReady
  <2>5. InOrder'
    BY <2>2, <2>3, StartupAssumption DEF InOrder, Pid
  <2>6. Newest(n)'
    BY <2>2, <2>3, StartupAssumption DEF Newest, Pid
  <2>7. PidFileAgrees'
    BY <2>1, <2>3, <2>6 DEF PidFileAgrees, Running
  <2> QED
    BY <2>1, <2>4, <2>5, <2>7
<1>4. CASE WritePid
  <2>1. /\ UNCHANGED <<server, killed, waiting, child, dead>>
        /\ script.at = "pid" /\ pidFile' = Latest
    BY <1>4 DEF WritePid
  <2>2. script' = [script EXCEPT !.at = "idle"] /\ script'.at = "idle"
    BY <1>4 DEF WritePid, Goto, StartupTypeOK
  <2>3. \A n \in Pid : Newest(n) => pidFile' = n
    BY <2>1, NewestIsLatest
  <2>4. pidFile' \in Pid
    BY <2>1, <2>3 DEF PidFileAgrees
  <2>5. StartupTypeOK'
    BY <2>1, <2>2, <2>4 DEF StartupTypeOK
  <2>6. CounterCounts' /\ InOrder'
    BY <2>1 DEF CounterCounts, NotReady, InOrder
  <2>7. PidFileAgrees'
    BY <2>1, <2>2, <2>3 DEF PidFileAgrees, Running
  <2> QED
    BY <2>5, <2>6, <2>7
<1>5. CASE StopServer
  <2>1. /\ UNCHANGED <<pidFile, server, waiting, child, dead>>
        /\ script.at = "stop"
        /\ StartupTypeOK'
    BY <1>5 DEF StopServer, Goto, StartupTypeOK
  <2>2. \/ script'.at = "idle" /\ UNCHANGED killed
        \/ script'.at = "rm" /\ killed' = killed \cup {pidFile}
    BY <1>5 DEF StopServer, Goto, StartupTypeOK
  <2>3. CounterCounts' /\ InOrder'
    BY <2>1 DEF CounterCounts, NotReady, InOrder
  <2>4. PidFileAgrees'
    BY <2>1, <2>2 DEF PidFileAgrees, Running
  <2> QED
    BY <2>1, <2>3, <2>4
<1>6. CASE RemovePid
  <2>1. /\ UNCHANGED <<server, killed, waiting, child, dead>>
        /\ script.at = "rm" /\ script'.at \in {"start", "idle"}
        /\ StartupTypeOK'
    BY <1>6 DEF RemovePid, Goto, StartupTypeOK
  <2>2. CounterCounts' /\ InOrder'
    BY <2>1 DEF CounterCounts, NotReady, InOrder
  <2>3. PidFileAgrees'
    BY <2>1 DEF PidFileAgrees, Running
  <2> QED
    BY <2>1, <2>2, <2>3
<1> QED
  BY <1>1, <1>2, <1>3, <1>4, <1>5, <1>6 DEF Script

-----------------------------------------------------------------------------
(* The servers.                                                            *)

\* What the script knows outlives every step of a server: a server that runs
\* or has been launched did so before.
LEMMA NamesKept ==
  ASSUME StartupInv,
         UNCHANGED <<script, pidFile, killed>>,
         \A m \in Pid : /\ server'[m] = "none" <=> server[m] = "none"
                        /\ Running(m)' => Running(m)
  PROVE  (InOrder /\ PidFileAgrees)'
<1>1. InOrder'
  BY DEF StartupInv, InOrder
<1>2. \A m \in Pid : Newest(m) => Newest(m)'
  BY DEF Newest
<1>3. PidFileAgrees'
  BY <1>2 DEF StartupInv, PidFileAgrees
<1> QED
  BY <1>1, <1>3

\* The key directory is read: all processes are forked in one turn.
LEMMA PopulateStep ==
  ASSUME StartupInv, NEW n \in Pid, PopulateChildren(n)
  PROVE  StartupInv'
<1> USE DEF StartupInv
<1>1. /\ UNCHANGED <<script, pidFile, killed, dead>>
      /\ server[n] = "readdir"
      /\ server'[n] \in {"waiting", "ended"}
      /\ server' \in [Pid -> {"none", "readdir", "waiting", "listening",
                              "ended"}]
      /\ \A m \in Pid \ {n} : server'[m] = server[m]
  BY DEF PopulateChildren, StartupTypeOK
<1>2. (InOrder /\ PidFileAgrees)'
  BY <1>1, NamesKept DEF Running
<1>3. CASE server'[n] = "ended"
  <2>1. UNCHANGED <<waiting, child>>
    BY <1>3, <1>1 DEF PopulateChildren, StartupTypeOK
  <2>2. CounterCounts'
    BY <1>1, <1>3, <2>1 DEF CounterCounts, NotReady
  <2>3. StartupTypeOK'
    BY <1>1, <2>1 DEF StartupTypeOK
  <2> QED
    BY <1>2, <2>2, <2>3
<1>4. CASE server'[n] = "waiting"
  <2>1. /\ waiting' = [waiting EXCEPT ![n] = InitialCount]
        /\ child' = [child EXCEPT ![n] = [u \in Pem |-> "forked"]]
    BY <1>4, <1>1 DEF PopulateChildren, StartupTypeOK
  <2>2. InitialCount = Cardinality(Pem) /\ InitialCount \in 0..Cardinality(File)
    BY InitialCountIsKeys, KeysBounded
  <2>3. /\ \A u \in Pem : child'[n][u] = "forked"
        /\ \A m \in Pid \ {n} : child'[m] = child[m]
        /\ child' \in [Pid -> [Pem -> Phase]]
    BY <2>1 DEF StartupTypeOK, Phase
  <2>4. NotReady(n)' = Pem
    BY <2>3 DEF NotReady
  <2>5. \A m \in Pid \ {n} : NotReady(m)' = NotReady(m)
    BY <2>3 DEF NotReady
  <2>6. /\ waiting'[n] = InitialCount
        /\ \A m \in Pid \ {n} : waiting'[m] = waiting[m]
        /\ waiting' \in [Pid -> 0..Cardinality(File)]
    BY <2>1, <2>2 DEF StartupTypeOK
  <2>7. CounterCounts'
    BY <1>1, <1>4, <2>2, <2>3, <2>4, <2>5, <2>6 DEF CounterCounts
  <2>8. StartupTypeOK'
    BY <1>1, <2>3, <2>6 DEF StartupTypeOK
  <2> QED
    BY <1>2, <2>7, <2>8
<1> QED
  BY <1>1, <1>3, <1>4

\* The steps of the hand-shake that are not counted.
LEMMA HandshakeStep ==
  ASSUME StartupInv, NEW n \in Pid, NEW u \in Pem,
         ChildStep(n, u) \/ ReadyForConfig(n, u)
  PROVE  StartupInv'
<1> USE DEF StartupInv
<1>1. UNCHANGED <<script, pidFile, server, killed, waiting, dead>>
  BY DEF ChildStep, ReadyForConfig
<1>2. PICK p \in Phase \ {"none", "ready"} :
        /\ child[n][u] \in Phase \ {"none", "ready"}
        /\ child' = [child EXCEPT ![n][u] = p]
  BY DEF ChildStep, ReadyForConfig, Phase
<1>3. child' \in [Pid -> [Pem -> Phase]]
  BY <1>2 DEF StartupTypeOK
<1>4. \A m \in Pid : NotReady(m)' = NotReady(m)
  BY <1>2 DEF NotReady, StartupTypeOK
<1>5. \A m \in Pid, v \in Pem : child'[m][v] = "none" <=> child[m][v] = "none"
  BY <1>2 DEF StartupTypeOK
<1>6. CounterCounts'
  BY <1>1, <1>4, <1>5 DEF CounterCounts
<1>7. (InOrder /\ PidFileAgrees)'
  BY <1>1, NamesKept DEF Running
<1> QED
  BY <1>1, <1>3, <1>6, <1>7 DEF StartupTypeOK

\* A process is ready: it is counted, and the last one opens the server.
LEMMA ReadyStep ==
  ASSUME StartupInv, NEW n \in Pid, NEW u \in Pem, HandlerReady(n, u)
  PROVE  StartupInv'
<1> USE DEF StartupInv
<1>1. /\ UNCHANGED <<script, pidFile, killed, dead>>
      /\ Running(n) /\ child[n][u] = "handlerReady"
      /\ child' = [child EXCEPT ![n][u] = "ready"]
      /\ waiting' = [waiting EXCEPT ![n] = @ - 1]
  BY DEF HandlerReady
<1>2. /\ server' \in [Pid -> {"none", "readdir", "waiting", "listening",
                              "ended"}]
      /\ \A m \in Pid \ {n} : server'[m] = server[m]
      /\ waiting[n] = 1 => server'[n] \in {"listening", "ended"}
      /\ waiting[n] # 1 => server'[n] = server[n]
  BY DEF HandlerReady, AllReady, StartupTypeOK
<1>3. u \in NotReady(n) /\ server[n] \in {"waiting", "listening"}
  BY <1>1 DEF NotReady, CounterCounts, Running
<1>4. /\ NotReady(n)' = NotReady(n) \ {u}
      /\ \A m \in Pid \ {n} : NotReady(m)' = NotReady(m)
      /\ \A m \in Pid \ {n} : child'[m] = child[m]
      /\ child' \in [Pid -> [Pem -> Phase]]
  BY <1>1 DEF NotReady, StartupTypeOK, Phase
<1>5. /\ waiting[n] = Cardinality(NotReady(n))
      /\ waiting[n] \in Nat \ {0}
      /\ Cardinality(NotReady(n) \ {u}) = waiting[n] - 1
  <2>1. IsFiniteSet(NotReady(n)) /\ NotReady(n) # {}
    BY <1>3, KeysBounded DEF NotReady
  <2>2. waiting[n] = Cardinality(NotReady(n))
    BY <1>3 DEF CounterCounts
  <2> QED
    BY <1>3, <2>1, <2>2, FS_CardinalityType, FS_EmptySet, FS_RemoveElement
<1>6. server[n] = "waiting"
  BY <1>3, <1>5 DEF CounterCounts
<1>7. /\ waiting'[n] = waiting[n] - 1
      /\ \A m \in Pid \ {n} : waiting'[m] = waiting[m]
      /\ waiting' \in [Pid -> 0..Cardinality(File)]
  BY <1>1, <1>5, StartupAssumption, FS_CardinalityType DEF StartupTypeOK
<1>8. CounterCounts'
  <2>1. ASSUME NEW m \in Pid \ {n}
        PROVE  /\ server'[m] \in {"none", "readdir"} =>
                    \A v \in Pem : child'[m][v] = "none"
               /\ server'[m] \in {"waiting", "listening"} =>
                    waiting'[m] = Cardinality(NotReady(m)')
               /\ server'[m] = "listening" => waiting'[m] = 0
    BY <1>2, <1>4, <1>7 DEF CounterCounts
  <2>2. /\ server'[n] \notin {"none", "readdir"}
        /\ waiting'[n] = Cardinality(NotReady(n)')
        /\ server'[n] = "listening" => waiting'[n] = 0
    BY <1>2, <1>4, <1>5, <1>6, <1>7
  <2> QED
    BY <2>1, <2>2 DEF CounterCounts
<1>9. (InOrder /\ PidFileAgrees)'
  BY <1>1, <1>2, <1>6, NamesKept DEF Running
<1>10. StartupTypeOK'
  BY <1>1, <1>2, <1>4, <1>7 DEF StartupTypeOK
<1> QED
  BY <1>8, <1>9, <1>10

\* A process or a server ends.
LEMMA EndStep ==
  ASSUME StartupInv, NEW n \in Pid,
         Ends(n) \/ \E u \in Pem : ChildDies(n, u)
  PROVE  StartupInv'
<1> USE DEF StartupInv
<1>1. /\ UNCHANGED <<script, pidFile, killed, waiting, child>>
      /\ dead' \subseteq Pid \X Pem
      /\ server' \in [Pid -> {"none", "readdir", "waiting", "listening",
                              "ended"}]
      /\ \A m \in Pid : \/ server'[m] = server[m]
                        \/ Running(m) /\ server'[m] = "ended"
  BY DEF Ends, ChildDies, StartupTypeOK
<1>2. CounterCounts'
  BY <1>1 DEF CounterCounts, NotReady
<1>3. (InOrder /\ PidFileAgrees)'
  BY <1>1, NamesKept DEF Running
<1> QED
  BY <1>1, <1>2, <1>3 DEF StartupTypeOK

\* Every step keeps the invariant.
LEMMA NextStartup == StartupInv /\ [Next]_vars => StartupInv'
<1> SUFFICES ASSUME StartupInv, [Next]_vars PROVE StartupInv'
  OBVIOUS
<1>1. CASE UNCHANGED vars
  BY <1>1 DEF vars, StartupInv, StartupTypeOK, CounterCounts, NotReady, InOrder,
              PidFileAgrees, Newest, Running
<1>2. CASE Script
  BY <1>2, ScriptStep
<1>3. ASSUME NEW n \in Pid,
             \/ ServerStep(n) \/ Ends(n)
             \/ \E u \in Pem : ChildStep(n, u) \/ ChildDies(n, u)
      PROVE  StartupInv'
  BY <1>3, PopulateStep, HandshakeStep, ReadyStep, EndStep DEF ServerStep
<1> QED
  BY <1>1, <1>2, <1>3 DEF Next

-----------------------------------------------------------------------------

\* Type correctness; the counter stays between 0 and the number of files.
THEOREM StartupTypeCorrect == Spec => []StartupTypeOK
<1>1. StartupInv => StartupTypeOK
  BY DEF StartupInv
<1> QED
  BY <1>1, InitStartup, NextStartup, PTL DEF Spec

\* A server that takes requests has configured the process of every user, for
\* any number of keys and stray files, in whatever order the messages come and
\* whoever dies (audit-server.js:120-123,139-146).
THEOREM OnlyReadyServe == Spec => []ServesOnlyReady
<1>1. StartupInv => ServesOnlyReady
  <2> SUFFICES ASSUME StartupInv, NEW n \in Pid, server[n] = "listening",
                      NEW u \in Pem
               PROVE  child[n][u] = "ready"
    BY DEF ServesOnlyReady
  <2>1. Cardinality(NotReady(n)) = 0
    BY DEF StartupInv, CounterCounts
  <2>2. NotReady(n) = {}
    BY <2>1, KeysBounded, FS_EmptySet DEF NotReady
  <2> QED
    BY <2>2 DEF NotReady
<1> QED
  BY <1>1, InitStartup, NextStartup, PTL DEF Spec

\* A server that runs and was not told to end is the one the pid file names, for
\* any sequence of calls of the script (auditserver.sh:3-43).
THEOREM RunningHasPidFile == Spec => []RunningIsNamed
<1>1. StartupInv => RunningIsNamed
  BY DEF StartupInv, PidFileAgrees, RunningIsNamed
<1> QED
  BY <1>1, InitStartup, NextStartup, PTL DEF Spec
=============================================================================

------------------------ MODULE HandlerProcessProofs ------------------------
(***************************************************************************)
(* Proofs about HandlerProcess, for any requests, any number of processes  *)
(* and any amount of output.  The lemmas are about single steps, so that   *)
(* they serve the handler process on its own as well as the audit server   *)
(* that drives it.                                                         *)
(***************************************************************************)
EXTENDS HandlerProcess, TLAPS

-----------------------------------------------------------------------------
(* Type correctness.                                                       *)

\* What process.send leaves behind is well typed.
LEMMA SendType ==
  ASSUME HandlerTypeOK, NEW c \in Child, NEW m \in Message, Send(c, m)
  PROVE  /\ channel' \in [Child -> Seq(Message)]
         /\ child' \in [Child -> {"none", "up", "dying", "dead"}]
<1>1. Append(channel[c], m) \in Seq(Message)
  BY DEF HandlerTypeOK
<1>2. CASE c \in connected
  BY <1>1, <1>2 DEF HandlerTypeOK, Send
<1>3. CASE c \notin connected
  BY <1>3 DEF HandlerTypeOK, Send, Throw
<1> QED BY <1>2, <1>3

\* Every callback of a handler process keeps the types.
LEMMA ChildNextType ==
  ASSUME HandlerTypeOK, ChildNext
  PROVE  HandlerTypeOK'
<1> USE DEF HandlerTypeOK, Phase, At, Goto, Throw
<1>1. ASSUME NEW t \in Token, HandleRequest(t) PROVE HandlerTypeOK'
  BY <1>1 DEF HandleRequest
<1>2. ASSUME NEW t \in Token, CheckoutReady(t) PROVE HandlerTypeOK'
  BY <1>2 DEF CheckoutReady
<1>3. ASSUME NEW t \in Token, SwitchReady(t) PROVE HandlerTypeOK'
  BY <1>3 DEF SwitchReady
<1>4. ASSUME NEW t \in Token, HconfDirReady(t) PROVE HandlerTypeOK'
  BY <1>4 DEF HconfDirReady
<1>5. ASSUME NEW t \in Token, HconfReady(t) PROVE HandlerTypeOK'
  BY <1>5 DEF HconfReady
<1>6. ASSUME NEW t \in Token, RunLoadedRecipe(t) PROVE HandlerTypeOK'
  BY <1>6 DEF RunLoadedRecipe
<1>7. ASSUME NEW t \in Token, RecipeOutput(t) PROVE HandlerTypeOK'
  <2>1. home[t] \in Child /\ produced[t] + 1 \in 1..MaxChunks
    BY <1>7, HandlerAssumption DEF RecipeOutput, Readable
  <2>2. Output(t, produced[t] + 1) \in Message
    BY <2>1 DEF Output, Message
  <2> QED BY <1>7, <2>1, <2>2, SendType, HandlerAssumption DEF RecipeOutput
<1>8. ASSUME NEW t \in Token, RecipeExit(t) PROVE HandlerTypeOK'
  BY <1>8 DEF RecipeExit
<1>9. ASSUME NEW t \in Token, CleanupReady(t) PROVE HandlerTypeOK'
  <2>1. home[t] \in Child
    BY <1>9 DEF CleanupReady
  <2>2. End(t, run[t] = "cleanupErr") \in Message
    BY DEF End, Message
  <2> QED BY <1>9, <2>1, <2>2, SendType DEF CleanupReady, Remove
<1>10. ASSUME NEW c \in Child, ChildExit(c) PROVE HandlerTypeOK'
  BY <1>10 DEF ChildExit
<1> QED
  BY <1>1, <1>2, <1>3, <1>4, <1>5, <1>6, <1>7, <1>8, <1>9, <1>10
     DEF ChildNext, Step

\* Taking a message off a channel, and losing the parent, keep the types.
LEMMA ReceiveType ==
  ASSUME HandlerTypeOK, NEW c \in Child, Receive(c)
  PROVE  channel' \in [Child -> Seq(Message)]
  BY DEF HandlerTypeOK, Receive

LEMMA DisconnectType ==
  ASSUME HandlerTypeOK, NEW cs, Disconnect(cs)
  PROVE  /\ channel' \in [Child -> Seq(Message)]
         /\ connected' \in SUBSET Child
  BY DEF HandlerTypeOK, Disconnect

\* A handler process and its channel keep their types, whatever the parent
\* does: the type invariant that the run of HandlerProcess checks.
THEOREM HandlerTypeCorrect == HandlerSpec => []HandlerTypeOK
<1>1. HandlerInit => HandlerTypeOK
  BY HandlerAssumption DEF HandlerInit, Idle, HandlerTypeOK, Phase
<1>2. HandlerTypeOK /\ [HandlerNext]_handlerVars => HandlerTypeOK'
  <2> SUFFICES ASSUME HandlerTypeOK, [HandlerNext]_handlerVars
               PROVE  HandlerTypeOK'
    OBVIOUS
  <2>1. CASE ChildNext
    BY <2>1, ChildNextType
  <2>2. CASE ParentSends
    BY <2>2 DEF ParentSends, SendRequest, HandlerTypeOK, Phase
  <2>3. CASE ParentReads
    BY <2>3, ReceiveType DEF ParentReads, HandlerTypeOK
  <2>4. CASE ParentDies
    BY <2>4, DisconnectType DEF ParentDies, HandlerTypeOK
  <2>5. CASE UNCHANGED handlerVars
    BY <2>5 DEF handlerVars, HandlerTypeOK
  <2> QED BY <2>1, <2>2, <2>3, <2>4, <2>5 DEF HandlerNext
<1> QED BY <1>1, <1>2, PTL DEF HandlerSpec

-----------------------------------------------------------------------------
(* The sandbox of a run.                                                   *)

\* A callback of one request leaves the sandboxes of the others alone, and its
\* own sandbox is there while it needs it.
LEMMA ChildNextSandbox ==
  ASSUME HandlerTypeOK, SandboxCoversRun, ChildNext
  PROVE  SandboxCoversRun'
<1> USE DEF HandlerTypeOK, Phase, At, Goto, SandboxCoversRun
<1>1. ASSUME NEW t \in Token, HandleRequest(t) PROVE SandboxCoversRun'
  BY <1>1 DEF HandleRequest
<1>2. ASSUME NEW t \in Token, CheckoutReady(t) PROVE SandboxCoversRun'
  BY <1>2 DEF CheckoutReady
<1>3. ASSUME NEW t \in Token, SwitchReady(t) PROVE SandboxCoversRun'
  BY <1>3 DEF SwitchReady
<1>4. ASSUME NEW t \in Token, HconfDirReady(t) PROVE SandboxCoversRun'
  BY <1>4 DEF HconfDirReady
<1>5. ASSUME NEW t \in Token, HconfReady(t) PROVE SandboxCoversRun'
  BY <1>5 DEF HconfReady
<1>6. ASSUME NEW t \in Token, RunLoadedRecipe(t) PROVE SandboxCoversRun'
  BY <1>6 DEF RunLoadedRecipe
<1>7. ASSUME NEW t \in Token, RecipeOutput(t) PROVE SandboxCoversRun'
  BY <1>7 DEF RecipeOutput
<1>8. ASSUME NEW t \in Token, RecipeExit(t) PROVE SandboxCoversRun'
  BY <1>8 DEF RecipeExit
<1>9. ASSUME NEW t \in Token, CleanupReady(t) PROVE SandboxCoversRun'
  BY <1>9 DEF CleanupReady, Remove
<1>10. ASSUME NEW c \in Child, ChildExit(c) PROVE SandboxCoversRun'
  BY <1>10 DEF ChildExit
<1> QED
  BY <1>1, <1>2, <1>3, <1>4, <1>5, <1>6, <1>7, <1>8, <1>9, <1>10
     DEF ChildNext, Step

\* The recipe and every link of the chain before it find the sandbox of their
\* request in place, however many requests a process runs at once.
THEOREM SandboxSafe == HandlerSpec => []SandboxCoversRun
<1>1. HandlerInit => SandboxCoversRun
  BY DEF HandlerInit, Idle, SandboxCoversRun
<1>2. HandlerTypeOK /\ SandboxCoversRun /\ [HandlerNext]_handlerVars
        => SandboxCoversRun'
  <2> SUFFICES ASSUME HandlerTypeOK, SandboxCoversRun,
                      [HandlerNext]_handlerVars
               PROVE  SandboxCoversRun'
    OBVIOUS
  <2>1. CASE ChildNext
    BY <2>1, ChildNextSandbox
  <2>2. CASE ParentSends
    BY <2>2 DEF ParentSends, SendRequest, SandboxCoversRun, HandlerTypeOK
  <2>3. CASE ParentReads \/ ParentDies \/ UNCHANGED handlerVars
    BY <2>3 DEF ParentReads, ParentDies, handlerVars, SandboxCoversRun
  <2> QED BY <2>1, <2>2, <2>3 DEF HandlerNext
<1> QED BY <1>1, <1>2, HandlerTypeCorrect, PTL DEF HandlerSpec

-----------------------------------------------------------------------------
(* What one callback does to the channels.                                 *)

\* A step that sends nothing and ends no chain.
Quiet ==
  /\ UNCHANGED <<home, connected, channel, produced>>
  /\ \A s \in Token : /\ run'[s] = "ended" <=> run[s] = "ended"
                      /\ run'[s] = "none" <=> run[s] = "none"
                      /\ run[s] = "ended" => dir'[s] = dir[s]

\* A callback sends a chunk, ends its chain or is quiet.
LEMMA ChildNextCases ==
  ASSUME HandlerTypeOK, ChildNext
  PROVE  Quiet \/ \E t \in Token : RecipeOutput(t) \/ CleanupReady(t)
<1>1. ASSUME NEW t \in Token,
             \/ HandleRequest(t) \/ CheckoutReady(t) \/ SwitchReady(t)
             \/ HconfDirReady(t) \/ HconfReady(t) \/ RunLoadedRecipe(t)
             \/ RecipeExit(t)
      PROVE  Quiet
  BY <1>1 DEF HandleRequest, CheckoutReady, SwitchReady, HconfDirReady,
              HconfReady, RunLoadedRecipe, RecipeExit, At, Goto, Quiet,
              HandlerTypeOK
<1>2. ASSUME NEW c \in Child, ChildExit(c)
      PROVE  Quiet
  BY <1>2 DEF ChildExit, Working, HandlerTypeOK, Quiet
<1> QED BY <1>1, <1>2 DEF ChildNext, Step

\* Sending about t appends to one channel, behind all messages about t, and
\* leaves the messages about all other requests where they are.
LEMMA SendAppends ==
  ASSUME HandlerTypeOK, NEW t \in Token, NEW m \in Message, m.token = t,
         NEW h \in Child, Send(h, m)
  PROVE  /\ \A c \in Child, s \in Token : s # t =>
              /\ About(c, s)' = About(c, s)
              /\ \A i \in About(c, s) : channel'[c][i] = channel[c][i]
         /\ \A c \in Child : \A i \in About(c, t) :
              i \in About(c, t)' /\ channel'[c][i] = channel[c][i]
         /\ \A c \in Child : \A i \in About(c, t)' :
              \/ i \in About(c, t) /\ channel'[c][i] = channel[c][i]
              \/ /\ c = h /\ h \in connected /\ channel'[c][i] = m
                 /\ \A j \in About(c, t)' : j <= i
                 /\ \A j \in About(c, t) : j < i
         /\ h \in connected =>
              \E i \in About(h, t)' : i \notin About(h, t) /\ channel'[h][i] = m
<1>1. CASE h \in connected
  <2>1. channel' = [channel EXCEPT ![h] = Append(@, m)]
    BY <1>1 DEF Send
  <2>2. channel[h] \in Seq(Message)
    BY DEF HandlerTypeOK
  <2>3. /\ DOMAIN channel'[h] = 1..(Len(channel[h]) + 1)
        /\ channel'[h][Len(channel[h]) + 1] = m
        /\ \A i \in DOMAIN channel[h] : channel'[h][i] = channel[h][i]
        /\ DOMAIN channel[h] = 1..Len(channel[h])
        /\ Len(channel[h]) \in Nat
    BY <2>1, <2>2 DEF HandlerTypeOK
  <2>4. ASSUME NEW c \in Child, c # h
        PROVE  channel'[c] = channel[c]
    BY <2>1, <2>4 DEF HandlerTypeOK
  <2>5. ASSUME NEW c \in Child, NEW s \in Token, s # t
        PROVE  /\ About(c, s)' = About(c, s)
               /\ \A i \in About(c, s) : channel'[c][i] = channel[c][i]
    <3>1. CASE c = h
      BY <2>3, <2>5, <3>1 DEF About
    <3>2. CASE c # h
      BY <2>4, <3>2 DEF About
    <3> QED BY <3>1, <3>2
  <2>6. ASSUME NEW c \in Child, NEW i \in About(c, t)
        PROVE  i \in About(c, t)' /\ channel'[c][i] = channel[c][i]
    <3>1. CASE c = h
      BY <2>3, <3>1 DEF About
    <3>2. CASE c # h
      BY <2>4, <3>2 DEF About
    <3> QED BY <3>1, <3>2
  <2>7. ASSUME NEW c \in Child, NEW i \in About(c, t)'
        PROVE  \/ i \in About(c, t) /\ channel'[c][i] = channel[c][i]
               \/ /\ c = h /\ h \in connected /\ channel'[c][i] = m
                  /\ \A j \in About(c, t)' : j <= i
                  /\ \A j \in About(c, t) : j < i
    <3>1. CASE c = h /\ i = Len(channel[h]) + 1
      BY <1>1, <2>3, <3>1 DEF About
    <3>2. CASE c = h /\ i # Len(channel[h]) + 1
      BY <2>3, <3>2 DEF About
    <3>3. CASE c # h
      BY <2>4, <3>3 DEF About
    <3> QED BY <3>1, <3>2, <3>3
  <2>8. /\ Len(channel[h]) + 1 \in About(h, t)'
        /\ Len(channel[h]) + 1 \notin About(h, t)
    BY <2>3 DEF About
  <2> QED BY <2>3, <2>5, <2>6, <2>7, <2>8
<1>2. CASE h \notin connected
  BY <1>2 DEF Send, About
<1> QED BY <1>1, <1>2

\* The two messages a callback may send.
LEMMA OutputSends ==
  ASSUME HandlerTypeOK, NEW t \in Token, RecipeOutput(t)
  PROVE  LET m == Output(t, produced[t] + 1)
         IN /\ m \in Message /\ m.token = t /\ m.type = "OUTPUT"
            /\ m.n = produced[t] + 1
            /\ home[t] \in Child /\ Send(home[t], m)
            /\ produced' = [produced EXCEPT ![t] = @ + 1]
            /\ UNCHANGED <<home, run, dir, connected>>
            /\ ExitWaitsForStdio => run[t] = "recipe"
            /\ run[t] # "none"
<1>1. produced[t] + 1 \in 1..MaxChunks
  BY HandlerAssumption DEF RecipeOutput, HandlerTypeOK
<1>2. /\ Send(home[t], Output(t, produced[t] + 1))
      /\ produced' = [produced EXCEPT ![t] = @ + 1]
      /\ UNCHANGED <<home, run, dir, connected>>
      /\ Readable(t)
  BY DEF RecipeOutput
<1>3. /\ home[t] \in Child
      /\ ExitWaitsForStdio => run[t] = "recipe"
      /\ run[t] # "none"
  BY <1>2 DEF Readable, At
<1> QED BY <1>1, <1>2, <1>3 DEF Output, Message

LEMMA CleanupSends ==
  ASSUME HandlerTypeOK, NEW t \in Token, CleanupReady(t)
  PROVE  LET m == End(t, run[t] = "cleanupErr")
         IN /\ m \in Message /\ m.token = t /\ m.type = "REQUEST_END"
            /\ home[t] \in Child /\ Send(home[t], m)
            /\ run[t] \in {"cleanup", "cleanupErr"}
            /\ run'[t] = "ended" /\ dir'[t] \in {"removed", "stuck"}
            /\ \A s \in Token : s # t => run'[s] = run[s] /\ dir'[s] = dir[s]
            /\ UNCHANGED <<home, connected, produced>>
<1> DEFINE m == End(t, run[t] = "cleanupErr")
<1>1. m \in Message /\ m.token = t /\ m.type = "REQUEST_END"
  BY DEF End, Message
<1>2. /\ home[t] \in Child /\ Send(home[t], m)
      /\ run[t] \in {"cleanup", "cleanupErr"}
      /\ UNCHANGED <<home, connected, produced>>
  BY DEF CleanupReady, At
<1> HIDE DEF m
<1>3. /\ run'[t] = "ended" /\ dir'[t] \in {"removed", "stuck"}
      /\ \A s \in Token : s # t => run'[s] = run[s] /\ dir'[s] = dir[s]
  BY DEF CleanupReady, Goto, Remove, HandlerTypeOK
<1> QED BY <1>1, <1>2, <1>3 DEF m

-----------------------------------------------------------------------------
(* The messages about a request.                                           *)

\* A request that was not sent has no process, hence nobody speaks about it.
UnsentIsIdle ==
  \A t \in Token : run[t] = "none" => home[t] = NoChild /\ produced[t] = 0

\* What is known of a request from its REQUEST_END, on every version of Node.
CleanupInv == HandlerTypeOK /\ UnsentIsIdle /\ EndAfterCleanup

\* Each message that is left tells the truth, if each was there before and the
\* step kept what it told, or tells the truth about the state it leads to.
LEMMA CleanupKept ==
  ASSUME EndAfterCleanup, home' = home,
         \A s \in Token :
           run[s] = "ended" => run'[s] = "ended" /\ dir'[s] = dir[s],
         \A c \in Child, s \in Token : \A i \in About(c, s)' :
           \/ \E j \in About(c, s) : channel'[c][i] = channel[c][j]
           \/ /\ home[s] = c
              /\ channel'[c][i].type = "REQUEST_END" =>
                   run'[s] = "ended" /\ dir'[s] \in {"removed", "stuck"}
  PROVE  EndAfterCleanup'
BY DEF EndAfterCleanup, IsEnd

\* The callbacks keep what a REQUEST_END says; this does not depend on when
\* the exit of a shell is reported.
LEMMA ChildNextCleanup ==
  ASSUME HandlerTypeOK, EndAfterCleanup, ChildNext
  PROVE  /\ EndAfterCleanup'
         /\ UNCHANGED <<home, connected>>
         /\ \A s \in Token :
              /\ run[s] = "ended" => run'[s] = "ended" /\ dir'[s] = dir[s]
              /\ run'[s] = "none" <=> run[s] = "none"
<1>1. CASE Quiet
  <2>1. EndAfterCleanup'
    BY <1>1, CleanupKept DEF Quiet, About
  <2> QED BY <1>1, <2>1 DEF Quiet
<1>2. ASSUME NEW t \in Token, RecipeOutput(t)
      PROVE  EndAfterCleanup' /\ UNCHANGED <<home, run, dir, connected>>
  <2> DEFINE m == Output(t, produced[t] + 1)
  <2>1. /\ m \in Message /\ m.token = t /\ m.type # "REQUEST_END"
        /\ home[t] \in Child /\ Send(home[t], m)
        /\ UNCHANGED <<home, run, dir, connected>>
    BY <1>2, OutputSends
  <2> HIDE DEF m
  <2>2. ASSUME NEW c \in Child, NEW s \in Token, NEW i \in About(c, s)'
        PROVE  \/ \E j \in About(c, s) : channel'[c][i] = channel[c][j]
               \/ home[s] = c /\ channel'[c][i].type # "REQUEST_END"
    BY <2>1, SendAppends
  <2> QED BY <2>1, <2>2, CleanupKept
<1>3. ASSUME NEW t \in Token, CleanupReady(t)
      PROVE  /\ EndAfterCleanup'
             /\ UNCHANGED <<home, connected>>
             /\ run[t] \notin {"ended", "none"} /\ run'[t] = "ended"
             /\ \A s \in Token : s # t => run'[s] = run[s] /\ dir'[s] = dir[s]
  <2> DEFINE m == End(t, run[t] = "cleanupErr")
  <2>1. /\ m \in Message /\ m.token = t
        /\ home[t] \in Child /\ Send(home[t], m)
        /\ run[t] \in {"cleanup", "cleanupErr"}
        /\ run'[t] = "ended" /\ dir'[t] \in {"removed", "stuck"}
        /\ \A s \in Token : s # t => run'[s] = run[s] /\ dir'[s] = dir[s]
        /\ UNCHANGED <<home, connected>>
    BY <1>3, CleanupSends
  <2> HIDE DEF m
  <2>2. ASSUME NEW c \in Child, NEW s \in Token, NEW i \in About(c, s)'
        PROVE  \/ \E j \in About(c, s) : channel'[c][i] = channel[c][j]
               \/ /\ home[s] = c
                  /\ run'[s] = "ended" /\ dir'[s] \in {"removed", "stuck"}
    BY <2>1, SendAppends
  <2>3. EndAfterCleanup'
    BY <2>1, <2>2, CleanupKept
  <2> QED BY <2>1, <2>3
<1> QED BY <1>1, <1>2, <1>3, ChildNextCases

\* Where 'exit' waits for the pipes, a chain that is over is silent, and one
\* that gets over has said so, if there is somebody to tell.
LEMMA ChildNextEnds ==
  ASSUME ExitWaitsForStdio, HandlerTypeOK, ChildNext, NEW s \in Token
  PROVE  /\ run[s] = "ended" =>
              /\ run'[s] = "ended"
              /\ \A c \in Child :
                   /\ About(c, s)' = About(c, s)
                   /\ \A i \in About(c, s) : channel'[c][i] = channel[c][i]
         /\ run[s] # "ended" /\ run'[s] = "ended" /\ home[s] \in connected =>
              \E i \in About(home[s], s)' :
                channel'[home[s]][i].type = "REQUEST_END"
<1>1. CASE Quiet
  BY <1>1 DEF Quiet, About
<1>2. ASSUME NEW t \in Token, RecipeOutput(t)
      PROVE  /\ UNCHANGED <<home, run, connected>>
             /\ run[s] = "ended" =>
                  \A c \in Child :
                    /\ About(c, s)' = About(c, s)
                    /\ \A i \in About(c, s) : channel'[c][i] = channel[c][i]
  <2> DEFINE m == Output(t, produced[t] + 1)
  <2>1. /\ m \in Message /\ m.token = t
        /\ home[t] \in Child /\ UNCHANGED <<home, run, connected>>
        /\ run[t] = "recipe" /\ Send(home[t], m)
    BY <1>2, OutputSends
  <2> HIDE DEF m
  <2> QED BY <2>1, SendAppends
<1>3. ASSUME NEW t \in Token, CleanupReady(t)
      PROVE  /\ UNCHANGED <<home, connected>>
             /\ run[s] = "ended" =>
                  /\ run'[s] = "ended"
                  /\ \A c \in Child :
                       /\ About(c, s)' = About(c, s)
                       /\ \A i \in About(c, s) : channel'[c][i] = channel[c][i]
             /\ run[s] # "ended" /\ run'[s] = "ended" /\ home[s] \in connected =>
                  \E i \in About(home[s], s)' :
                    channel'[home[s]][i].type = "REQUEST_END"
  <2> DEFINE m == End(t, run[t] = "cleanupErr")
  <2>1. /\ m \in Message /\ m.token = t /\ m.type = "REQUEST_END"
        /\ home[t] \in Child /\ UNCHANGED <<home, connected>>
        /\ run[t] \in {"cleanup", "cleanupErr"} /\ Send(home[t], m)
        /\ \A u \in Token : u # t => run'[u] = run[u]
    BY <1>3, CleanupSends
  <2> HIDE DEF m
  <2>2. CASE s = t
    BY <2>1, <2>2, SendAppends
  <2>3. CASE s # t
    BY <2>1, <2>3, SendAppends
  <2> QED BY <2>2, <2>3
<1> QED BY <1>1, <1>2, <1>3, ChildNextCases

\* A message sent by a chain that is not over comes after no REQUEST_END.
LEMMA SendKeepsEndLast ==
  ASSUME HandlerTypeOK, EndAfterCleanup, EndIsLast,
         NEW t \in Token, NEW m \in Message, m.token = t,
         home[t] \in Child, Send(home[t], m), run[t] # "ended"
  PROVE  EndIsLast'
<1> SUFFICES ASSUME NEW c \in Child, NEW s \in Token,
                    NEW i \in About(c, s)', NEW j \in About(c, s)',
                    IsEnd(c, i)'
             PROVE  j <= i
  BY DEF EndIsLast
<1>1. CASE s # t
  BY <1>1, SendAppends DEF EndIsLast, IsEnd
<1>2. CASE s = t
  <2>1. \A k \in About(c, t) : ~IsEnd(c, k)
    BY DEF EndAfterCleanup
  <2>2. i \notin About(c, t) \/ channel'[c][i] # channel[c][i]
    BY <2>1 DEF IsEnd
  <2> QED BY <1>2, <2>2, SendAppends
<1> QED BY <1>1, <1>2

LEMMA ChildNextEndLast ==
  ASSUME ExitWaitsForStdio, HandlerTypeOK, EndAfterCleanup, EndIsLast, ChildNext
  PROVE  EndIsLast'
<1>1. CASE Quiet
  BY <1>1 DEF Quiet, EndIsLast, About, IsEnd
<1>2. ASSUME NEW t \in Token, RecipeOutput(t) PROVE EndIsLast'
  <2>1. run[t] # "ended"
    BY <1>2, OutputSends
  <2> QED BY <1>2, <2>1, OutputSends, SendKeepsEndLast
<1>3. ASSUME NEW t \in Token, CleanupReady(t) PROVE EndIsLast'
  <2>1. run[t] # "ended"
    BY <1>3, CleanupSends
  <2> QED BY <1>3, <2>1, CleanupSends, SendKeepsEndLast
<1> QED BY <1>1, <1>2, <1>3, ChildNextCases

\* No callback touches the home of a request, or makes one unsent again.
LEMMA ChildNextHome ==
  ASSUME HandlerTypeOK, UnsentIsIdle, EndAfterCleanup, ChildNext
  PROVE  UnsentIsIdle'
<1>1. \A s \in Token : run[s] = "none" => produced'[s] = produced[s]
  <2>1. ASSUME NEW t \in Token, RecipeOutput(t), NEW s \in Token, run[s] = "none"
        PROVE  produced'[s] = produced[s]
    BY <2>1, OutputSends DEF HandlerTypeOK
  <2>2. ASSUME NEW t \in Token, CleanupReady(t) PROVE produced' = produced
    BY <2>2, CleanupSends
  <2> QED BY <2>1, <2>2, ChildNextCases DEF Quiet
<1> QED BY <1>1, ChildNextCleanup DEF UnsentIsIdle

-----------------------------------------------------------------------------
(* The parent's end: sending a new request, reading a message, going away. *)

LEMMA SendRequestCleanup ==
  ASSUME CleanupInv, NEW t \in Token, NEW c \in Child, run[t] = "none",
         SendRequest(t, c)
  PROVE  CleanupInv'
<1> USE DEF CleanupInv
<1>1. \A d \in Child : About(d, t) = {}
  BY HandlerAssumption DEF UnsentIsIdle, EndAfterCleanup
<1>2. channel' = channel /\ dir' = dir /\ produced' = produced
  BY DEF SendRequest
<1>3. \A s \in Token : s # t => run'[s] = run[s] /\ home'[s] = home[s]
  BY DEF SendRequest, HandlerTypeOK
<1>4. run'[t] = "sent"
  BY DEF SendRequest, HandlerTypeOK
<1>5. HandlerTypeOK'
  BY DEF SendRequest, HandlerTypeOK, Phase
<1>6. UnsentIsIdle'
  BY <1>2, <1>3, <1>4 DEF UnsentIsIdle
<1>7. EndAfterCleanup'
  BY <1>1, <1>2, <1>3 DEF EndAfterCleanup, About, IsEnd
<1> QED BY <1>5, <1>6, <1>7

\* Reading a message moves the others up by one.
LEMMA ReceiveShifts ==
  ASSUME HandlerTypeOK, NEW p \in Child, Receive(p)
  PROVE  /\ \A i \in DOMAIN channel'[p] :
              /\ i + 1 \in DOMAIN channel[p]
              /\ channel'[p][i] = channel[p][i + 1]
              /\ i \in Nat
         /\ \A i \in DOMAIN channel[p] : i > 1 => i - 1 \in DOMAIN channel'[p]
         /\ 1 \in DOMAIN channel[p]
         /\ channel[p][1] = Head(channel[p])
         /\ \A i \in DOMAIN channel[p] : i \in Nat \ {0}
         /\ \A c \in Child : c # p => channel'[c] = channel[c]
<1>1. channel' = [channel EXCEPT ![p] = Tail(@)] /\ channel[p] # <<>>
  BY DEF Receive
<1>2. channel[p] \in Seq(Message)
  BY DEF HandlerTypeOK
<1>3. /\ DOMAIN channel[p] = 1..Len(channel[p])
      /\ DOMAIN channel'[p] = 1..(Len(channel[p]) - 1)
      /\ \A i \in DOMAIN channel'[p] : channel'[p][i] = channel[p][i + 1]
      /\ Len(channel[p]) \in Nat \ {0}
  BY <1>1, <1>2 DEF HandlerTypeOK
<1>4. \A c \in Child : c # p => channel'[c] = channel[c]
  BY <1>1 DEF HandlerTypeOK
<1>5. channel[p][1] = Head(channel[p])
  BY <1>1, <1>2
<1> QED BY <1>3, <1>4, <1>5

LEMMA ReceiveCleanup ==
  ASSUME CleanupInv, NEW p \in Child, Receive(p),
         UNCHANGED <<home, run, dir, produced, recipeLog, child, connected>>
  PROVE  CleanupInv'
<1> USE DEF CleanupInv
<1>1. HandlerTypeOK' /\ UnsentIsIdle'
  BY ReceiveType DEF HandlerTypeOK, UnsentIsIdle
<1>2. ASSUME NEW c \in Child, NEW s \in Token, NEW i \in About(c, s)'
      PROVE  \E j \in About(c, s) : channel'[c][i] = channel[c][j]
  <2>1. CASE c = p
    <3>1. /\ i + 1 \in DOMAIN channel[p]
          /\ channel'[p][i] = channel[p][i + 1]
      BY <2>1, ReceiveShifts DEF About
    <3> QED BY <2>1, <3>1 DEF About
  <2>2. CASE c # p
    BY <2>2, ReceiveShifts DEF About
  <2> QED BY <2>1, <2>2
<1>3. EndAfterCleanup'
  BY <1>2, CleanupKept
<1> QED BY <1>1, <1>3

LEMMA ReceiveEndLast ==
  ASSUME HandlerTypeOK, EndIsLast, NEW p \in Child, Receive(p)
  PROVE  EndIsLast'
<1> SUFFICES ASSUME NEW c \in Child, NEW t \in Token,
                    NEW i \in DOMAIN channel'[c],
                    NEW j \in DOMAIN channel'[c],
                    channel'[c][i].token = t, channel'[c][j].token = t,
                    channel'[c][i].type = "REQUEST_END"
             PROVE  j <= i
  BY DEF EndIsLast, About, IsEnd
<1>1. CASE c = p
  <2>1. /\ i + 1 \in DOMAIN channel[p] /\ j + 1 \in DOMAIN channel[p]
        /\ channel[p][i + 1].token = t /\ channel[p][j + 1].token = t
        /\ channel[p][i + 1].type = "REQUEST_END"
        /\ i \in Nat /\ j \in Nat
    BY <1>1, ReceiveShifts
  <2>2. j + 1 <= i + 1
    BY <2>1 DEF EndIsLast, About, IsEnd
  <2> QED BY <2>1, <2>2
<1>2. CASE c # p
  BY <1>2, ReceiveShifts DEF EndIsLast, About, IsEnd
<1> QED BY <1>1, <1>2

LEMMA DisconnectCleanup ==
  ASSUME CleanupInv, NEW cs, Disconnect(cs),
         UNCHANGED <<home, run, dir, produced, recipeLog, child>>
  PROVE  CleanupInv' /\ (EndIsLast => EndIsLast')
<1> USE DEF CleanupInv
<1>1. HandlerTypeOK' /\ UnsentIsIdle'
  BY DisconnectType DEF HandlerTypeOK, UnsentIsIdle
<1>2. \A c \in Child : \A i \in DOMAIN channel'[c] :
        /\ i \in DOMAIN channel[c]
        /\ channel'[c] = channel[c]
  BY DEF Disconnect, HandlerTypeOK
<1>3. EndAfterCleanup' /\ (EndIsLast => EndIsLast')
  BY <1>2 DEF EndAfterCleanup, EndIsLast, About, IsEnd
<1> QED BY <1>1, <1>3

-----------------------------------------------------------------------------
(* What the parent may rely on.                                            *)

\* CleanupInv is inductive.
LEMMA CleanupInvInductive ==
  /\ HandlerInit => CleanupInv
  /\ CleanupInv /\ [HandlerNext]_handlerVars => CleanupInv'
<1>1. HandlerInit => CleanupInv
  BY HandlerAssumption
     DEF HandlerInit, Idle, CleanupInv, HandlerTypeOK, Phase, UnsentIsIdle,
         EndAfterCleanup, About
<1>2. ASSUME CleanupInv, [HandlerNext]_handlerVars PROVE CleanupInv'
  <2>1. CASE ChildNext
    BY <1>2, <2>1, ChildNextType, ChildNextCleanup, ChildNextHome DEF CleanupInv
  <2>2. CASE ParentSends
    BY <1>2, <2>2, SendRequestCleanup
       DEF ParentSends, CleanupInv, HandlerTypeOK
  <2>3. CASE ParentReads
    BY <1>2, <2>3, ReceiveCleanup DEF ParentReads
  <2>4. CASE ParentDies
    BY <1>2, <2>4, DisconnectCleanup DEF ParentDies
  <2>5. CASE UNCHANGED handlerVars
    BY <1>2, <2>5
       DEF handlerVars, CleanupInv, HandlerTypeOK, UnsentIsIdle,
           EndAfterCleanup, About, IsEnd
  <2> QED BY <1>2, <2>1, <2>2, <2>3, <2>4, <2>5 DEF HandlerNext
<1> QED BY <1>1, <1>2

\* With it, where 'exit' waits for the pipes, so is EndIsLast.
LEMMA EndIsLastInductive ==
  ASSUME ExitWaitsForStdio
  PROVE  /\ HandlerInit => EndIsLast
         /\ CleanupInv /\ EndIsLast /\ [HandlerNext]_handlerVars => EndIsLast'
<1>1. HandlerInit => EndIsLast
  BY DEF HandlerInit, Idle, EndIsLast, About
<1>2. ASSUME CleanupInv, EndIsLast, [HandlerNext]_handlerVars PROVE EndIsLast'
  <2>1. CASE ChildNext
    BY <1>2, <2>1, ChildNextEndLast DEF CleanupInv
  <2>2. CASE ParentReads
    BY <1>2, <2>2, ReceiveEndLast DEF ParentReads, CleanupInv
  <2>3. CASE ParentDies
    BY <1>2, <2>3, DisconnectCleanup DEF ParentDies
  <2>4. CASE channel' = channel
    BY <1>2, <2>4 DEF EndIsLast, About, IsEnd
  <2> QED
    BY <1>2, <2>1, <2>2, <2>3, <2>4
       DEF HandlerNext, ParentSends, SendRequest, handlerVars
<1> QED BY <1>1, <1>2

\* REQUEST_END is the last message about a request.
THEOREM EndIsLastHolds ==
  ASSUME ExitWaitsForStdio
  PROVE  HandlerSpec => []EndIsLast
BY CleanupInvInductive, EndIsLastInductive, PTL DEF HandlerSpec

\* A REQUEST_END that the parent reads means that the recipe's shell has
\* exited and the sandbox is removed, or beyond rimraf, on every version of
\* Node.
THEOREM EndAfterCleanupHolds == HandlerSpec => []EndAfterCleanup
<1>1. CleanupInv => EndAfterCleanup
  BY DEF CleanupInv
<1> QED BY <1>1, CleanupInvInductive, PTL DEF HandlerSpec
=============================================================================

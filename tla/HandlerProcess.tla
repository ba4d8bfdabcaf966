--------------------------- MODULE HandlerProcess ---------------------------
(***************************************************************************)
(* The handler process of one user: lib/handlerprocess/process.js with the *)
(* modules it drives, lib/sandbox, lib/hconf and lib/recipes.              *)
(*                                                                         *)
(* A child runs every request it is sent as a chain of callbacks on one    *)
(* event loop: svn checkout, svn switch, hconf directory, site files,      *)
(* recipe, removal of the sandbox, REQUEST_END.  The chains of different   *)
(* requests interleave, any link may fail, and an exception in one link    *)
(* ends the whole process.  One action below is one callback.              *)
(***************************************************************************)
EXTENDS Naturals, Sequences

CONSTANTS
  Token,             \* the tokens of the requests, one per request
  Child,             \* the handler processes that ever run
  HasRevision,       \* the requests whose svnRevision is not empty
  HasCore,           \* the requests whose hconf holds a core section
  MaxChunks,         \* bound: output chunks of one recipe
  ExitWaitsForStdio, \* 'exit' is emitted after the pipes closed (node 0.6)
  NoChild            \* home of a request that was not sent yet

ASSUME HandlerAssumption ==
  /\ HasRevision \subseteq Token
  /\ HasCore \subseteq Token
  /\ MaxChunks \in Nat
  /\ ExitWaitsForStdio \in BOOLEAN
  /\ NoChild \notin Child

VARIABLES
  home,       \* the process a request was sent to
  run,        \* the link of the callback chain a request has reached
  dir,        \* the sandbox directory <user>-<token> on disk
  produced,   \* chunks the recipe's shell has written so far
  recipeLog,  \* the requests whose recipe lines are in the audit log
  child,      \* whether a process lives, or is about to exit
  connected,  \* the processes whose IPC channel to the parent is open
  channel     \* per process, messages sent to the parent and not yet handled

handlerVars ==
  <<home, run, dir, produced, recipeLog, child, connected, channel>>

Phase == {"none", "sent", "checkout", "switch", "mkdir", "hconf", "template",
          "recipe", "cleanup", "cleanupErr", "ended", "thrown", "abandoned"}

\* Waiting for a callback: the phases in which the chain can still advance.
Working == {"sent", "checkout", "switch", "mkdir", "hconf", "template",
            "recipe", "cleanup", "cleanupErr"}

\* Slip: a chunk is counted before and after it is sent.
OutputTwice(t, n) == [type |-> "OUTPUT", token |-> t, n |-> n + 1]
Output(t, n) == [type |-> "OUTPUT", token |-> t, n |-> n]
End(t, err)  == [type |-> "REQUEST_END", token |-> t, err |-> err]

Message == [type : {"OUTPUT"}, token : Token, n : 1..MaxChunks]
             \cup [type : {"REQUEST_END"}, token : Token, err : BOOLEAN]

HandlerTypeOK ==
  /\ home \in [Token -> Child \cup {NoChild}]
  /\ run \in [Token -> Phase]
  /\ dir \in [Token -> {"none", "present", "stuck", "removed"}]
  /\ produced \in [Token -> 0..MaxChunks]
  /\ recipeLog \in SUBSET Token
  /\ child \in [Child -> {"none", "up", "dying", "dead"}]
  /\ connected \in SUBSET Child
  /\ channel \in [Child -> Seq(Message)]

\* No request yet.
Idle ==
  /\ home = [t \in Token |-> NoChild]
  /\ run = [t \in Token |-> "none"]
  /\ dir = [t \in Token |-> "none"]
  /\ produced = [t \in Token |-> 0]
  /\ recipeLog = {}
  /\ channel = [c \in Child |-> <<>>]

-----------------------------------------------------------------------------
(* Steps of a request inside its process.                                  *)

Alive(c) == child[c] \in {"up", "dying"}

\* The callback chain of t is at `phase`, and its process can run callbacks.
At(t, phase) == /\ run[t] = phase
                /\ home[t] \in Child
                /\ Alive(home[t])

Goto(t, phase) == run' = [run EXCEPT ![t] = phase]

\* An exception nobody catches: the logger reports it and exits the process,
\* at once or after its three second grace period; until then callbacks run.
Throw(c) == child' = [child EXCEPT ![c] = "dying"]

\* Slips in the transport: a message overtakes another, or is lost on a
\* channel that is busy.
SendUnordered(c, m) ==
  /\ channel' = [channel EXCEPT ![c] = <<m>> \o @]
  /\ UNCHANGED child
SendLossy(c, m) ==
  /\ channel' = [channel EXCEPT ![c] = IF @ = <<>> THEN <<m>> ELSE @]
  /\ UNCHANGED child

\* process.send throws when the channel to the parent is closed.
Send(c, m) ==
  \/ /\ c \in connected
     /\ channel' = [channel EXCEPT ![c] = Append(@, m)]
     /\ UNCHANGED child
  \/ /\ c \notin connected
     /\ Throw(c)
     /\ UNCHANGED channel

\* HANDLE_REQUEST: the error of mkdir is ignored, the checkout starts anyway.
HandleRequest(t) ==
  /\ At(t, "sent")
  /\ Goto(t, "checkout")
  /\ \E made \in {"present", "none"} : dir' = [dir EXCEPT ![t] = made]
  /\ UNCHANGED <<home, produced, recipeLog, child, connected, channel>>

\* An svn that cannot be spawned ends with an 'exit' other than 0, as it does in
\* the Node of the time; a later one gives 'error', which nothing listens to.
CheckoutReady(t) ==
  /\ At(t, "checkout")
  /\ \/ /\ dir[t] = "present"
        /\ Goto(t, IF t \in HasRevision THEN "switch" ELSE "mkdir")
     \/ Goto(t, "cleanupErr")
  /\ UNCHANGED <<home, dir, produced, recipeLog, child, connected, channel>>

\* Slip: svn switch fails and no callback is called.
SwitchReadySilent(t) ==
  /\ At(t, "switch")
  /\ \E next \in {"mkdir", "thrown"} : Goto(t, next)
  /\ UNCHANGED <<home, dir, produced, recipeLog, child, connected, channel>>

SwitchReady(t) ==
  /\ At(t, "switch")
  /\ \E next \in {"mkdir", "cleanupErr"} : Goto(t, next)
  /\ UNCHANGED <<home, dir, produced, recipeLog, child, connected, channel>>

\* The directory hconf/ was made (or not); the token is put into the core
\* section, and a request without that section throws.
HconfDirReady(t) ==
  /\ At(t, "mkdir")
  /\ \/ /\ t \in HasCore
        /\ Goto(t, "hconf")
        /\ UNCHANGED child
     \/ /\ t \notin HasCore
        /\ Goto(t, "thrown")
        /\ Throw(home[t])
     \/ /\ Goto(t, "cleanupErr")
        /\ UNCHANGED child
  /\ UNCHANGED <<home, dir, produced, recipeLog, connected, channel>>

\* All site files are written, or the first of them failed.
HconfReady(t) ==
  /\ At(t, "hconf")
  /\ \E next \in {"template", "cleanupErr"} : Goto(t, next)
  /\ UNCHANGED <<home, dir, produced, recipeLog, child, connected, channel>>

\* The template was read: the shell is spawned, the template evaluated with
\* the request's variables (one that it misses throws), its lines audited and
\* written to the shell.  What a shell that was given no line writes before its
\* process exits is left out.
RunLoadedRecipe(t) ==
  /\ At(t, "template")
  /\ \/ /\ Goto(t, "recipe")
        /\ recipeLog' = recipeLog \cup {t}
        /\ UNCHANGED child
     \/ /\ Goto(t, "thrown")
        /\ Throw(home[t])
        /\ UNCHANGED recipeLog
     \/ /\ Goto(t, "cleanupErr")
        /\ UNCHANGED <<recipeLog, child>>
  /\ UNCHANGED <<home, dir, produced, connected, channel>>

\* Slip: the pipes are read until the process exits.
ReadableAfterEnd(t) ==
  At(t, "recipe") \/ (t \in recipeLog /\ At(t, "ended"))

\* The shell's output may still be read.  Where 'exit' does not wait for the
\* pipes, that is so even after the shell has exited.
Readable(t) ==
  \/ At(t, "recipe")
  \/ /\ ~ExitWaitsForStdio
     /\ t \in recipeLog
     /\ \E p \in {"cleanup", "cleanupErr", "ended"} : At(t, p)

\* A chunk of the shell's output is read and sent to the parent.
RecipeOutput(t) ==
  /\ Readable(t)
  /\ produced[t] < MaxChunks
  /\ produced' = [produced EXCEPT ![t] = @ + 1]
  /\ Send(home[t], Output(t, produced[t] + 1))
  /\ UNCHANGED <<home, run, dir, recipeLog, connected>>

\* The shell exits, with code 0 or another.
RecipeExit(t) ==
  /\ At(t, "recipe")
  /\ \E next \in {"cleanup", "cleanupErr"} : Goto(t, next)
  /\ UNCHANGED <<home, dir, produced, recipeLog, child, connected, channel>>

\* Slips: the parent is told before rimraf has finished; the sandbox is named
\* after the user alone, so that rimraf removes those of other requests.
RemoveLater(t) == UNCHANGED dir
RemoveAllOfUser(t) ==
  dir' = [s \in Token |-> IF home[s] = home[t] THEN "removed" ELSE dir[s]]

\* cleanup: rimraf removes the directory, or fails and leaves some of it.
Remove(t) ==
  \/ dir' = [dir EXCEPT ![t] = "removed"]
  \/ dir[t] = "present" /\ dir' = [dir EXCEPT ![t] = "stuck"]

\* recipeReady and sendError: rimraf has finished, its own error is ignored,
\* and the parent is told.
CleanupReady(t) ==
  /\ \/ At(t, "cleanup")
     \/ At(t, "cleanupErr")
  /\ Remove(t)
  /\ Send(home[t], End(t, run[t] = "cleanupErr"))
  /\ Goto(t, "ended")
  /\ UNCHANGED <<home, produced, recipeLog, connected>>

Step(t) ==
  \/ HandleRequest(t) \/ CheckoutReady(t) \/ SwitchReady(t)
  \/ HconfDirReady(t) \/ HconfReady(t) \/ RunLoadedRecipe(t)
  \/ RecipeExit(t) \/ CleanupReady(t)

\* Slip: a process outlives its parent.
HasThrown(c) == child[c] = "dying"

\* A process ends after an exception, or when its parent is gone and it has
\* nothing left to do.
MayExit(c) ==
  \/ child[c] = "dying"
  \/ /\ child[c] = "up"
     /\ c \notin connected
     /\ \A t \in Token : home[t] = c => run[t] \notin Working

\* The process is gone; the sandboxes of its unfinished requests stay.
ChildExit(c) ==
  /\ MayExit(c)
  /\ child' = [child EXCEPT ![c] = "dead"]
  /\ run' = [t \in Token |->
               IF home[t] = c /\ run[t] \in Working \cup {"thrown"}
               THEN "abandoned" ELSE run[t]]
  /\ UNCHANGED <<home, dir, produced, recipeLog, connected, channel>>

ChildNext ==
  \/ \E t \in Token : Step(t) \/ RecipeOutput(t)
  \/ \E c \in Child : ChildExit(c)

-----------------------------------------------------------------------------
(* The parent's end of the channel.                                        *)

\* children[user].send({type : 'HANDLE_REQUEST', ...})
SendRequest(t, c) ==
  /\ run' = [run EXCEPT ![t] = "sent"]
  /\ home' = [home EXCEPT ![t] = c]
  /\ UNCHANGED <<dir, produced, recipeLog, child, connected, channel>>

\* The parent takes the next message off the channel.
Receive(c) ==
  /\ channel[c] # <<>>
  /\ channel' = [channel EXCEPT ![c] = Tail(@)]

\* The parent is gone, and with it what it had not read.
Disconnect(cs) ==
  /\ connected' = connected \ cs
  /\ channel' = [c \in Child |-> IF c \in cs THEN <<>> ELSE channel[c]]

-----------------------------------------------------------------------------
(* A handler process on its own, as integration/test-handlerprocess.js     *)
(* drives it: a parent that sends requests, reads messages and may die.    *)

HandlerInit ==
  /\ Idle
  /\ child = [c \in Child |-> "up"]
  /\ connected = Child

ParentSends ==
  \E t \in Token, c \in connected : run[t] = "none" /\ SendRequest(t, c)

ParentReads ==
  /\ \E c \in Child : Receive(c)
  /\ UNCHANGED <<home, run, dir, produced, recipeLog, child, connected>>

ParentDies ==
  /\ \E c \in connected : Disconnect({c})
  /\ UNCHANGED <<home, run, dir, produced, recipeLog, child>>

HandlerNext == ChildNext \/ ParentSends \/ ParentReads \/ ParentDies

\* Callbacks whose event has happened run; svn, rimraf and the recipes end;
\* a process that has thrown, or has lost its parent and is idle, exits.
HandlerFairness ==
  /\ \A t \in Token : WF_handlerVars(Step(t))
  /\ \A c \in Child : WF_handlerVars(ChildExit(c))

HandlerSpec == HandlerInit /\ [][HandlerNext]_handlerVars /\ HandlerFairness

-----------------------------------------------------------------------------
(* What a handler process promises its parent.                             *)

\* Positions of the messages about t in the channel of c.
About(c, t) == {i \in DOMAIN channel[c] : channel[c][i].token = t}

IsEnd(c, i) == channel[c][i].type = "REQUEST_END"

\* REQUEST_END is the last message about a request: no second REQUEST_END and
\* no output comes after it.  The parent forgets the token at REQUEST_END
\* (audit-server.js:127-132) and could not place a later message.
EndIsLast ==
  \A c \in Child, t \in Token : \A i, j \in About(c, t) :
    IsEnd(c, i) => j <= i

\* Messages about a request come from the process it was given to, and once
\* its REQUEST_END is out its callback chain is over and its sandbox is gone,
\* or rimraf has given up on it: no message announces an end that is still to
\* come (process.js:142-158).
EndAfterCleanup ==
  \A c \in Child, t \in Token : \A i \in About(c, t) :
    /\ home[t] = c
    /\ IsEnd(c, i) => run[t] = "ended" /\ dir[t] \in {"removed", "stuck"}

\* The recipe runs inside its sandbox: the directory is there from before the
\* first link that needs it until the shell has exited, whatever the other
\* requests of the process do (sandbox.js:17-60, process.js:97-147).
SandboxCoversRun ==
  \A t \in Token :
    run[t] \in {"switch", "mkdir", "hconf", "template", "recipe", "cleanup"}
      => dir[t] = "present"

\* The process a request was sent to is gone.
HomeIsDead(t) == home[t] \in Child /\ child[home[t]] = "dead"

\* A request that was sent is answered, or its process has exited: no link of
\* the chain, failed or not, leaves the request without a next callback.
EveryRequestEnds ==
  \A t \in Token : run[t] = "sent" ~> run[t] = "ended" \/ HomeIsDead(t)

\* A process that has lost its parent exits, after its last recipe.
OrphansExit == \A c \in Child : c \notin connected ~> child[c] = "dead"

=============================================================================

----------------------------- MODULE AuditServer -----------------------------
(***************************************************************************)
(* The audit server, audit-server.js with routes/runrecipe.js, and the     *)
(* handler processes it forks, one per user with a public key.             *)
(*                                                                         *)
(* POST /recipe/<recipe>/<user>/run carries a signature of the request.    *)
(* The first request with a signature starts a run in the process of its   *)
(* user; a request with the signature of a run in progress reconnects to   *)
(* it.  Four tables in the memory of the server join HTTP responses to     *)
(* runs.  The server, its processes and its clients may stop at any time;  *)
(* processes outlive the server, and what they still write finds no reader.*)
(***************************************************************************)
EXTENDS HandlerProcess, FiniteSets

CONSTANTS
  Digest,       \* the signatures clients send
  DigestOf,     \* the signature of each request
  User,         \* the users named by the requests
  UserOf,       \* the user whose key verifies a signature
  WellFormed,   \* the requests whose body is the expected JSON
  Movable,      \* the users whose key comes and goes while the server runs
  MaxRestarts,  \* bound: restarts of the server
  NoToken       \* no table entry

\* A request is named by the token UUID.generate would give it; a handler
\* process is named by its user and the incarnation of the server.
ASSUME ServerAssumption ==
  /\ DigestOf \in [Token -> Digest]
  /\ UserOf \in [Digest -> User]
  /\ WellFormed \subseteq Token
  /\ Movable \subseteq User
  /\ MaxRestarts \in Nat
  /\ Child = User \X (0..MaxRestarts)
  /\ Token \cap Digest = {}
  /\ NoToken \notin Token \cup Digest

VARIABLES
  server,     \* the process of the audit server
  gen,        \* its incarnation
  keys,       \* the users with a .pem file in the key directory
  children,   \* auditserver.children: the users this incarnation forked for
  pc,         \* the callback a request waits for
  token,      \* self.token of a request
  gone,       \* the requests whose client has closed the connection
  emitters,   \* auditserver.emitters; an emitter is named by its first token
  tokens,     \* auditserver.tokens
  digests,    \* auditserver.digests
  listeners,  \* the requests that listen to the emitter of a token
  written,    \* the chunks written to a response
  audit       \* how often each record was handed to the logger

tables == <<emitters, tokens, digests, listeners>>
requestVars == <<pc, token, gone, written, audit>>
serverVars == <<server, gen, keys, children>>
vars == <<handlerVars, tables, requestVars, serverVars>>

\* Requests between two callbacks of the server.
Open == {"recipeStat", "keyStat", "keyRead", "attached", "thrown"}

Record == {"RUN-REQUEST", "RECONNECT-REQUEST", "FINISHED",
           "DISCONNECT-REQUEST", "NOT-VERIFIED"}

TypeOK ==
  /\ HandlerTypeOK
  /\ server \in {"up", "dying", "down"}
  /\ gen \in 0..MaxRestarts
  /\ keys \subseteq User
  /\ children \subseteq User
  /\ pc \in [Token -> Open \cup {"new", "refused", "ended", "reset"}]
  /\ token \in [Token -> Token \cup {NoToken}]
  /\ gone \subseteq Token
  /\ emitters \in [Token \cup Digest -> Token \cup {NoToken}]
  /\ tokens \in [Digest -> Token \cup {NoToken}]
  /\ digests \in [Token -> Digest \cup {NoToken}]
  /\ listeners \in [Token -> SUBSET Token]
  /\ \A t \in Token : IsFiniteSet(listeners[t])
  /\ written \in [Token -> Seq(1..MaxChunks)]
  /\ audit \in [Token -> [Record -> Nat]]

NoEntry(K) == [k \in K |-> NoToken]
Nobody == [t \in Token |-> {}]

Init ==
  /\ Idle
  /\ keys \in SUBSET User
  /\ server = "up" /\ gen = 0 /\ children = keys
  /\ child = [c \in Child |-> IF c \in keys \X {0} THEN "up" ELSE "none"]
  /\ connected = keys \X {0}
  /\ emitters = NoEntry(Token \cup Digest)
  /\ tokens = NoEntry(Digest) /\ digests = NoEntry(Token)
  /\ listeners = Nobody
  /\ pc = [c \in Token |-> "new"]
  /\ token = [c \in Token |-> NoToken]
  /\ gone = {}
  /\ written = [c \in Token |-> <<>>]
  /\ audit = [c \in Token |-> [r \in Record |-> 0]]

-----------------------------------------------------------------------------
(* The route POST /recipe/:recipe/:user/run, callback by callback.         *)

Serving == server \in {"up", "dying"}

\* An exception that no callback catches: the logger exits the process within
\* three seconds, during which it goes on running callbacks.
Die == server' = "dying"

Waits(c, where) == Serving /\ pc[c] = where

Await(c, where) == pc' = [pc EXCEPT ![c] = where]

\* auditserver.auditlog.log: the record is handed to the logger.  That it comes
\* to rest on a disk or at syslog, later, is not in the model.
Audit(t, record) == audit' = [audit EXCEPT ![t][record] = @ + 1]

\* 'notverified'
Refuse(c) == Await(c, "refused") /\ Audit(c, "NOT-VERIFIED")

\* The body has arrived; the server listens once it has a ready process.  A
\* body that JSON.parse rejects throws before the token is generated.
Request(c) ==
  /\ Waits(c, "new")
  /\ children # {}
  /\ \/ /\ c \notin WellFormed
        /\ Await(c, "thrown")
        /\ Die
        /\ UNCHANGED <<token, audit>>
     \/ /\ c \in WellFormed
        /\ token' = [token EXCEPT ![c] = c]
        /\ \/ Refuse(c)
           \/ Await(c, "recipeStat") /\ UNCHANGED audit
        /\ UNCHANGED server
  /\ UNCHANGED <<handlerVars, tables, gone, written, gen, keys, children>>

\* fs.stat of the recipe has returned.
RecipeStat(c) ==
  /\ Waits(c, "recipeStat")
  /\ \/ Refuse(c)
     \/ Await(c, "keyStat") /\ UNCHANGED audit
  /\ UNCHANGED <<handlerVars, tables, token, gone, written, serverVars>>

\* fs.stat of the key has looked; its callback is still to run.
KeyStat(c) ==
  /\ Waits(c, "keyStat")
  /\ IF UserOf[DigestOf[c]] \in keys
     THEN Await(c, "keyRead") /\ UNCHANGED audit
     ELSE Refuse(c)
  /\ UNCHANGED <<handlerVars, tables, token, gone, written, serverVars>>

\* Slips in createEmitter: an entry is forgotten, or two are swapped.
CreateEmitterForToken(t, d) ==
  /\ emitters' = [emitters EXCEPT ![t] = t]
  /\ digests' = [digests EXCEPT ![t] = d]
  /\ tokens' = [tokens EXCEPT ![d] = t]
  /\ listeners' = [listeners EXCEPT ![t] = {t}]
CreateEmitterForDigest(t, d) ==
  /\ emitters' = [emitters EXCEPT ![d] = t]
  /\ digests' = [digests EXCEPT ![t] = d]
  /\ tokens' = [tokens EXCEPT ![d] = t]
  /\ listeners' = [listeners EXCEPT ![t] = {t}]
CreateEmitterSwapped(t, d) ==
  /\ emitters' = [emitters EXCEPT ![t] = t, ![d] = t]
  /\ digests' = [digests EXCEPT ![t] = t]
  /\ tokens' = [tokens EXCEPT ![d] = d]
  /\ listeners' = [listeners EXCEPT ![t] = {t}]

CreateEmitter(t, d) ==
  /\ emitters' = [emitters EXCEPT ![t] = t, ![d] = t]
  /\ digests' = [digests EXCEPT ![t] = d]
  /\ tokens' = [tokens EXCEPT ![d] = t]
  /\ listeners' = [listeners EXCEPT ![t] = {t}]

\* Slip: a reconnecting request takes the place of the others.
ListenAlone(c, e) == listeners' = [listeners EXCEPT ![e] = {c}]
Listen(c, e) == listeners' = [listeners EXCEPT ![e] = @ \cup {c}]

\* Slip: every user is given the process that the loop has forked last.
LastProcess(u) == <<CHOOSE v \in children : TRUE, gen>>
ProcessOf(u) == <<u, gen>>

\* children[user].send: a user without a process throws, a process that is
\* gone throws or loses the request.
SendToChild(c) ==
  LET u == UserOf[DigestOf[c]]
      p == ProcessOf(u)
  IN \/ /\ u \in children
        /\ SendRequest(c, p)
        /\ UNCHANGED server
     \/ /\ u \in children => child[p] = "dead"
        /\ Die
        /\ UNCHANGED handlerVars

\* The callback of fs.stat: one turn of the event loop reads the key, checks
\* the signature and looks for a run in progress.  Without one it creates the
\* emitter and hands the request to the user's process (populateSandbox);
\* with one it listens to that run (reconnect).
Verify(c) ==
  LET d == DigestOf[c] IN
  /\ Waits(c, "keyRead")
  /\ \/ /\ UserOf[d] \notin keys
        /\ Await(c, "thrown")
        /\ Die
        /\ UNCHANGED <<handlerVars, tables, token, audit>>
     \/ /\ UserOf[d] \in keys
        /\ Refuse(c)
        /\ UNCHANGED <<handlerVars, tables, token, server>>
     \/ /\ UserOf[d] \in keys
        /\ emitters[d] = NoToken
        /\ Await(c, "attached")
        /\ CreateEmitter(c, d)
        /\ Audit(c, "RUN-REQUEST")
        /\ SendToChild(c)
        /\ UNCHANGED token
     \/ /\ UserOf[d] \in keys
        /\ emitters[d] # NoToken
        /\ Await(c, "attached")
        /\ token' = [token EXCEPT ![c] = tokens[d]]
        /\ Audit(tokens[d], "RECONNECT-REQUEST")
        /\ Listen(c, emitters[d])
        /\ UNCHANGED <<handlerVars, emitters, tokens, digests, server>>
  /\ UNCHANGED <<gone, written, gen, keys, children>>

\* The client goes away: a record, nothing else.
ClientGone(c) ==
  /\ Serving
  /\ pc[c] \in Open
  /\ c \notin gone
  /\ gone' = gone \cup {c}
  /\ IF token[c] = NoToken
     THEN UNCHANGED audit
     ELSE Audit(token[c], "DISCONNECT-REQUEST")
  /\ UNCHANGED <<handlerVars, tables, pc, token, written, serverVars>>

-----------------------------------------------------------------------------
(* Messages of the handler processes: MessageHandler and the listeners.    *)

NextMessage(p, type) ==
  /\ Serving
  /\ Receive(p)
  /\ Head(channel[p]).type = type
  /\ UNCHANGED <<home, run, dir, produced, recipeLog, child, connected>>

\* OUTPUT: every listener writes the chunk to its response (processOutput).
HandleOutput(p) ==
  LET m == Head(channel[p])
      e == emitters[m.token]
  IN /\ NextMessage(p, "OUTPUT")
     /\ \/ /\ e = NoToken
           /\ Die
           /\ UNCHANGED written
        \/ /\ e # NoToken
           /\ written' = [c \in Token |-> IF c \in listeners[e]
                                          THEN Append(written[c], m.n)
                                          ELSE written[c]]
           /\ UNCHANGED server
     /\ UNCHANGED <<tables, pc, token, gone, audit, gen, keys, children>>

\* Slip in endOutput: one record for the run, not one for each response.
FinishedOnce(t, e) == audit' = [audit EXCEPT ![t]["FINISHED"] = @ + 1]
Finished(t, e) ==
  audit' = [audit EXCEPT ![t]["FINISHED"] = @ + Cardinality(listeners[e])]

\* Slip: the digest of the token is deleted before it is used as a key.
ForgetDigestFirst(t, e) ==
  /\ emitters' = [emitters EXCEPT ![t] = NoToken]
  /\ digests' = [digests EXCEPT ![t] = NoToken]
  /\ listeners' = [listeners EXCEPT ![e] = {}]
  /\ UNCHANGED tokens

\* The four deletes; the emitter itself becomes garbage.
Forget(t, e) ==
  /\ emitters' = [emitters EXCEPT ![t] = NoToken, ![digests[t]] = NoToken]
  /\ tokens' = [tokens EXCEPT ![digests[t]] = NoToken]
  /\ digests' = [digests EXCEPT ![t] = NoToken]
  /\ listeners' = [listeners EXCEPT ![e] = {}]

\* REQUEST_END: every listener ends its response (endOutput) and the entries
\* are deleted.  The error of a request is an object: response.write throws
\* in the first listener, before any response is ended or entry deleted.
HandleEnd(p) ==
  LET m == Head(channel[p])
      t == m.token
      e == emitters[t]
  IN /\ NextMessage(p, "REQUEST_END")
     /\ \/ /\ (e = NoToken) \/ (m.err /\ listeners[e] # {})
           /\ Die
           /\ UNCHANGED <<tables, pc, audit>>
        \/ /\ e # NoToken /\ (m.err => listeners[e] = {})
           /\ pc' = [c \in Token |->
                       IF c \in listeners[e] THEN "ended" ELSE pc[c]]
           /\ Finished(t, e)
           /\ Forget(t, e)
           /\ UNCHANGED server
     /\ UNCHANGED <<token, gone, written, gen, keys, children>>

-----------------------------------------------------------------------------
(* The life of the server and of its processes.                            *)

Current == User \X {gen}

\* A process exits and the server sees it: process.kill() without a pid sends
\* SIGTERM to the process group, as far as its user may signal it.
ChildDied(p) ==
  /\ server = "up"
  /\ p \in Current
  /\ child[p] = "dead"
  /\ Die
  /\ \E killed \in SUBSET {q \in Current : child[q] = "up"} :
       child' = [q \in Child |-> IF q \in killed THEN "dying" ELSE child[q]]
  /\ UNCHANGED <<home, run, dir, produced, recipeLog, connected, channel>>
  /\ UNCHANGED <<tables, requestVars, gen, keys, children>>

\* The process of the server is gone, and its memory and connections with it;
\* the handler processes go on without a parent.
Exit ==
  /\ server' = "down"
  /\ children' = {}
  /\ emitters' = NoEntry(Token \cup Digest)
  /\ tokens' = NoEntry(Digest) /\ digests' = NoEntry(Token)
  /\ listeners' = Nobody
  /\ pc' = [c \in Token |-> IF pc[c] \in Open THEN "reset" ELSE pc[c]]
  /\ Disconnect(Current)
  /\ UNCHANGED <<home, run, dir, produced, recipeLog, child>>
  /\ UNCHANGED <<token, gone, written, audit, gen, keys>>

Dies == server = "dying" /\ Exit

\* auditserver.sh stop kills the server and nothing else.
Stop == server = "up" /\ Exit

\* auditserver.sh start: one process per key file.
Restart ==
  /\ server = "down"
  /\ gen < MaxRestarts
  /\ server' = "up"
  /\ gen' = gen + 1
  /\ children' = keys
  /\ child' = [p \in Child |-> IF p \in keys \X {gen'} THEN "up" ELSE child[p]]
  /\ connected' = connected \cup (keys \X {gen'})
  /\ UNCHANGED <<home, run, dir, produced, recipeLog, channel>>
  /\ UNCHANGED <<tables, requestVars, keys>>

\* The administrator adds or removes a key file.
MoveKey ==
  /\ \E u \in Movable :
       keys' = IF u \in keys THEN keys \ {u} ELSE keys \cup {u}
  /\ UNCHANGED <<handlerVars, tables, requestVars, server, gen, children>>

Handlers == ChildNext /\ UNCHANGED <<tables, requestVars, serverVars>>

Next ==
  \/ \E c \in Token :
       Request(c) \/ RecipeStat(c) \/ KeyStat(c) \/ Verify(c) \/ ClientGone(c)
  \/ \E p \in Child : HandleOutput(p) \/ HandleEnd(p) \/ ChildDied(p)
  \/ Dies \/ Stop \/ Restart \/ MoveKey
  \/ Handlers

\* The event loop of a serving server runs every callback whose event has
\* happened, and a dying server exits.  Clients, the administrator and the
\* output of a recipe owe nothing.
Fairness ==
  /\ \A c \in Token :
       WF_vars(RecipeStat(c) \/ KeyStat(c) \/ Verify(c))
  /\ \A p \in Child : WF_vars(HandleOutput(p) \/ HandleEnd(p))
  /\ \A p \in Child : WF_vars(ChildDied(p))
  /\ WF_vars(Dies)
  /\ \A t \in Token : WF_vars(Step(t) /\ Handlers)
  /\ \A p \in Child : WF_vars(ChildExit(p) /\ Handlers)

Spec == Init /\ [][Next]_vars /\ Fairness

-----------------------------------------------------------------------------
(* What the server promises its clients and its auditors.                  *)

\* Runs whose process still reports to the server.
Attended == {t \in Token : home[t] \in connected}

\* The tables describe one set of runs: a digest leads to a token that leads
\* back to it, both to the same emitter, and somebody listens to it
\* (audit-server.js:51-58 creates and 128-132 deletes the four entries).
TablesAgree ==
  /\ \A d \in Digest : emitters[d] = tokens[d]
  /\ \A d \in Digest, t \in Token : tokens[d] = t <=> digests[t] = d
  /\ \A t \in Token :
       /\ emitters[t] = (IF digests[t] = NoToken THEN NoToken ELSE t)
       /\ listeners[t] # {} <=> digests[t] # NoToken

\* One signature, one run: while a run is under way in a process of this
\* incarnation, no second request with its signature starts another
\* (runrecipe.js:115-120).
SingleFlight ==
  \A s, t \in Attended :
    run[s] \in Working /\ run[t] \in Working /\ DigestOf[s] = DigestOf[t]
      => s = t

\* The server can place every message that reaches it: the emitter of its
\* token is in the table (audit-server.js:125,128 read it unchecked).
EveryMessageHasEmitter ==
  \A p \in connected : \A i \in DOMAIN channel[p] :
    emitters[channel[p][i].token] = channel[p][i].token

\* A response carries the output of the run of its own signature, and that run
\* happens in the process of the user whose key verified it.
OwnOutputOnly ==
  /\ \A t \in Token : \A c \in listeners[t] :
       token[c] = t /\ DigestOf[c] = DigestOf[t] /\ pc[c] = "attached"
  /\ \A t \in Token : home[t] \in Child => home[t][1] = UserOf[DigestOf[t]]

\* A response has the chunks of its run in order and without a gap, from the
\* moment it attached on; when it is ended it has the last one.
NoGaps ==
  \A c \in Token : \A i \in DOMAIN written[c] :
    /\ i > 1 => written[c][i] = written[c][i - 1] + 1
    /\ pc[c] = "ended" => written[c][Len(written[c])] = produced[token[c]]

\* The response that started a run has all its output once it is ended.
StarterHasAll ==
  \A c \in Token :
    pc[c] = "ended" /\ token[c] = c => Len(written[c]) = produced[c]

\* A response is ended only after its run has: the shell has exited and the
\* sandbox, that makes the token acceptable to the challenge route, is gone or
\* rimraf has given up on it (process.js:142-147).
EndedAfterCleanup ==
  \A c \in Token : pc[c] = "ended" =>
    run[token[c]] = "ended" /\ dir[token[c]] \in {"removed", "stuck"}

\* The loggers are told of every run: recipe lines are logged by a handler
\* process only for a token whose RUN-REQUEST record the server has logged, once; a finished run has one FINISHED record for every request attached to
\* it, and a run that is not over has none.
AuditTrail ==
  \A t \in Token :
    /\ run[t] # "none" => audit[t]["RUN-REQUEST"] = 1
    /\ audit[t]["RUN-REQUEST"] <= 1
    /\ audit[t]["FINISHED"] > 0 =>
         /\ run[t] = "ended"
         /\ audit[t]["FINISHED"] = 1 + audit[t]["RECONNECT-REQUEST"]

\* The server seen from outside: the tokens table is the run of each signature.
ClientStatus(c) ==
  CASE pc[c] = "attached" -> "attached"
    [] pc[c] = "ended"    -> "answered"
    [] pc[c] = "refused"  -> "refused"
    [] pc[c] = "reset"    -> "lost"
    [] OTHER              -> "asking"

Service == INSTANCE RecipeService WITH
             Client <- Token, Chunk <- 1..MaxChunks, NoRun <- NoToken,
             status <- [c \in Token |-> ClientStatus(c)],
             flight <- tokens, got <- written

\* The server implements RecipeService: whatever the callbacks, messages and
\* table entries do, each step is one step of the service or none
\* (audit-server.js:107-137, runrecipe.js:113-201).
ImplementsService == Service!ServiceSpec

\* A request the server accepted is answered, or its connection is reset by
\* the end of the server: nobody waits for ever, whatever fails or goes away.
EveryRequestAnswered ==
  \A c \in Token : pc[c] \in Open ~> pc[c] \in {"refused", "ended", "reset"}

=============================================================================

-------------------------- MODULE AuditServerProofs --------------------------
(***************************************************************************)
(* Proofs about AuditServer, for any requests, users and restarts.         *)
(***************************************************************************)
EXTENDS AuditServer, HandlerProcessProofs, FiniteSetTheorems

-----------------------------------------------------------------------------
(* Type correctness.                                                       *)

\* Counting a record keeps the audit log well typed.
LEMMA AuditType ==
  ASSUME audit \in [Token -> [Record -> Nat]],
         NEW t \in Token, NEW r \in Record, NEW n \in Nat,
         audit' = [audit EXCEPT ![t][r] = @ + n]
  PROVE  audit' \in [Token -> [Record -> Nat]]
<1>1. audit[t] \in [Record -> Nat]
  OBVIOUS
<1>2. [audit[t] EXCEPT ![r] = @ + n] \in [Record -> Nat]
  BY <1>1
<1>3. audit' = [audit EXCEPT ![t] = [audit[t] EXCEPT ![r] = @ + n]]
  OBVIOUS
<1> QED BY <1>2, <1>3

\* A message at the head of a channel is a message.
LEMMA HeadIsMessage ==
  ASSUME HandlerTypeOK, NEW p \in Child, channel[p] # <<>>
  PROVE  Head(channel[p]) \in Message
  BY DEF HandlerTypeOK

\* Sending a request to a process keeps the types of the handler processes.
LEMMA SendRequestType ==
  ASSUME HandlerTypeOK, NEW t \in Token, NEW p \in Child, SendRequest(t, p)
  PROVE  HandlerTypeOK'
  BY DEF HandlerTypeOK, Phase, SendRequest

\* Turning a message over to the server, too.
LEMMA NextMessageType ==
  ASSUME HandlerTypeOK, NEW p \in Child, NEW type, NextMessage(p, type)
  PROVE  /\ HandlerTypeOK'
         /\ Head(channel[p]) \in Message
         /\ Head(channel[p]).type = type
<1>1. channel' \in [Child -> Seq(Message)]
  BY ReceiveType DEF NextMessage
<1>2. HandlerTypeOK'
  BY <1>1 DEF NextMessage, HandlerTypeOK
<1> QED BY <1>2, HeadIsMessage DEF NextMessage, Receive

\* The callbacks of a request keep the types.
LEMMA RequestType ==
  ASSUME TypeOK, NEW c \in Token,
         Request(c) \/ RecipeStat(c) \/ KeyStat(c) \/ ClientGone(c)
  PROVE  TypeOK'
<1> USE DEF handlerVars, tables, serverVars
<1>1. HandlerTypeOK'
  BY DEF TypeOK, HandlerTypeOK, Request, RecipeStat, KeyStat, ClientGone
<1>2. audit' \in [Token -> [Record -> Nat]]
  <2>1. ASSUME NEW t \in Token, NEW r \in Record, Audit(t, r)
        PROVE  audit' \in [Token -> [Record -> Nat]]
    BY <2>1, AuditType DEF TypeOK, Audit
  <2>2. CASE UNCHANGED audit
    BY <2>2 DEF TypeOK
  <2>3. "NOT-VERIFIED" \in Record /\ "DISCONNECT-REQUEST" \in Record
    BY DEF Record
  <2>4. token[c] \in Token \cup {NoToken}
    BY DEF TypeOK
  <2> QED
    BY <2>1, <2>2, <2>3, <2>4
       DEF Request, RecipeStat, KeyStat, ClientGone, Refuse
<1> QED
  BY <1>1, <1>2
     DEF TypeOK, Request, RecipeStat, KeyStat, ClientGone, Refuse, Await, Die,
         Waits, Open

\* Verify keeps the types; the record of a reconnection needs a token, which
\* the tables have when they have an emitter.
LEMMA VerifyType ==
  ASSUME TypeOK, TablesAgree, NEW c \in Token, Verify(c)
  PROVE  TypeOK'
<1> USE ServerAssumption DEF handlerVars, tables, serverVars
<1> DEFINE d == DigestOf[c]
<1>1. d \in Digest /\ UserOf[d] \in User /\ NoToken \notin Token \cup Digest
  OBVIOUS
<1>2. /\ pc' \in [Token -> Open \cup {"new", "refused", "ended", "reset"}]
      /\ UNCHANGED <<gone, written, gen, keys, children>>
  BY DEF TypeOK, Verify, Await, Refuse, Open
<1>3. ASSUME NEW t \in Token, NEW r \in Record, Audit(t, r)
      PROVE  audit' \in [Token -> [Record -> Nat]]
  BY <1>3, AuditType DEF TypeOK, Audit
<1>4. Record = {"RUN-REQUEST", "RECONNECT-REQUEST", "FINISHED",
                "DISCONNECT-REQUEST", "NOT-VERIFIED"}
  BY DEF Record
<1>5. CASE Await(c, "thrown") /\ Die /\ UNCHANGED <<handlerVars, tables, token, audit>>
  BY <1>2, <1>5 DEF TypeOK, HandlerTypeOK, Die
<1>6. CASE Refuse(c) /\ UNCHANGED <<handlerVars, tables, token, server>>
  BY <1>2, <1>3, <1>4, <1>6 DEF TypeOK, HandlerTypeOK, Refuse
<1>7. CASE /\ CreateEmitter(c, d) /\ Audit(c, "RUN-REQUEST")
           /\ SendToChild(c) /\ UNCHANGED token
  <2>1. audit' \in [Token -> [Record -> Nat]]
    BY <1>3, <1>4, <1>7
  <2>2. /\ emitters' \in [Token \cup Digest -> Token \cup {NoToken}]
        /\ tokens' \in [Digest -> Token \cup {NoToken}]
        /\ digests' \in [Token -> Digest \cup {NoToken}]
        /\ listeners' \in [Token -> SUBSET Token]
    BY <1>1, <1>7 DEF TypeOK, CreateEmitter
  <2>3. \A t \in Token : IsFiniteSet(listeners'[t])
    BY <1>7, FS_Singleton DEF TypeOK, CreateEmitter
  <2>4. HandlerTypeOK' /\ server' \in {"up", "dying", "down"}
    <3>1. CASE UserOf[d] \in children /\ SendRequest(c, ProcessOf(UserOf[d]))
               /\ UNCHANGED server
      <4>1. ProcessOf(UserOf[d]) \in Child
        BY <1>1 DEF ProcessOf, TypeOK
      <4> QED BY <3>1, <4>1, SendRequestType DEF TypeOK
    <3>2. CASE Die /\ UNCHANGED handlerVars
      BY <3>2 DEF Die, TypeOK, HandlerTypeOK
    <3> QED BY <1>7, <3>1, <3>2 DEF SendToChild
  <2> QED BY <1>2, <1>7, <2>1, <2>2, <2>3, <2>4 DEF TypeOK
<1>8. CASE /\ emitters[d] # NoToken
           /\ token' = [token EXCEPT ![c] = tokens[d]]
           /\ Audit(tokens[d], "RECONNECT-REQUEST")
           /\ Listen(c, emitters[d])
           /\ UNCHANGED <<handlerVars, emitters, tokens, digests, server>>
  <2>0. tokens[d] \in Token
    BY <1>1, <1>8 DEF TypeOK, TablesAgree
  <2>1. audit' \in [Token -> [Record -> Nat]]
    BY <1>3, <1>4, <1>8, <2>0
  <2>2. emitters[d] \in Token
    BY <1>1, <1>8 DEF TypeOK
  <2>3. /\ listeners' \in [Token -> SUBSET Token]
        /\ \A t \in Token : IsFiniteSet(listeners'[t])
    <3>1. IsFiniteSet(listeners[emitters[d]] \cup {c})
      BY <2>2, FS_AddElement DEF TypeOK
    <3>2. listeners' = [listeners EXCEPT ![emitters[d]] = @ \cup {c}]
      BY <1>8 DEF Listen
    <3> HIDE DEF d
    <3> QED BY <2>2, <3>1, <3>2 DEF TypeOK
  <2> QED BY <1>2, <1>8, <2>0, <2>1, <2>3 DEF TypeOK, HandlerTypeOK
<1> QED BY <1>5, <1>6, <1>7, <1>8 DEF Verify

\* The handlers of OUTPUT and REQUEST_END keep the types.
LEMMA HandleOutputType ==
  ASSUME TypeOK, NEW p \in Child, HandleOutput(p)
  PROVE  TypeOK'
<1> USE DEF tables
<1> DEFINE m == Head(channel[p])
<1>1. HandlerTypeOK' /\ m \in Message /\ m.type = "OUTPUT"
  BY NextMessageType DEF HandleOutput, TypeOK
<1>2. m.n \in 1..MaxChunks
  BY <1>1 DEF Message
<1> HIDE DEF m
<1>3. \A c \in Token : Append(written[c], m.n) \in Seq(1..MaxChunks)
  BY <1>2 DEF TypeOK
<1>4. written' \in [Token -> Seq(1..MaxChunks)]
  BY <1>3 DEF HandleOutput, TypeOK, m
<1> QED BY <1>1, <1>4 DEF HandleOutput, TypeOK, Die

LEMMA HandleEndType ==
  ASSUME TypeOK, NEW p \in Child, HandleEnd(p)
  PROVE  TypeOK'
<1> USE DEF tables
<1> DEFINE t == Head(channel[p]).token
           e == emitters[t]
<1>1. HandlerTypeOK' /\ t \in Token
  BY NextMessageType DEF HandleEnd, TypeOK, Message
<1>2. CASE Die /\ UNCHANGED <<tables, pc, audit>>
  BY <1>1, <1>2 DEF HandleEnd, TypeOK, Die
<1>3. CASE /\ e # NoToken
           /\ pc' = [c \in Token |->
                       IF c \in listeners[e] THEN "ended" ELSE pc[c]]
           /\ Finished(t, e)
           /\ Forget(t, e)
           /\ UNCHANGED server
  <2>1. e \in Token
    BY <1>1, <1>3 DEF TypeOK
  <2>2. Cardinality(listeners[e]) \in Nat
    BY <2>1, FS_CardinalityType DEF TypeOK
  <2>3. audit' \in [Token -> [Record -> Nat]]
    BY <1>1, <1>3, <2>2, AuditType DEF Finished, TypeOK, Record
  <2>4. /\ emitters' \in [Token \cup Digest -> Token \cup {NoToken}]
        /\ tokens' \in [Digest -> Token \cup {NoToken}]
        /\ digests' \in [Token -> Digest \cup {NoToken}]
        /\ listeners' \in [Token -> SUBSET Token]
    BY <1>3 DEF TypeOK, Forget
  <2>5. \A s \in Token : IsFiniteSet(listeners'[s])
    BY <1>3, FS_EmptySet DEF TypeOK, Forget
  <2> QED BY <1>1, <1>3, <2>3, <2>4, <2>5 DEF HandleEnd, TypeOK
<1> QED BY <1>2, <1>3 DEF HandleEnd

\* The life of the server keeps the types.
LEMMA LifeType ==
  ASSUME TypeOK,
         \/ \E p \in Child : ChildDied(p)
         \/ Dies \/ Stop \/ Restart \/ MoveKey \/ Handlers
  PROVE  TypeOK'
<1> USE ServerAssumption DEF tables, requestVars, serverVars, handlerVars
<1>1. ASSUME NEW p \in Child, ChildDied(p) PROVE TypeOK'
  BY <1>1 DEF ChildDied, Die, TypeOK, HandlerTypeOK
<1>2. CASE Dies \/ Stop
  <2>1. Exit
    BY <1>2 DEF Dies, Stop
  <2>2. HandlerTypeOK'
    BY <2>1, DisconnectType DEF Exit, TypeOK, HandlerTypeOK
  <2>3. \A t \in Token : IsFiniteSet(listeners'[t])
    BY <2>1, FS_EmptySet DEF Exit, Nobody
  <2> QED
    BY <2>1, <2>2, <2>3 DEF Exit, TypeOK, NoEntry, Nobody, Open
<1>3. CASE Restart
  <2>1. gen' \in 0..MaxRestarts /\ keys \X {gen'} \subseteq Child
    BY <1>3 DEF Restart, TypeOK
  <2>2. HandlerTypeOK'
    BY <1>3, <2>1 DEF Restart, TypeOK, HandlerTypeOK
  <2> QED BY <1>3, <2>1, <2>2 DEF Restart, TypeOK
<1>4. CASE MoveKey
  BY <1>4 DEF MoveKey, TypeOK, HandlerTypeOK
<1>5. CASE Handlers
  BY <1>5, ChildNextType DEF Handlers, TypeOK
<1> QED BY <1>1, <1>2, <1>3, <1>4, <1>5

-----------------------------------------------------------------------------
(* The inductive invariant.                                                *)

\* The tables have an entry for every run that a process of this incarnation
\* has not ended.
RunHasEntry ==
  \A t \in Token :
    home[t] \in connected /\ run[t] # "ended" => digests[t] # NoToken

\* An entry is made by a request for itself, under its own signature.
EntryIsOwn ==
  \A t \in Token :
    digests[t] # NoToken => digests[t] = DigestOf[t] /\ t \in listeners[t]

\* A request that is not verified yet has been sent to no process, and has the
\* token that was generated for it.
NotVerifiedNotSent ==
  \A c \in Token :
    /\ pc[c] \in {"new", "recipeStat", "keyStat", "keyRead"} => run[c] = "none"
    /\ pc[c] \in {"recipeStat", "keyStat", "keyRead"} => token[c] = c

\* Only processes of this incarnation report to the server.
ParentIsCurrent ==
  /\ connected \subseteq Current
  /\ server = "down" => connected = {}
  /\ \A t \in Token : home[t] \in Child => home[t][2] <= gen

LinkInv ==
  /\ UnsentIsIdle /\ EndAfterCleanup
  /\ TablesAgree /\ OwnOutputOnly
  /\ RunHasEntry /\ EntryIsOwn
  /\ NotVerifiedNotSent /\ ParentIsCurrent

ServerInv == TypeOK /\ LinkInv

\* The parts that speak of processes, messages and tables only.
LEMMA TablesFrame ==
  ASSUME ServerInv,
         UNCHANGED <<home, run, dir, produced, connected, channel, tables>>
  PROVE  /\ UnsentIsIdle' /\ EndAfterCleanup'
         /\ TablesAgree' /\ RunHasEntry' /\ EntryIsOwn'
<1> USE DEF ServerInv, LinkInv, tables
<1>1. UnsentIsIdle'
  BY DEF UnsentIsIdle
<1>2. EndAfterCleanup'
  BY DEF EndAfterCleanup, About, IsEnd
<1>3. TablesAgree' /\ EntryIsOwn' /\ RunHasEntry'
  BY DEF TablesAgree, EntryIsOwn, RunHasEntry
<1> QED BY <1>1, <1>2, <1>3

\* A request that waits to be verified listens to nothing and has no entry.
LEMMA NotAttachedNotListed ==
  ASSUME ServerInv, NEW c \in Token, pc[c] # "attached"
  PROVE  /\ digests[c] = NoToken
         /\ \A t \in Token : c \notin listeners[t]
BY DEF ServerInv, LinkInv, OwnOutputOnly, EntryIsOwn

\* The steps of a request that touch neither processes nor tables.
LEMMA QuietRequestInv ==
  ASSUME ServerInv, NEW c \in Token,
         UNCHANGED <<handlerVars, tables, gen>>,
         server' = server \/ server' = "dying",
         server # "down",
         \/ UNCHANGED <<pc, token>>
         \/ /\ pc[c] \in {"new", "recipeStat", "keyStat", "keyRead"}
            /\ \A b \in Token : b # c => pc'[b] = pc[b] /\ token'[b] = token[b]
            /\ pc'[c] \in {"recipeStat", "keyStat", "keyRead"} => token'[c] = c
            /\ pc'[c] # "new"
  PROVE  LinkInv'
<1> USE DEF handlerVars
<1>1. /\ UnsentIsIdle' /\ EndAfterCleanup'
      /\ TablesAgree' /\ RunHasEntry' /\ EntryIsOwn'
  BY TablesFrame
<1>2. OwnOutputOnly'
  <2>1. \A t \in Token : \A b \in listeners[t] :
          b \in Token /\ pc'[b] = pc[b] /\ token'[b] = token[b]
    BY NotAttachedNotListed DEF ServerInv, TypeOK
  <2>2. listeners' = listeners /\ home' = home
    BY DEF tables
  <2> QED BY <2>1, <2>2 DEF ServerInv, LinkInv, OwnOutputOnly
<1>3. NotVerifiedNotSent'
  BY DEF ServerInv, LinkInv, NotVerifiedNotSent
<1>4. ParentIsCurrent'
  BY DEF ServerInv, LinkInv, ParentIsCurrent, Current
<1> QED BY <1>1, <1>2, <1>3, <1>4 DEF LinkInv

\* A request that is being verified has its own token.
LEMMA NewTokens ==
  ASSUME ServerInv, NEW c \in Token,
         pc[c] \in {"recipeStat", "keyStat", "keyRead"}
  PROVE  token[c] = c /\ run[c] = "none"
BY DEF ServerInv, LinkInv, NotVerifiedNotSent

LEMMA RequestInv ==
  ASSUME ServerInv, NEW c \in Token,
         Request(c) \/ RecipeStat(c) \/ KeyStat(c) \/ ClientGone(c)
  PROVE  LinkInv'
<1>1. /\ UNCHANGED <<handlerVars, tables, gen>>
      /\ server' = server \/ server' = "dying"
      /\ server # "down"
  BY DEF Request, RecipeStat, KeyStat, ClientGone, Die, Waits, Serving,
         serverVars
<1>2. CASE ClientGone(c)
  BY <1>1, <1>2, QuietRequestInv DEF ClientGone
<1>3. CASE Request(c) \/ RecipeStat(c) \/ KeyStat(c)
  <2>1. /\ pc[c] \in {"new", "recipeStat", "keyStat", "keyRead"}
        /\ \A b \in Token : b # c => pc'[b] = pc[b] /\ token'[b] = token[b]
        /\ pc'[c] \in {"recipeStat", "keyStat", "keyRead"} => token'[c] = c
        /\ pc'[c] # "new"
    BY <1>3, NewTokens
       DEF Request, RecipeStat, KeyStat, Waits, Await, Refuse, ServerInv, TypeOK
  <2> QED BY <1>1, <2>1, QuietRequestInv
<1> QED BY <1>2, <1>3

\* What a request changes when it joins the run of t.
JoinsRun(c, t) ==
  /\ pc[c] = "keyRead"
  /\ t = tokens[DigestOf[c]] /\ emitters[DigestOf[c]] = t
  /\ digests[t] = DigestOf[c] /\ DigestOf[t] = DigestOf[c]
  /\ \A s \in Token : /\ c \notin listeners[s]
                      /\ listeners'[s] = IF s = t THEN listeners[t] \cup {c}
                                                  ELSE listeners[s]
  /\ \A b \in Token : /\ pc'[b] = IF b = c THEN "attached" ELSE pc[b]
                      /\ token'[b] = IF b = c THEN t ELSE token[b]
  /\ UNCHANGED <<handlerVars, emitters, tokens, digests, server, gen>>

\* What it changes when it starts a run: the entries are made before anything
\* is sent, and the process may be gone.
StartsRun(c) ==
  LET d == DigestOf[c] IN
  /\ pc[c] = "keyRead" /\ run[c] = "none" /\ token[c] = c
  /\ home[c] = NoChild /\ digests[c] = NoToken /\ tokens[d] = NoToken
  /\ \A t \in Token :
       /\ c \notin listeners[t]
       /\ digests'[t] = IF t = c THEN d ELSE digests[t]
       /\ listeners'[t] = IF t = c THEN {c} ELSE listeners[t]
       /\ emitters'[t] = IF t = c THEN c ELSE emitters[t]
       /\ pc'[t] = IF t = c THEN "attached" ELSE pc[t]
       /\ t # c => home'[t] = home[t] /\ run'[t] = run[t]
  /\ \A e \in Digest :
       /\ tokens'[e] = IF e = d THEN c ELSE tokens[e]
       /\ emitters'[e] = IF e = d THEN c ELSE emitters[e]
  /\ LET p == ProcessOf(UserOf[d])
     IN \/ /\ UserOf[d] \in children /\ SendRequest(c, p)
           /\ home'[c] = p /\ run'[c] = "sent" /\ server' = server
        \/ /\ UNCHANGED handlerVars
           /\ home'[c] = NoChild /\ run'[c] = "none" /\ server' = "dying"
  /\ UNCHANGED <<token, gen, dir, produced, connected, channel>>

LEMMA JoinStep ==
  ASSUME ServerInv, NEW c \in Token, Waits(c, "keyRead"),
         emitters[DigestOf[c]] # NoToken,
         Await(c, "attached"),
         token' = [token EXCEPT ![c] = tokens[DigestOf[c]]],
         Listen(c, emitters[DigestOf[c]]),
         UNCHANGED <<handlerVars, emitters, tokens, digests, server, gen>>
  PROVE  \E t \in Token : JoinsRun(c, t)
<1> USE ServerAssumption DEF ServerInv, LinkInv
<1> DEFINE d == DigestOf[c]
           t == tokens[d]
<1>1. /\ emitters[d] = t /\ t \in Token
      /\ digests[t] = d /\ DigestOf[t] = d
  <2>1. d \in Digest /\ d # NoToken /\ emitters[d] = t
    BY DEF TablesAgree
  <2>2. t \in Token
    BY <2>1 DEF TypeOK
  <2>3. digests[t] = d
    BY <2>1, <2>2 DEF TablesAgree
  <2> QED BY <2>1, <2>2, <2>3 DEF EntryIsOwn
<1>2. listeners' = [listeners EXCEPT ![t] = @ \cup {c}]
  BY <1>1 DEF Listen
<1>3. \A b \in Token : /\ pc'[b] = IF b = c THEN "attached" ELSE pc[b]
                       /\ token'[b] = IF b = c THEN t ELSE token[b]
  BY DEF Await, TypeOK
<1> HIDE DEF t
<1>4. \A s \in Token : /\ c \notin listeners[s]
                       /\ listeners'[s] = IF s = t THEN listeners[t] \cup {c}
                                                   ELSE listeners[s]
  BY <1>1, <1>2, NotAttachedNotListed DEF TypeOK, Waits
<1> QED BY <1>1, <1>3, <1>4 DEF JoinsRun, Waits, t

LEMMA StartStep ==
  ASSUME ServerInv, NEW c \in Token, Waits(c, "keyRead"),
         emitters[DigestOf[c]] = NoToken,
         Await(c, "attached"),
         CreateEmitter(c, DigestOf[c]),
         SendToChild(c),
         UNCHANGED <<token, gen>>
  PROVE  StartsRun(c)
<1> USE ServerAssumption DEF ServerInv, LinkInv, handlerVars
<1> DEFINE d == DigestOf[c]
           p == ProcessOf(UserOf[d])
<1>1. /\ run[c] = "none" /\ token[c] = c /\ pc[c] = "keyRead"
      /\ home[c] = NoChild
      /\ digests[c] = NoToken /\ \A t \in Token : c \notin listeners[t]
      /\ d \in Digest /\ tokens[d] = NoToken
  BY NewTokens, NotAttachedNotListed
     DEF Waits, Serving, UnsentIsIdle, TablesAgree
<1>2. /\ \A t \in Token : /\ digests'[t] = IF t = c THEN d ELSE digests[t]
                          /\ listeners'[t] = IF t = c THEN {c} ELSE listeners[t]
                          /\ emitters'[t] = IF t = c THEN c ELSE emitters[t]
      /\ \A e \in Digest : /\ tokens'[e] = IF e = d THEN c ELSE tokens[e]
                           /\ emitters'[e] = IF e = d THEN c ELSE emitters[e]
  BY <1>1 DEF CreateEmitter, TypeOK
<1>3. \A b \in Token : pc'[b] = IF b = c THEN "attached" ELSE pc[b]
  BY DEF Await, TypeOK
<1>4. \/ UserOf[d] \in children /\ SendRequest(c, p) /\ server' = server
      \/ UNCHANGED handlerVars /\ server' = "dying"
  BY DEF SendToChild, Die
<1>5. /\ UNCHANGED <<dir, produced, connected, channel>>
      /\ \A t \in Token : t # c => home'[t] = home[t] /\ run'[t] = run[t]
      /\ SendRequest(c, p) => home'[c] = p /\ run'[c] = "sent"
      /\ UNCHANGED handlerVars => home'[c] = NoChild /\ run'[c] = "none"
  BY <1>1, <1>4 DEF SendRequest, TypeOK, HandlerTypeOK
<1> HIDE DEF p
<1> QED BY <1>1, <1>2, <1>3, <1>4, <1>5 DEF StartsRun, p

\* Verify joins a run, starts one, or touches nothing but the request.
LEMMA VerifyCases ==
  ASSUME ServerInv, NEW c \in Token, Verify(c)
  PROVE  /\ UNCHANGED <<gone, written, gen, keys, children>>
         /\ \/ /\ StartsRun(c) /\ Audit(c, "RUN-REQUEST")
            \/ \E t \in Token : JoinsRun(c, t) /\ Audit(t, "RECONNECT-REQUEST")
            \/ /\ pc[c] = "keyRead" /\ pc'[c] \in {"thrown", "refused"}
               /\ \A b \in Token : b # c => pc'[b] = pc[b]
               /\ audit' = audit \/ Audit(c, "NOT-VERIFIED")
               /\ server # "down" /\ (server' = server \/ server' = "dying")
               /\ UNCHANGED <<handlerVars, tables, token>>
<1> DEFINE d == DigestOf[c]
<1>1. /\ Waits(c, "keyRead") /\ UNCHANGED <<gone, written, gen, keys, children>>
      /\ server # "down" /\ pc[c] = "keyRead"
  BY DEF Verify, Waits, Serving
<1>2. CASE /\ Await(c, "thrown") /\ Die
           /\ UNCHANGED <<handlerVars, tables, token, audit>>
  BY <1>1, <1>2 DEF Await, ServerInv, TypeOK, Die
<1>3. CASE Refuse(c) /\ UNCHANGED <<handlerVars, tables, token, server>>
  BY <1>1, <1>3 DEF Refuse, Await, ServerInv, TypeOK
<1>4. CASE /\ emitters[d] = NoToken /\ Await(c, "attached")
           /\ CreateEmitter(c, d) /\ SendToChild(c) /\ UNCHANGED token
           /\ Audit(c, "RUN-REQUEST")
  BY <1>1, <1>4, StartStep
<1>5. CASE /\ emitters[d] # NoToken /\ Await(c, "attached")
           /\ token' = [token EXCEPT ![c] = tokens[d]]
           /\ Audit(tokens[d], "RECONNECT-REQUEST")
           /\ Listen(c, emitters[d])
           /\ UNCHANGED <<handlerVars, emitters, tokens, digests, server>>
  <2>1. PICK t \in Token : JoinsRun(c, t)
    BY <1>1, <1>5, JoinStep
  <2>2. t = tokens[d]
    BY <2>1 DEF JoinsRun
  <2> QED BY <1>1, <1>5, <2>1, <2>2
<1> QED BY <1>1, <1>2, <1>3, <1>4, <1>5 DEF Verify

\* Joining a run keeps the invariant.
LEMMA JoinInv ==
  ASSUME ServerInv, NEW c \in Token, NEW t \in Token, JoinsRun(c, t)
  PROVE  LinkInv'
<1> USE DEF ServerInv, LinkInv, JoinsRun, handlerVars
<1>1. t \in listeners[t] /\ digests[t] # NoToken
  BY ServerAssumption DEF EntryIsOwn
<1>2. TablesAgree' /\ EntryIsOwn'
  BY <1>1 DEF TablesAgree, EntryIsOwn
<1>3. OwnOutputOnly'
  <2>1. \A s \in Token : \A b \in listeners'[s] :
          \/ b # c /\ b \in Token /\ b \in listeners[s]
          \/ b = c /\ s = t
    BY DEF TypeOK
  <2>2. \A s \in Token : \A b \in listeners'[s] :
          token'[b] = s /\ DigestOf[b] = DigestOf[s] /\ pc'[b] = "attached"
    BY <2>1 DEF OwnOutputOnly
  <2> QED BY <2>2 DEF OwnOutputOnly
<1>4. UnsentIsIdle' /\ RunHasEntry'
  BY DEF UnsentIsIdle, RunHasEntry
<1>5. EndAfterCleanup'
  BY DEF EndAfterCleanup, About, IsEnd
<1>6. NotVerifiedNotSent'
  BY DEF NotVerifiedNotSent
<1>7. ParentIsCurrent'
  BY DEF ParentIsCurrent, Current
<1> QED BY <1>2, <1>3, <1>4, <1>5, <1>6, <1>7 DEF LinkInv

\* So does starting one.
LEMMA StartInv ==
  ASSUME ServerInv, NEW c \in Token, server # "down", StartsRun(c)
  PROVE  LinkInv'
<1> USE ServerAssumption DEF ServerInv, LinkInv, StartsRun
<1> DEFINE d == DigestOf[c]
           p == ProcessOf(UserOf[d])
<1>1. d \in Digest
  OBVIOUS
<1>2. /\ p \in User \X {gen} /\ p \in Child /\ gen \in 0..MaxRestarts
      /\ p[1] = UserOf[d] /\ p[2] = gen
  BY <1>1 DEF ProcessOf, TypeOK
<1>3. /\ SendRequest(c, p) \/ UNCHANGED handlerVars
      /\ \/ home'[c] = p /\ run'[c] = "sent" /\ server' = server
         \/ home'[c] = NoChild /\ run'[c] = "none" /\ server' = "dying"
  OBVIOUS
<1> HIDE DEF p
<1>4. UnsentIsIdle' /\ EndAfterCleanup'
  <2>1. CASE SendRequest(c, p)
    BY <1>2, <2>1, SendRequestCleanup DEF TypeOK, CleanupInv
  <2>2. CASE UNCHANGED handlerVars
    BY <2>2 DEF UnsentIsIdle, EndAfterCleanup, About, IsEnd, handlerVars
  <2> QED BY <1>3, <2>1, <2>2
<1>5. TablesAgree'
  <2>1. \A e \in Digest : emitters'[e] = tokens'[e]
    BY DEF TablesAgree
  <2>2. \A e \in Digest, t \in Token : tokens'[e] = t <=> digests'[t] = e
    BY <1>1 DEF TablesAgree
  <2>3. \A t \in Token :
          /\ emitters'[t] = IF digests'[t] = NoToken THEN NoToken ELSE t
          /\ listeners'[t] # {} <=> digests'[t] # NoToken
    BY <1>1 DEF TablesAgree
  <2> QED BY <2>1, <2>2, <2>3 DEF TablesAgree
<1>6. EntryIsOwn'
  BY DEF EntryIsOwn
<1>7. OwnOutputOnly'
  <2>1. \A t \in Token : \A b \in listeners'[t] :
          token'[b] = t /\ DigestOf[b] = DigestOf[t] /\ pc'[b] = "attached"
    <3>1. \A t \in Token : \A b \in listeners'[t] :
            \/ b # c /\ b \in Token /\ b \in listeners[t]
            \/ b = c /\ t = c
      BY DEF TypeOK
    <3> QED BY <3>1 DEF OwnOutputOnly
  <2>2. \A t \in Token : home'[t] \in Child => home'[t][1] = UserOf[DigestOf[t]]
    BY <1>2, <1>3, HandlerAssumption DEF OwnOutputOnly
  <2> QED BY <2>1, <2>2 DEF OwnOutputOnly
<1>8. RunHasEntry'
  BY <1>1 DEF RunHasEntry
<1>9. NotVerifiedNotSent'
  BY DEF NotVerifiedNotSent
<1>10. ParentIsCurrent'
  BY <1>2, <1>3, HandlerAssumption DEF ParentIsCurrent, Current
<1> QED BY <1>4, <1>5, <1>6, <1>7, <1>8, <1>9, <1>10

\* And so does every other outcome of Verify.
LEMMA VerifyInv ==
  ASSUME ServerInv, NEW c \in Token, Verify(c)
  PROVE  LinkInv'
<1>1. server # "down" /\ UNCHANGED gen
  BY DEF Verify, Waits, Serving
<1>2. CASE StartsRun(c)
  BY <1>1, <1>2, StartInv
<1>3. ASSUME NEW t \in Token, JoinsRun(c, t) PROVE LinkInv'
  BY <1>3, JoinInv
<1>4. CASE /\ pc[c] = "keyRead" /\ pc'[c] \in {"thrown", "refused"}
           /\ \A b \in Token : b # c => pc'[b] = pc[b]
           /\ server' = server \/ server' = "dying"
           /\ UNCHANGED <<handlerVars, tables, token>>
  BY <1>1, <1>4, QuietRequestInv
<1> QED BY <1>2, <1>3, <1>4, VerifyCases

\* The message at the head of a channel is about a request of that process; a
\* REQUEST_END is about a run that is over.
LEMMA HeadIsAbout ==
  ASSUME ServerInv, NEW p \in Child, NEW type, NextMessage(p, type)
  PROVE  LET m == Head(channel[p])
         IN /\ m \in Message /\ m.type = type /\ m.token \in Token
            /\ 1 \in About(p, m.token) /\ channel[p][1] = m
            /\ home[m.token] = p
            /\ type = "REQUEST_END" =>
                 /\ run[m.token] = "ended"
                 /\ dir[m.token] \in {"removed", "stuck"}
<1> DEFINE m == Head(channel[p])
<1>1. m \in Message /\ m.type = type
  BY NextMessageType DEF ServerInv, TypeOK
<1>2. m.token \in Token
  BY <1>1 DEF Message
<1>3. 1 \in DOMAIN channel[p] /\ channel[p][1] = m
  BY ReceiveShifts DEF NextMessage, ServerInv, TypeOK
<1>4. 1 \in About(p, m.token)
  BY <1>3 DEF About
<1> HIDE DEF m
<1> QED
  BY <1>1, <1>2, <1>3, <1>4
     DEF ServerInv, LinkInv, EndAfterCleanup, IsEnd, m

\* Reading a message leaves the rest of what the processes know.
LEMMA NextMessageKeeps ==
  ASSUME ServerInv, NEW p \in Child, NEW type, NextMessage(p, type)
  PROVE  /\ UnsentIsIdle' /\ EndAfterCleanup'
         /\ UNCHANGED <<home, run, dir, produced, connected>>
BY ReceiveCleanup DEF NextMessage, ServerInv, LinkInv, CleanupInv, TypeOK

LEMMA HandleOutputInv ==
  ASSUME ServerInv, NEW p \in Child, HandleOutput(p)
  PROVE  LinkInv'
<1> USE DEF ServerInv, LinkInv
<1>1. /\ NextMessage(p, "OUTPUT")
      /\ UNCHANGED <<tables, pc, token, gen>>
      /\ server # "down" /\ (server' = server \/ server' = "dying")
  BY DEF HandleOutput, NextMessage, Die, Serving
<1>2. /\ UnsentIsIdle' /\ EndAfterCleanup'
      /\ UNCHANGED <<home, run, dir, connected>>
  BY <1>1, NextMessageKeeps
<1>3. TablesAgree' /\ EntryIsOwn' /\ OwnOutputOnly' /\ RunHasEntry'
  BY <1>1, <1>2
     DEF TablesAgree, EntryIsOwn, OwnOutputOnly, RunHasEntry, tables
<1>4. NotVerifiedNotSent' /\ ParentIsCurrent'
  BY <1>1, <1>2 DEF NotVerifiedNotSent, ParentIsCurrent, Current
<1> QED BY <1>2, <1>3, <1>4

\* What the four deletes leave.
LEMMA Forgotten ==
  ASSUME ServerInv, NEW t \in Token, emitters[t] # NoToken,
         Forget(t, emitters[t])
  PROVE  LET d == digests[t]
         IN /\ d \in Digest /\ d = DigestOf[t] /\ tokens[d] = t
            /\ emitters[t] = t /\ t \in listeners[t]
            /\ \A s \in Token :
                 /\ digests'[s] = IF s = t THEN NoToken ELSE digests[s]
                 /\ listeners'[s] = IF s = t THEN {} ELSE listeners[s]
                 /\ emitters'[s] = IF s = t THEN NoToken ELSE emitters[s]
            /\ \A x \in Digest :
                 /\ tokens'[x] = IF x = d THEN NoToken ELSE tokens[x]
                 /\ emitters'[x] = IF x = d THEN NoToken ELSE emitters[x]
<1> USE ServerAssumption DEF ServerInv, LinkInv
<1>1. PICK d \in Digest :
        /\ d = digests[t] /\ tokens[d] = t /\ emitters[t] = t
        /\ t \notin Digest /\ d \notin Token
  BY DEF TablesAgree, TypeOK
<1>2. d = DigestOf[t] /\ t \in listeners[t]
  BY <1>1 DEF EntryIsOwn
<1>3. /\ \A s \in Token :
           /\ digests'[s] = IF s = t THEN NoToken ELSE digests[s]
           /\ listeners'[s] = IF s = t THEN {} ELSE listeners[s]
           /\ emitters'[s] = IF s = t THEN NoToken ELSE emitters[s]
      /\ \A x \in Digest :
           /\ tokens'[x] = IF x = d THEN NoToken ELSE tokens[x]
           /\ emitters'[x] = IF x = d THEN NoToken ELSE emitters[x]
  BY <1>1 DEF Forget, TypeOK
<1> QED BY <1>1, <1>2, <1>3

\* The end of a run takes its entries away, and no run that goes on needs them.
LEMMA HandleEndInv ==
  ASSUME ServerInv, NEW p \in Child, HandleEnd(p)
  PROVE  LinkInv'
<1> USE ServerAssumption DEF ServerInv, LinkInv
<1> DEFINE m == Head(channel[p])
           e == emitters[m.token]
<1>1. /\ NextMessage(p, "REQUEST_END")
      /\ UNCHANGED <<token, gen>>
      /\ server # "down" /\ (server' = server \/ server' = "dying")
  BY DEF HandleEnd, NextMessage, Die, Serving
<1>2. /\ UnsentIsIdle' /\ EndAfterCleanup'
      /\ UNCHANGED <<home, run, dir, connected>>
  BY <1>1, NextMessageKeeps
<1>3. ParentIsCurrent'
  BY <1>1, <1>2 DEF ParentIsCurrent, Current
<1>4. CASE UNCHANGED <<tables, pc>>
  <2>1. TablesAgree' /\ EntryIsOwn' /\ OwnOutputOnly' /\ RunHasEntry'
    BY <1>1, <1>2, <1>4
       DEF TablesAgree, EntryIsOwn, OwnOutputOnly, RunHasEntry, tables
  <2> QED BY <1>1, <1>2, <1>3, <1>4, <2>1 DEF NotVerifiedNotSent
<1>5. CASE /\ e # NoToken /\ Forget(m.token, e)
           /\ pc' = [c \in Token |->
                       IF c \in listeners[e] THEN "ended" ELSE pc[c]]
  <2>1. PICK t \in Token : t = m.token /\ run[t] = "ended"
    BY <1>1, HeadIsAbout
  <2>2. PICK d \in Digest :
          /\ d = digests[t] /\ tokens[d] = t /\ e = t
          /\ \A s \in Token :
               /\ digests'[s] = IF s = t THEN NoToken ELSE digests[s]
               /\ listeners'[s] = IF s = t THEN {} ELSE listeners[s]
               /\ emitters'[s] = IF s = t THEN NoToken ELSE emitters[s]
          /\ \A x \in Digest :
               /\ tokens'[x] = IF x = d THEN NoToken ELSE tokens[x]
               /\ emitters'[x] = IF x = d THEN NoToken ELSE emitters[x]
    BY <1>5, <2>1, Forgotten
  <2> HIDE DEF m, e
  <2>3. TablesAgree'
    <3>1. \A x \in Digest : emitters'[x] = tokens'[x]
      BY <2>2 DEF TablesAgree
    <3>2. \A x \in Digest, s \in Token : tokens'[x] = s <=> digests'[s] = x
      BY <2>1, <2>2 DEF TablesAgree
    <3>3. \A s \in Token :
            /\ emitters'[s] = IF digests'[s] = NoToken THEN NoToken ELSE s
            /\ listeners'[s] # {} <=> digests'[s] # NoToken
      BY <2>2 DEF TablesAgree
    <3> QED BY <3>1, <3>2, <3>3 DEF TablesAgree
  <2>4. EntryIsOwn'
    BY <2>2 DEF EntryIsOwn
  <2>5. OwnOutputOnly'
    <3>1. \A s \in Token : \A b \in listeners'[s] :
            /\ s # t /\ b \in listeners[s] /\ b \in Token
            /\ b \notin listeners[t]
      BY <2>1, <2>2 DEF OwnOutputOnly, TypeOK
    <3>2. \A s \in Token : \A b \in listeners'[s] :
            pc'[b] = "attached" /\ token'[b] = token[b]
      BY <1>1, <1>5, <2>2, <3>1 DEF OwnOutputOnly
    <3> QED BY <1>2, <3>1, <3>2 DEF OwnOutputOnly
  <2>6. RunHasEntry'
    BY <1>2, <2>1, <2>2 DEF RunHasEntry
  <2>7. NotVerifiedNotSent'
    BY <1>1, <1>2, <1>5 DEF NotVerifiedNotSent, TypeOK
  <2> QED BY <1>2, <1>3, <2>3, <2>4, <2>5, <2>6, <2>7
<1> QED BY <1>4, <1>5 DEF HandleEnd

\* The callbacks of the handler processes.
LEMMA HandlersInv ==
  ASSUME ServerInv, Handlers
  PROVE  LinkInv'
<1> USE DEF ServerInv, LinkInv
<1>1. /\ ChildNext /\ HandlerTypeOK
      /\ UNCHANGED <<tables, pc, token, server, gen>>
  BY DEF Handlers, TypeOK, requestVars, serverVars
<1>2. /\ EndAfterCleanup' /\ UNCHANGED <<home, connected>>
      /\ \A s \in Token : /\ run[s] = "ended" => run'[s] = "ended"
                          /\ run'[s] = "none" <=> run[s] = "none"
  BY <1>1, ChildNextCleanup
<1>3. UnsentIsIdle'
  BY <1>1, ChildNextHome
<1>4. TablesAgree' /\ EntryIsOwn' /\ OwnOutputOnly' /\ ParentIsCurrent'
  BY <1>1, <1>2
     DEF TablesAgree, EntryIsOwn, OwnOutputOnly, ParentIsCurrent, Current, tables
<1>5. RunHasEntry' /\ NotVerifiedNotSent'
  BY <1>1, <1>2 DEF RunHasEntry, NotVerifiedNotSent, tables
<1> QED BY <1>2, <1>3, <1>4, <1>5

\* The server goes down and nobody reports to it any more; it comes up again
\* under a new incarnation, to which no earlier process reports.
LEMMA LifeInv ==
  ASSUME ServerInv,
         \/ \E p \in Child : ChildDied(p)
         \/ Dies \/ Stop \/ Restart \/ MoveKey
  PROVE  LinkInv'
<1> USE DEF ServerInv, LinkInv
<1>1. CASE (\E p \in Child : ChildDied(p)) \/ MoveKey
  <2>1. /\ UNCHANGED <<home, run, dir, produced, connected, channel, tables>>
        /\ UNCHANGED <<gen, pc, token>>
        /\ server' = server \/ (server # "down" /\ server' = "dying")
    BY <1>1 DEF ChildDied, MoveKey, Die, handlerVars, requestVars
  <2>2. OwnOutputOnly' /\ NotVerifiedNotSent' /\ ParentIsCurrent'
    BY <2>1 DEF OwnOutputOnly, NotVerifiedNotSent, ParentIsCurrent, Current, tables
  <2> QED BY <2>1, <2>2, TablesFrame
<1>2. CASE Dies \/ Stop
  <2>1. Exit
    BY <1>2 DEF Dies, Stop
  <2>2. /\ UNCHANGED <<home, run, dir, produced, recipeLog, child, gen>>
        /\ Disconnect(Current) /\ HandlerTypeOK
    BY <2>1 DEF Exit, TypeOK
  <2>3. connected' = {}
    BY <2>2 DEF Disconnect, ParentIsCurrent
  <2>4. UnsentIsIdle' /\ EndAfterCleanup'
    BY <2>2, DisconnectCleanup DEF CleanupInv
  <2>5. RunHasEntry' /\ ParentIsCurrent'
    BY <2>2, <2>3 DEF RunHasEntry, ParentIsCurrent, Current
  <2>6. /\ emitters' = NoEntry(Token \cup Digest) /\ tokens' = NoEntry(Digest)
        /\ digests' = NoEntry(Token) /\ listeners' = Nobody
    BY <2>1 DEF Exit
  <2>7. TablesAgree' /\ EntryIsOwn'
    BY <2>6, ServerAssumption DEF TablesAgree, EntryIsOwn, NoEntry, Nobody
  <2>8. OwnOutputOnly'
    BY <2>2, <2>6 DEF OwnOutputOnly, Nobody
  <2>9. NotVerifiedNotSent'
    BY <2>1, <2>2 DEF NotVerifiedNotSent, Exit, TypeOK
  <2> QED BY <2>4, <2>5, <2>7, <2>8, <2>9
<1>3. CASE Restart
  <2>1. /\ UNCHANGED <<home, run, dir, produced, channel, tables, pc, token>>
        /\ connected = {} /\ connected' = keys \X {gen + 1}
        /\ gen' = gen + 1 /\ server' = "up" /\ keys \subseteq User
        /\ gen \in Nat
    BY <1>3 DEF Restart, requestVars, ParentIsCurrent, TypeOK
  <2>2. connected' \subseteq Child
    BY <1>3, <2>1, ServerAssumption DEF Restart, TypeOK
  <2>3. \A t \in Token : home'[t] \notin connected'
    <3> SUFFICES ASSUME NEW t \in Token, home[t] \in connected' PROVE FALSE
      BY <2>1
    <3>1. home[t][2] = gen + 1 /\ home[t][2] <= gen
      BY <2>1, <2>2 DEF ParentIsCurrent
    <3> QED BY <2>1, <3>1
  <2>4. RunHasEntry'
    BY <2>3 DEF RunHasEntry
  <2>5. UnsentIsIdle' /\ EndAfterCleanup'
    BY <2>1 DEF UnsentIsIdle, EndAfterCleanup, About, IsEnd
  <2>6. TablesAgree' /\ EntryIsOwn' /\ OwnOutputOnly' /\ NotVerifiedNotSent'
    BY <2>1 DEF TablesAgree, EntryIsOwn, OwnOutputOnly, NotVerifiedNotSent, tables
  <2>7. ParentIsCurrent'
    <3>1. \A t \in Token : home'[t] \in Child => home'[t][2] <= gen'
      <4> SUFFICES ASSUME NEW t \in Token, home[t] \in Child
                   PROVE  home[t][2] <= gen + 1
        BY <2>1
      <4>1. home[t][2] <= gen /\ home[t][2] \in Nat
        BY ServerAssumption DEF ParentIsCurrent
      <4> QED BY <2>1, <4>1
    <3> QED BY <2>1, <3>1 DEF ParentIsCurrent, Current
  <2> QED BY <2>4, <2>5, <2>6, <2>7
<1> QED BY <1>1, <1>2, <1>3

-----------------------------------------------------------------------------
(* What holds in every reachable state.                                    *)

LEMMA ServerInvInit == Init => ServerInv
<1> SUFFICES ASSUME Init PROVE ServerInv
  OBVIOUS
<1> USE ServerAssumption, HandlerAssumption DEF Init, Idle
<1>1. HandlerTypeOK
  BY DEF HandlerTypeOK, Phase
<1>2. TypeOK
  BY <1>1, FS_EmptySet DEF TypeOK, NoEntry, Nobody
<1>3. UnsentIsIdle /\ EndAfterCleanup
  BY DEF UnsentIsIdle, EndAfterCleanup, About
<1>4. TablesAgree /\ EntryIsOwn /\ OwnOutputOnly
  BY DEF TablesAgree, EntryIsOwn, OwnOutputOnly, NoEntry, Nobody
<1>5. \A t \in Token : home[t] \notin connected /\ home[t] \notin Child
  BY <1>1 DEF HandlerTypeOK
<1>6. RunHasEntry
  BY <1>5 DEF RunHasEntry
<1>7. NotVerifiedNotSent
  BY DEF NotVerifiedNotSent
<1>8. ParentIsCurrent
  BY <1>5 DEF ParentIsCurrent, Current
<1> QED BY <1>2, <1>3, <1>4, <1>6, <1>7, <1>8 DEF ServerInv, LinkInv

LEMMA ServerInvNext ==
  ASSUME ServerInv, [Next]_vars
  PROVE  ServerInv'
<1>1. ASSUME NEW c \in Token,
             Request(c) \/ RecipeStat(c) \/ KeyStat(c) \/ ClientGone(c)
      PROVE  ServerInv'
  BY <1>1, RequestType, RequestInv DEF ServerInv
<1>2. ASSUME NEW c \in Token, Verify(c) PROVE ServerInv'
  BY <1>2, VerifyType, VerifyInv DEF ServerInv, LinkInv
<1>3. ASSUME NEW p \in Child, HandleOutput(p) PROVE ServerInv'
  BY <1>3, HandleOutputType, HandleOutputInv DEF ServerInv
<1>4. ASSUME NEW p \in Child, HandleEnd(p) PROVE ServerInv'
  BY <1>4, HandleEndType, HandleEndInv DEF ServerInv
<1>5. CASE \/ \E p \in Child : ChildDied(p)
           \/ Dies \/ Stop \/ Restart \/ MoveKey
  BY <1>5, LifeType, LifeInv DEF ServerInv
<1>6. CASE Handlers
  BY <1>6, LifeType, HandlersInv DEF ServerInv
<1>7. CASE UNCHANGED vars
  <2>1. TypeOK'
    BY <1>7
       DEF ServerInv, TypeOK, HandlerTypeOK, vars, handlerVars, tables,
           requestVars, serverVars
  <2>2. UNCHANGED <<home, run, dir, produced, connected, channel, tables>>
    BY <1>7 DEF vars, handlerVars
  <2>3. OwnOutputOnly' /\ NotVerifiedNotSent' /\ ParentIsCurrent'
    BY <1>7, <2>2
       DEF ServerInv, LinkInv, OwnOutputOnly, NotVerifiedNotSent,
           ParentIsCurrent, Current, vars, tables, requestVars, serverVars
  <2> QED BY <2>1, <2>2, <2>3, TablesFrame DEF ServerInv, LinkInv
<1> QED BY <1>1, <1>2, <1>3, <1>4, <1>5, <1>6, <1>7 DEF Next

LEMMA ServerInvariant == Spec => []ServerInv
BY ServerInvInit, ServerInvNext, PTL DEF Spec

\* The server and its processes keep their types.
THEOREM TypeCorrect == Spec => []TypeOK
<1>1. ServerInv => TypeOK
  BY DEF ServerInv
<1> QED BY <1>1, ServerInvariant, PTL

\* The four tables always describe the same runs.
THEOREM TablesAlwaysAgree == Spec => []TablesAgree
<1>1. ServerInv => TablesAgree
  BY DEF ServerInv, LinkInv
<1> QED BY <1>1, ServerInvariant, PTL

\* A signature never has two runs under way for one server.
THEOREM OneRunPerSignature == Spec => []SingleFlight
<1>1. ASSUME ServerInv PROVE SingleFlight
  <2> SUFFICES ASSUME NEW s \in Attended, NEW t \in Attended,
                      run[s] \in Working, run[t] \in Working,
                      DigestOf[s] = DigestOf[t]
               PROVE  s = t
    BY DEF SingleFlight
  <2>1. s \in Token /\ t \in Token /\ run[s] # "ended" /\ run[t] # "ended"
    BY DEF Attended, Working
  <2>2. digests[s] = DigestOf[s] /\ digests[t] = DigestOf[s]
    BY <1>1, <2>1 DEF ServerInv, LinkInv, RunHasEntry, EntryIsOwn, Attended
  <2>3. tokens[DigestOf[s]] = s /\ tokens[DigestOf[s]] = t
    BY <1>1, <2>1, <2>2, ServerAssumption DEF ServerInv, LinkInv, TablesAgree
  <2> QED BY <2>3
<1> QED BY <1>1, ServerInvariant, PTL

\* Nobody is shown the output of a run of another signature, and every run is
\* in the process of the user whose key verified it.
THEOREM NobodyElsesOutput == Spec => []OwnOutputOnly
<1>1. ServerInv => OwnOutputOnly
  BY DEF ServerInv, LinkInv
<1> QED BY <1>1, ServerInvariant, PTL

-----------------------------------------------------------------------------
(* The messages on their way, where 'exit' waits for the pipes.            *)

\* The server still has to hear of the end of t: its process reports to the
\* server, and its chain is not over or the REQUEST_END is on its way.
Pending(t) ==
  /\ home[t] \in connected
  /\ run[t] = "ended" => \E i \in About(home[t], t) : IsEnd(home[t], i)

\* The tables have an entry for every run the server still has to hear of ...
PendingHasEntry == \A t \in Token : Pending(t) => digests[t] # NoToken

\* ... and every message is about such a run: output precedes REQUEST_END.
MessageIsPending ==
  \A t \in Token :
    home[t] \in connected /\ About(home[t], t) # {} => Pending(t)

MessagesInv == EndIsLast /\ PendingHasEntry /\ MessageIsPending

\* A step that leaves processes and messages alone, and forgets no run.
LEMMA MessagesFrame ==
  ASSUME MessagesInv, UNCHANGED <<home, run, connected, channel, digests>>
  PROVE  MessagesInv'
<1>1. EndIsLast'
  BY DEF MessagesInv, EndIsLast, About, IsEnd
<1>2. PendingHasEntry' /\ MessageIsPending'
  BY DEF MessagesInv, PendingHasEntry, MessageIsPending, Pending, About, IsEnd
<1> QED BY <1>1, <1>2 DEF MessagesInv

\* A request starts a run: the entry is made before anything is sent.
LEMMA VerifyMessages ==
  ASSUME ServerInv, MessagesInv, NEW c \in Token, Verify(c)
  PROVE  MessagesInv'
<1>1. CASE UNCHANGED <<handlerVars, digests>>
  BY <1>1, MessagesFrame DEF handlerVars
<1>2. CASE StartsRun(c)
  <2> USE <1>2 DEF MessagesInv, StartsRun
  <2>1. /\ UNCHANGED <<connected, channel>>
        /\ \A t \in Token : t # c => home'[t] = home[t] /\ run'[t] = run[t]
        /\ run'[c] \in {"sent", "none"}
    OBVIOUS
  <2>2. /\ digests'[c] # NoToken
        /\ \A t \in Token : t # c => digests'[t] = digests[t]
    BY ServerAssumption
  <2>3. PendingHasEntry'
    BY <2>1, <2>2 DEF PendingHasEntry, Pending, About, IsEnd
  <2>4. MessageIsPending'
    BY <2>1 DEF MessageIsPending, Pending, About, IsEnd
  <2>5. EndIsLast'
    BY <2>1 DEF EndIsLast, About, IsEnd
  <2> QED BY <2>3, <2>4, <2>5
<1> QED BY <1>1, <1>2, VerifyCases DEF tables, JoinsRun

\* Reading a message leaves fewer pending runs, and what it leaves of a run
\* whose REQUEST_END was not the message is still pending.
LEMMA NextMessagePending ==
  ASSUME ServerInv, MessagesInv, NEW p \in Child, NEW type,
         NextMessage(p, type)
  PROVE  /\ EndIsLast'
         /\ \A t \in Token : Pending(t)' => Pending(t)
         /\ MessageIsPending'
<1> USE DEF ServerInv, LinkInv, MessagesInv
<1>1. Receive(p) /\ UNCHANGED <<home, run, dir, connected>>
  BY DEF NextMessage
<1>2. HandlerTypeOK
  BY DEF TypeOK
<1>3. EndIsLast'
  BY <1>1, <1>2, ReceiveEndLast
<1>4. ASSUME NEW t \in Token, NEW i \in About(home[t], t)', home[t] \in Child
      PROVE  \/ home[t] # p /\ About(home[t], t) = About(home[t], t)'
                            /\ channel'[home[t]] = channel[home[t]]
             \/ /\ home[t] = p
                /\ i + 1 \in About(p, t) /\ i \in Nat
                /\ channel'[p][i] = channel[p][i + 1]
  BY <1>1, <1>2, <1>4, ReceiveShifts DEF About
<1>5. ASSUME NEW t \in Token, Pending(t)' PROVE Pending(t)
  <2>1. home[t] \in connected /\ home[t] \in Child
    BY <1>1, <1>2, <1>5 DEF Pending, HandlerTypeOK
  <2>2. CASE run[t] = "ended"
    <3>1. PICK i \in About(home[t], t)' : IsEnd(home[t], i)'
      BY <1>1, <1>5, <2>2 DEF Pending
    <3>2. \E j \in About(home[t], t) : IsEnd(home[t], j)
      BY <1>1, <1>4, <2>1, <3>1 DEF IsEnd
    <3> QED BY <2>1, <3>2 DEF Pending
  <2> QED BY <2>1, <2>2 DEF Pending
<1>6. MessageIsPending'
  <2> SUFFICES ASSUME NEW t \in Token, home[t] \in connected,
                      NEW i \in About(home[t], t)', run[t] = "ended"
               PROVE  \E k \in About(home[t], t)' : IsEnd(home[t], k)'
    BY <1>1 DEF MessageIsPending, Pending
  <2>1. home[t] \in Child
    BY <1>2 DEF HandlerTypeOK
  <2>2. CASE home[t] # p
    BY <1>1, <1>4, <2>1, <2>2 DEF MessageIsPending, Pending, IsEnd
  <2>3. CASE home[t] = p
    <3>1. i + 1 \in About(p, t) /\ i \in Nat /\ i \in DOMAIN channel'[p]
      BY <1>1, <1>4, <2>1, <2>3 DEF About
    <3>2. PICK j \in About(p, t) : IsEnd(p, j)
      BY <2>3, <3>1 DEF MessageIsPending, Pending
    <3>3. i + 1 <= j
      BY <3>1, <3>2 DEF EndIsLast
    <3>4. j \in DOMAIN channel[p] /\ j \in Nat \ {0} /\ i \in Nat \ {0}
      BY <1>1, <1>2, <3>1, <3>2, ReceiveShifts DEF About, HandlerTypeOK, Receive
    <3>5. j - 1 \in DOMAIN channel'[p] /\ channel'[p][j - 1] = channel[p][j]
      <4>1. j > 1 /\ (j - 1) + 1 = j
        BY <3>3, <3>4
      <4>2. j - 1 \in DOMAIN channel'[p]
        BY <1>1, <1>2, <3>4, <4>1, ReceiveShifts
      <4>3. channel'[p][j - 1] = channel[p][(j - 1) + 1]
        BY <1>1, <1>2, <4>2, ReceiveShifts
      <4> QED BY <4>1, <4>2, <4>3
    <3> QED BY <1>1, <2>3, <3>2, <3>5 DEF About, IsEnd
  <2> QED BY <2>2, <2>3
<1> QED BY <1>3, <1>5, <1>6

\* The end of a run takes its entries away, and nothing that is still pending
\* needs them.
LEMMA HandleEndMessages ==
  ASSUME ServerInv, MessagesInv, NEW p \in Child, HandleEnd(p)
  PROVE  MessagesInv'
<1> USE DEF MessagesInv
<1>1. NextMessage(p, "REQUEST_END")
  BY DEF HandleEnd
<1>2. /\ EndIsLast' /\ MessageIsPending'
      /\ \A s \in Token : Pending(s)' => Pending(s)
  BY <1>1, NextMessagePending
<1>3. PICK t \in Token :
        /\ t = Head(channel[p]).token /\ 1 \in About(p, t) /\ IsEnd(p, 1)
        /\ home[t] = p /\ run[t] = "ended"
  BY <1>1, HeadIsAbout DEF IsEnd
<1>4. ~Pending(t)'
  <2>1. HandlerTypeOK /\ Receive(p)
    BY <1>1 DEF NextMessage, ServerInv, TypeOK
  <2>2. ASSUME NEW i \in About(p, t)' PROVE FALSE
    <3>1. i + 1 \in About(p, t) /\ i \in Nat /\ i \in DOMAIN channel'[p]
      BY <2>1, ReceiveShifts DEF About
    <3>2. i + 1 <= 1
      BY <1>3, <3>1 DEF EndIsLast, HandlerTypeOK
    <3>3. i \in Nat \ {0}
      BY <2>1, <3>1 DEF Receive, HandlerTypeOK
    <3> QED BY <3>2, <3>3
  <2>3. home'[t] = p /\ run'[t] = "ended"
    BY <1>1, <1>3 DEF NextMessage
  <2> QED BY <2>2, <2>3 DEF Pending
<1>5. \A s \in Token : s # t => digests'[s] = digests[s]
  BY <1>3 DEF HandleEnd, Forget, tables, ServerInv, TypeOK
<1>6. PendingHasEntry'
  BY <1>2, <1>4, <1>5 DEF PendingHasEntry
<1> QED BY <1>2, <1>6

\* The callbacks of the handler processes: a run that is over stays silent.
LEMMA HandlersMessages ==
  ASSUME ExitWaitsForStdio, ServerInv, MessagesInv, Handlers
  PROVE  MessagesInv'
<1> USE DEF ServerInv, LinkInv, MessagesInv
<1>1. /\ ChildNext /\ HandlerTypeOK /\ UNCHANGED digests
  BY DEF Handlers, TypeOK, tables
<1>2. home' = home /\ connected' = connected
  BY <1>1, ChildNextCleanup
<1>3. EndIsLast'
  BY <1>1, ChildNextEndLast
<1>4. ASSUME NEW s \in Token, home[s] \in connected
      PROVE  /\ Pending(s)' => Pending(s)
             /\ About(home[s], s)' # {} => Pending(s)'
  <2>1. home[s] \in Child
    BY <1>1, <1>4 DEF HandlerTypeOK
  <2>2. CASE run[s] = "ended"
    <3>1. /\ run'[s] = "ended" /\ About(home[s], s)' = About(home[s], s)
          /\ \A i \in About(home[s], s) : IsEnd(home[s], i)' <=> IsEnd(home[s], i)
      BY <1>1, <1>2, <2>1, <2>2, ChildNextEnds DEF IsEnd
    <3> QED BY <1>2, <1>4, <2>2, <3>1 DEF Pending, MessageIsPending
  <2>3. CASE run[s] # "ended"
    <3>1. Pending(s)
      BY <1>4, <2>3 DEF Pending
    <3>2. Pending(s)'
      BY <1>1, <1>2, <1>4, <2>3, ChildNextEnds DEF Pending, IsEnd
    <3> QED BY <3>1, <3>2
  <2> QED BY <2>2, <2>3
<1>5. PendingHasEntry' /\ MessageIsPending'
  BY <1>1, <1>2, <1>4 DEF PendingHasEntry, MessageIsPending, Pending
<1> QED BY <1>3, <1>5

\* No process reports to a server that has gone, nor to its successor.
LEMMA LifeMessages ==
  ASSUME ServerInv, MessagesInv, Dies \/ Stop \/ Restart
  PROVE  MessagesInv'
<1> USE DEF ServerInv, LinkInv, MessagesInv
<1>1. CASE Dies \/ Stop
  <2>1. /\ Disconnect(Current)
        /\ UNCHANGED <<home, run, dir, produced, recipeLog, child>>
    BY <1>1 DEF Dies, Stop, Exit
  <2>2. connected' = {}
    BY <2>1 DEF Disconnect, ParentIsCurrent
  <2>3. EndIsLast'
    BY <2>1, DisconnectCleanup DEF CleanupInv, TypeOK
  <2> QED BY <2>2, <2>3 DEF PendingHasEntry, MessageIsPending, Pending
<1>2. CASE Restart
  <2>0. gen \in Nat /\ gen + 1 \in 0..MaxRestarts
    BY <1>2, ServerAssumption DEF Restart, TypeOK
  <2>1. /\ UNCHANGED <<home, channel>>
        /\ connected' = keys \X {gen + 1} /\ keys \subseteq User
    BY <1>2 DEF Restart, ParentIsCurrent, TypeOK
  <2>2. \A t \in Token : home'[t] \notin connected'
    <3> SUFFICES ASSUME NEW t \in Token, home[t] \in connected' PROVE FALSE
      BY <2>1
    <3>1. home[t] \in Child /\ home[t][2] = gen + 1
      BY <2>0, <2>1, ServerAssumption
    <3> QED BY <2>0, <3>1 DEF ParentIsCurrent
  <2>3. EndIsLast'
    BY <2>1 DEF EndIsLast, About, IsEnd
  <2> QED BY <2>2, <2>3 DEF PendingHasEntry, MessageIsPending, Pending
<1> QED BY <1>1, <1>2

LEMMA MessagesInvariant ==
  ASSUME ExitWaitsForStdio
  PROVE  Spec => []MessagesInv
<1>1. Init => MessagesInv
  <2> SUFFICES ASSUME Init PROVE MessagesInv
    OBVIOUS
  <2>1. EndIsLast
    BY DEF Init, Idle, EndIsLast, About
  <2>2. \A t \in Token : home[t] \notin connected
    BY ServerInvInit, HandlerAssumption
       DEF Init, Idle, ServerInv, TypeOK, HandlerTypeOK
  <2> QED
    BY <2>1, <2>2 DEF MessagesInv, PendingHasEntry, MessageIsPending, Pending
<1>2. ASSUME ServerInv, MessagesInv, [Next]_vars PROVE MessagesInv'
  <2>1. CASE UNCHANGED <<home, run, connected, channel, digests>>
    BY <1>2, <2>1, MessagesFrame
  <2>2. ASSUME NEW c \in Token, Verify(c) PROVE MessagesInv'
    BY <1>2, <2>2, VerifyMessages
  <2>3. ASSUME NEW p \in Child, HandleOutput(p) PROVE MessagesInv'
    BY <1>2, <2>3, NextMessagePending
       DEF HandleOutput, tables, MessagesInv, PendingHasEntry
  <2>4. ASSUME NEW p \in Child, HandleEnd(p) PROVE MessagesInv'
    BY <1>2, <2>4, HandleEndMessages
  <2>5. CASE Handlers
    BY <1>2, <2>5, HandlersMessages
  <2>6. CASE Dies \/ Stop \/ Restart
    BY <1>2, <2>6, LifeMessages
  <2>7. ASSUME NEW c \in Token,
               Request(c) \/ RecipeStat(c) \/ KeyStat(c) \/ ClientGone(c)
        PROVE  UNCHANGED <<home, run, connected, channel, digests>>
    BY <2>7 DEF Request, RecipeStat, KeyStat, ClientGone, handlerVars, tables
  <2>8. ASSUME (\E p \in Child : ChildDied(p)) \/ MoveKey \/ UNCHANGED vars
        PROVE  UNCHANGED <<home, run, connected, channel, digests>>
    BY <2>8 DEF ChildDied, MoveKey, vars, handlerVars, tables
  <2> QED
    BY <1>2, <2>1, <2>2, <2>3, <2>4, <2>5, <2>6, <2>7, <2>8 DEF Next
<1> QED BY <1>1, <1>2, ServerInvariant, PTL DEF Spec

\* The server never meets a message whose emitter it has forgotten: the
\* unchecked lookups of MessageHandler do not throw.
THEOREM NoStrayMessage ==
  ASSUME ExitWaitsForStdio
  PROVE  Spec => []EveryMessageHasEmitter
<1>1. ASSUME ServerInv, MessagesInv PROVE EveryMessageHasEmitter
  <2> USE <1>1 DEF ServerInv, LinkInv, MessagesInv
  <2> SUFFICES ASSUME NEW p \in connected, NEW i \in DOMAIN channel[p]
               PROVE  emitters[channel[p][i].token] = channel[p][i].token
    BY DEF EveryMessageHasEmitter
  <2>1. p \in Child /\ channel[p] \in Seq(Message)
    BY DEF TypeOK, HandlerTypeOK
  <2>2. PICK t \in Token : t = channel[p][i].token
    BY <2>1 DEF Message
  <2>3. i \in About(p, t)
    BY <2>2 DEF About
  <2>4. home[t] = p
    BY <2>1, <2>3 DEF EndAfterCleanup
  <2>5. digests[t] # NoToken
    BY <2>3, <2>4 DEF MessageIsPending, PendingHasEntry
  <2> QED BY <2>2, <2>5 DEF TablesAgree
<1> QED BY <1>1, ServerInvariant, MessagesInvariant, PTL
=============================================================================

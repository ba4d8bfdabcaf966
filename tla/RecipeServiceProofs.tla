-------------------------- MODULE RecipeServiceProofs --------------------------
(***************************************************************************)
(* What the clients and the auditors of the audit server see: the answers, *)
(* the audit log, the output and the service of RecipeService, for any     *)
(* requests, users, restarts and amount of output.                         *)
(***************************************************************************)
EXTENDS AuditServerProofs

-----------------------------------------------------------------------------
(* The steps of the server, as far as requests and tables go.              *)

Unverified == {"new", "recipeStat", "keyStat", "keyRead"}

\* A request goes on to its next callback, is refused or throws.
GoesOn(c) ==
  /\ pc[c] \in Unverified
  /\ pc'[c] \in {"recipeStat", "keyStat", "keyRead", "thrown", "refused"}
  /\ \A b \in Token : b # c => pc'[b] = pc[b] /\ token'[b] = token[b]
  /\ audit' = audit \/ Audit(c, "NOT-VERIFIED")
  /\ UNCHANGED <<handlerVars, tables, written, gen, children>>

\* A message is read, and the server throws over it.
Loses(p) ==
  /\ \/ NextMessage(p, "OUTPUT") /\ listeners[Head(channel[p]).token] = {}
     \/ NextMessage(p, "REQUEST_END")
  /\ UNCHANGED <<tables, pc, token, written, audit, gen, children>>

\* A chunk of the run of t is written to its listeners.
Delivers(p, t) ==
  /\ NextMessage(p, "OUTPUT")
  /\ t = Head(channel[p]).token /\ home[t] = p
  /\ digests[t] \in Digest /\ DigestOf[t] = digests[t] /\ tokens[digests[t]] = t
  /\ Head(channel[p]).n \in 1..MaxChunks
  /\ written' = [c \in Token |-> IF c \in listeners[t]
                                 THEN Append(written[c], Head(channel[p]).n)
                                 ELSE written[c]]
  /\ UNCHANGED <<tables, pc, token, audit, gen, children>>

\* The run of t is over, and so are the responses to its listeners.
Answers(p, t) ==
  /\ NextMessage(p, "REQUEST_END")
  /\ t = Head(channel[p]).token /\ home[t] = p
  /\ 1 \in About(p, t) /\ IsEnd(p, 1)
  /\ run[t] = "ended" /\ dir[t] \in {"removed", "stuck"}
  /\ digests[t] \in Digest /\ DigestOf[t] = digests[t] /\ tokens[digests[t]] = t
  /\ pc' = [c \in Token |-> IF c \in listeners[t] THEN "ended" ELSE pc[c]]
  /\ \A s \in Token : /\ digests'[s] = IF s = t THEN NoToken ELSE digests[s]
                      /\ listeners'[s] = IF s = t THEN {} ELSE listeners[s]
  /\ \A x \in Digest : tokens'[x] = IF x = digests[t] THEN NoToken ELSE tokens[x]
  /\ Finished(t, t)
  /\ UNCHANGED <<token, written, gen, children>>

\* The server is idle, as far as requests go: a client leaves, a process is
\* seen to have died, a key is moved, the server comes up.
Idles ==
  /\ UNCHANGED <<home, run, dir, produced, channel, tables, pc, token, written>>
  /\ audit' = audit \/ \E t \in Token : Audit(t, "DISCONNECT-REQUEST")
  /\ \/ UNCHANGED <<connected, gen, children>>
     \/ Restart

LEMMA RequestCases ==
  ASSUME ServerInv, NEW c \in Token,
         Request(c) \/ RecipeStat(c) \/ KeyStat(c) \/ ClientGone(c)
  PROVE  GoesOn(c) \/ Idles
<1>1. CASE ClientGone(c)
  <2>1. token[c] # NoToken => token[c] \in Token
    BY DEF ServerInv, TypeOK
  <2> QED BY <1>1, <2>1 DEF ClientGone, Idles, handlerVars, serverVars
<1>2. CASE Request(c) \/ RecipeStat(c) \/ KeyStat(c)
  <2>1. /\ pc[c] \in Unverified
        /\ pc'[c] \in {"recipeStat", "keyStat", "keyRead", "thrown", "refused"}
        /\ \A b \in Token : b # c => pc'[b] = pc[b] /\ token'[b] = token[b]
    BY <1>2 DEF Request, RecipeStat, KeyStat, Refuse, Await, Waits, Unverified,
                ServerInv, TypeOK
  <2>2. /\ audit' = audit \/ Audit(c, "NOT-VERIFIED")
        /\ UNCHANGED <<handlerVars, tables, written, gen, children>>
    BY <1>2 DEF Request, RecipeStat, KeyStat, Refuse, serverVars
  <2> QED BY <2>1, <2>2 DEF GoesOn
<1> QED BY <1>1, <1>2

LEMMA OutputCases ==
  ASSUME ServerInv, NEW p \in Child, HandleOutput(p)
  PROVE  Loses(p) \/ \E t \in Token : Delivers(p, t)
<1> DEFINE m == Head(channel[p])
<1>1. /\ NextMessage(p, "OUTPUT")
      /\ UNCHANGED <<tables, pc, token, audit, gen, children>>
  BY DEF HandleOutput
<1>2. m \in Message /\ m.type = "OUTPUT" /\ m.token \in Token /\ home[m.token] = p
  BY <1>1, HeadIsAbout
<1>3. m.n \in 1..MaxChunks
  BY <1>2 DEF Message
<1>4. CASE emitters[m.token] = NoToken /\ UNCHANGED written
  <2>1. listeners[m.token] = {}
    BY <1>2, <1>4, ServerAssumption DEF ServerInv, LinkInv, TablesAgree
  <2> QED BY <1>1, <1>4, <2>1 DEF Loses
<1>5. CASE /\ emitters[m.token] # NoToken
           /\ written' = [c \in Token |-> IF c \in listeners[emitters[m.token]]
                                          THEN Append(written[c], m.n)
                                          ELSE written[c]]
  <2>1. /\ emitters[m.token] = m.token /\ digests[m.token] \in Digest
        /\ tokens[digests[m.token]] = m.token
    BY <1>2, <1>5 DEF ServerInv, LinkInv, TablesAgree, TypeOK
  <2>2. DigestOf[m.token] = digests[m.token]
    BY <1>2, <2>1, ServerAssumption DEF ServerInv, LinkInv, EntryIsOwn
  <2> QED BY <1>1, <1>2, <1>3, <1>5, <2>1, <2>2 DEF Delivers
<1> QED BY <1>4, <1>5 DEF HandleOutput

LEMMA EndCases ==
  ASSUME ServerInv, NEW p \in Child, HandleEnd(p)
  PROVE  Loses(p) \/ \E t \in Token : Answers(p, t)
<1> DEFINE m == Head(channel[p])
           e == emitters[m.token]
<1>1. /\ NextMessage(p, "REQUEST_END")
      /\ UNCHANGED <<token, written, gen, children>>
  BY DEF HandleEnd
<1>2. CASE UNCHANGED <<tables, pc, audit>>
  BY <1>1, <1>2 DEF Loses
<1>3. CASE /\ e # NoToken /\ Forget(m.token, e) /\ Finished(m.token, e)
           /\ pc' = [c \in Token |->
                       IF c \in listeners[e] THEN "ended" ELSE pc[c]]
  <2>1. PICK t \in Token :
          /\ t = m.token /\ home[t] = p
          /\ 1 \in About(p, t) /\ channel[p][1].type = "REQUEST_END"
          /\ run[t] = "ended" /\ dir[t] \in {"removed", "stuck"}
    BY <1>1, HeadIsAbout
  <2> HIDE DEF m
  <2>2. /\ digests[t] \in Digest /\ DigestOf[t] = digests[t]
        /\ tokens[digests[t]] = t /\ e = t
        /\ \A s \in Token :
             /\ digests'[s] = IF s = t THEN NoToken ELSE digests[s]
             /\ listeners'[s] = IF s = t THEN {} ELSE listeners[s]
        /\ \A x \in Digest :
             tokens'[x] = IF x = digests[t] THEN NoToken ELSE tokens[x]
    BY <1>3, <2>1, Forgotten
  <2> HIDE DEF e
  <2> QED BY <1>1, <1>3, <2>1, <2>2 DEF Answers, IsEnd, m
<1> QED BY <1>2, <1>3 DEF HandleEnd

\* Every step of the server is one of these.
LEMMA NextCases ==
  ASSUME ServerInv, [Next]_vars
  PROVE  \/ \E c \in Token : GoesOn(c)
         \/ \E c \in Token : /\ StartsRun(c) /\ Audit(c, "RUN-REQUEST")
                             /\ UNCHANGED <<written, children>>
         \/ \E c, t \in Token : /\ JoinsRun(c, t)
                                /\ Audit(t, "RECONNECT-REQUEST")
                                /\ UNCHANGED <<written, children>>
         \/ \E p \in Child : Loses(p)
         \/ \E p \in Child, t \in Token : Delivers(p, t) \/ Answers(p, t)
         \/ Exit
         \/ Handlers
         \/ Idles
<1>1. ASSUME NEW c \in Token, Verify(c)
      PROVE  \/ GoesOn(c)
             \/ /\ StartsRun(c) /\ Audit(c, "RUN-REQUEST")
                /\ UNCHANGED <<written, children>>
             \/ \E t \in Token : /\ JoinsRun(c, t)
                                 /\ Audit(t, "RECONNECT-REQUEST")
                                 /\ UNCHANGED <<written, children>>
  BY <1>1, VerifyCases DEF GoesOn, Unverified
<1>2. CASE (\E p \in Child : ChildDied(p)) \/ Restart \/ MoveKey \/ UNCHANGED vars
  BY <1>2 DEF ChildDied, Restart, MoveKey, Idles, vars, handlerVars,
              requestVars, serverVars
<1>3. CASE Dies \/ Stop
  BY <1>3 DEF Dies, Stop
<1> QED
  BY <1>1, <1>2, <1>3, RequestCases, OutputCases, EndCases DEF Next

-----------------------------------------------------------------------------
(* The responses.                                                          *)

\* A response that is attached is among the listeners of its run; one that is
\* ended has the token of a run that is over; a request that is not verified
\* has been sent nothing.
AttachedListens ==
  \A c \in Token :
    pc[c] = "attached" => token[c] \in Token /\ c \in listeners[token[c]]

EndedHasRun == \A c \in Token : pc[c] = "ended" => token[c] \in Token

UnverifiedIsEmpty == \A c \in Token : pc[c] \in Unverified => written[c] = <<>>

ResponsesInv ==
  AttachedListens /\ EndedHasRun /\ EndedAfterCleanup /\ UnverifiedIsEmpty

\* Steps that change no response, no listener and no run that is over.
LEMMA ResponsesFrame ==
  ASSUME ResponsesInv, UNCHANGED <<pc, token, listeners, written>>,
         \A t \in Token :
           run[t] = "ended" => run'[t] = "ended" /\ dir'[t] = dir[t]
  PROVE  ResponsesInv'
BY DEF ResponsesInv, AttachedListens, EndedHasRun, EndedAfterCleanup,
       UnverifiedIsEmpty

\* A request that is verified, or is not: it becomes attached as a listener.
LEMMA VerifiedResponses ==
  ASSUME ServerInv, ResponsesInv, NEW c \in Token,
         \/ GoesOn(c)
         \/ StartsRun(c) /\ UNCHANGED written
         \/ \E t \in Token : JoinsRun(c, t) /\ UNCHANGED written
  PROVE  ResponsesInv'
<1> USE DEF ResponsesInv, AttachedListens, EndedHasRun, EndedAfterCleanup,
            UnverifiedIsEmpty
<1>1. CASE GoesOn(c)
  <2>1. /\ UNCHANGED <<run, dir, listeners, written>>
        /\ \A b \in Token : b # c => pc'[b] = pc[b] /\ token'[b] = token[b]
        /\ pc'[c] \notin {"attached", "ended"}
        /\ pc'[c] \in Unverified => pc[c] \in Unverified
    BY <1>1 DEF GoesOn, handlerVars, tables, Unverified
  <2> QED BY <2>1
<1>2. CASE StartsRun(c) /\ UNCHANGED written
  <2>1. /\ token[c] = c /\ listeners[c] = {} /\ run[c] = "none"
        /\ UNCHANGED <<token, dir, written>>
        /\ \A b \in Token :
             /\ pc'[b] = IF b = c THEN "attached" ELSE pc[b]
             /\ listeners'[b] = IF b = c THEN {c} ELSE listeners[b]
             /\ b # c => run'[b] = run[b]
    BY <1>2 DEF StartsRun, ServerInv, LinkInv, TablesAgree
  <2>2. AttachedListens' /\ EndedHasRun' /\ EndedAfterCleanup'
    BY <2>1
  <2>3. UnverifiedIsEmpty'
    BY <2>1 DEF Unverified
  <2> QED BY <2>2, <2>3
<1>3. ASSUME NEW t \in Token, JoinsRun(c, t) /\ UNCHANGED written
      PROVE  ResponsesInv'
  <2>1. /\ UNCHANGED <<run, dir, written>>
        /\ \A b \in Token :
             /\ pc'[b] = IF b = c THEN "attached" ELSE pc[b]
             /\ token'[b] = IF b = c THEN t ELSE token[b]
             /\ listeners'[b] = IF b = t THEN listeners[t] \cup {c}
                                         ELSE listeners[b]
    BY <1>3 DEF JoinsRun, handlerVars
  <2>2. AttachedListens' /\ EndedHasRun' /\ EndedAfterCleanup'
    BY <2>1
  <2>3. UnverifiedIsEmpty'
    BY <2>1 DEF Unverified
  <2> QED BY <2>2, <2>3
<1> QED BY <1>1, <1>2, <1>3

\* A message reaches the responses of its own run only.
LEMMA MessageResponses ==
  ASSUME ServerInv, ResponsesInv, NEW p \in Child, NEW t \in Token,
         Delivers(p, t) \/ Answers(p, t)
  PROVE  ResponsesInv'
<1> USE DEF ResponsesInv, AttachedListens, EndedHasRun, EndedAfterCleanup,
            UnverifiedIsEmpty
<1>1. UNCHANGED <<run, dir, token>>
  BY DEF Delivers, Answers, NextMessage
<1>2. \A c \in listeners[t] : c \in Token /\ token[c] = t /\ pc[c] = "attached"
  BY DEF ServerInv, LinkInv, OwnOutputOnly, TypeOK
<1>3. CASE Delivers(p, t)
  <2>1. /\ UNCHANGED <<pc, listeners>>
        /\ \A c \in Token : c \notin listeners[t] => written'[c] = written[c]
    BY <1>3 DEF Delivers, tables
  <2>2. UnverifiedIsEmpty'
    BY <1>2, <2>1 DEF Unverified
  <2> QED BY <1>1, <2>1, <2>2
<1>4. CASE Answers(p, t)
  <2>1. /\ run[t] = "ended" /\ dir[t] \in {"removed", "stuck"}
        /\ written' = written
        /\ \A c \in Token :
             /\ pc'[c] = IF c \in listeners[t] THEN "ended" ELSE pc[c]
             /\ listeners'[c] = IF c = t THEN {} ELSE listeners[c]
    BY <1>4 DEF Answers
  <2>2. AttachedListens' /\ EndedHasRun' /\ EndedAfterCleanup'
    BY <1>1, <1>2, <2>1
  <2>3. UnverifiedIsEmpty'
    BY <2>1 DEF Unverified
  <2> QED BY <2>2, <2>3
<1> QED BY <1>3, <1>4

LEMMA ResponsesNext ==
  ASSUME ServerInv, ResponsesInv, [Next]_vars
  PROVE  ResponsesInv'
<1>1. ASSUME NEW p \in Child, Loses(p) PROVE ResponsesInv'
  BY <1>1, ResponsesFrame DEF Loses, NextMessage, tables
<1>2. CASE Handlers
  BY <1>2, ResponsesFrame, ChildNextCleanup
     DEF Handlers, ServerInv, LinkInv, TypeOK, tables, requestVars
<1>3. CASE Idles
  BY <1>3, ResponsesFrame DEF Idles, tables
<1>4. CASE Exit
  <2>1. /\ UNCHANGED <<run, dir, token, written>>
        /\ \A c \in Token :
             pc'[c] # "attached" /\ (pc'[c] = "reset" \/ pc'[c] = pc[c])
    BY <1>4 DEF Exit, Open
  <2> QED BY <2>1 DEF ResponsesInv, AttachedListens, EndedHasRun,
                      EndedAfterCleanup, UnverifiedIsEmpty, Unverified
<1> QED
  BY <1>1, <1>2, <1>3, <1>4, VerifiedResponses, MessageResponses, NextCases

LEMMA ResponsesInvariant == Spec => []ResponsesInv
<1>1. Init => ResponsesInv
  BY DEF Init, ResponsesInv, AttachedListens, EndedHasRun, EndedAfterCleanup,
         UnverifiedIsEmpty
<1> QED BY <1>1, ResponsesNext, ServerInvariant, PTL DEF Spec

\* No response is ended before the shell of its run has exited and its sandbox
\* is removed, or beyond rimraf: neither a reconnection nor a second run of
\* the signature after a restart ends it early.
THEOREM EndedMeansCleanedUp == Spec => []EndedAfterCleanup
<1>1. ResponsesInv => EndedAfterCleanup
  BY DEF ResponsesInv
<1> QED BY <1>1, ResponsesInvariant, PTL

-----------------------------------------------------------------------------
(* The audit log.                                                          *)

\* A run in a process has its RUN-REQUEST record, and no request has two; a
\* request that is not verified has none.
RunIsAudited ==
  \A t \in Token :
    /\ run[t] # "none" => audit[t]["RUN-REQUEST"] = 1
    /\ audit[t]["RUN-REQUEST"] <= 1
    /\ pc[t] \in Unverified => audit[t]["RUN-REQUEST"] = 0

\* A run in the tables has no FINISHED record yet, and one listener for the
\* request that started it and for every reconnection; after the end of a run
\* the records account for all of them.
EndIsAudited ==
  \A t \in Token :
    /\ pc[t] \in Unverified =>
         audit[t]["RECONNECT-REQUEST"] = 0 /\ audit[t]["FINISHED"] = 0
    /\ digests[t] # NoToken =>
         /\ audit[t]["FINISHED"] = 0
         /\ Cardinality(listeners[t]) = 1 + audit[t]["RECONNECT-REQUEST"]
    /\ audit[t]["FINISHED"] > 0 =>
         /\ run[t] = "ended"
         /\ audit[t]["FINISHED"] = 1 + audit[t]["RECONNECT-REQUEST"]

AuditInv == RunIsAudited /\ EndIsAudited

\* What one more record leaves, record by record.
LEMMA Counted ==
  ASSUME audit \in [Token -> [Record -> Nat]],
         NEW t \in Token, NEW r \in Record, NEW n \in Nat,
         audit' = [audit EXCEPT ![t][r] = @ + n]
  PROVE  \A s \in Token, x \in Record :
           /\ audit[s][x] \in Nat
           /\ audit'[s][x] = IF s = t /\ x = r THEN audit[s][x] + n
                                               ELSE audit[s][x]
OBVIOUS

LEMMA CountedOne ==
  ASSUME ServerInv, NEW t \in Token, NEW r \in Record, Audit(t, r)
  PROVE  \A s \in Token, x \in Record :
           /\ audit[s][x] \in Nat
           /\ audit'[s][x] = IF s = t /\ x = r THEN audit[s][x] + 1
                                               ELSE audit[s][x]
BY Counted DEF ServerInv, TypeOK, Audit

\* Steps that change none of the records in question.
LEMMA AuditFrame ==
  ASSUME TypeOK, AuditInv, UNCHANGED <<digests, listeners>>,
         \/ audit' = audit
         \/ \E t \in Token, r \in {"NOT-VERIFIED", "DISCONNECT-REQUEST"} :
              Audit(t, r),
         \A t \in Token : /\ run'[t] = "none" <=> run[t] = "none"
                          /\ run[t] = "ended" => run'[t] = "ended"
                          /\ pc'[t] \in Unverified => pc[t] \in Unverified
  PROVE  AuditInv'
<1>1. \A t \in Token : \A x \in {"RUN-REQUEST", "RECONNECT-REQUEST", "FINISHED"} :
        audit'[t][x] = audit[t][x]
  <2>1. ASSUME NEW t \in Token, NEW r \in {"NOT-VERIFIED", "DISCONNECT-REQUEST"},
               Audit(t, r)
        PROVE  \A s \in Token :
                 \A x \in {"RUN-REQUEST", "RECONNECT-REQUEST", "FINISHED"} :
                   audit'[s][x] = audit[s][x]
    <3>1. r \in Record /\ audit' = [audit EXCEPT ![t][r] = @ + 1]
      BY <2>1 DEF Record, Audit
    <3>2. \A s \in Token, x \in Record :
            ~(s = t /\ x = r) => audit'[s][x] = audit[s][x]
      BY <3>1, Counted DEF TypeOK
    <3> QED BY <3>2 DEF Record
  <2> QED BY <2>1
<1>2. RunIsAudited'
  BY <1>1 DEF AuditInv, RunIsAudited
<1>3. EndIsAudited'
  BY <1>1 DEF AuditInv, EndIsAudited
<1> QED BY <1>2, <1>3 DEF AuditInv

\* A run is started: one record, one listener.
LEMMA StartAudited ==
  ASSUME ServerInv, AuditInv, NEW c \in Token,
         StartsRun(c), Audit(c, "RUN-REQUEST")
  PROVE  AuditInv'
<1>1. \A s \in Token, x \in Record :
        /\ audit[s][x] \in Nat
        /\ audit'[s][x] = IF s = c /\ x = "RUN-REQUEST" THEN audit[s][x] + 1
                                                        ELSE audit[s][x]
  BY CountedOne DEF Record
<1>2. /\ pc[c] \in Unverified
      /\ \A s \in Token :
           /\ pc'[s] = IF s = c THEN "attached" ELSE pc[s]
           /\ listeners'[s] = IF s = c THEN {c} ELSE listeners[s]
           /\ s # c => run'[s] = run[s] /\ digests'[s] = digests[s]
      /\ run'[c] \in {"none", "sent"}
  BY DEF StartsRun, Unverified
<1>3. RunIsAudited'
  BY <1>1, <1>2 DEF AuditInv, RunIsAudited, Record, Unverified
<1>4. EndIsAudited'
  <2>1. Cardinality({c}) = 1
    BY FS_Singleton
  <2>2. /\ audit'[c]["FINISHED"] = 0 /\ audit'[c]["RECONNECT-REQUEST"] = 0
        /\ pc'[c] \notin Unverified /\ Cardinality(listeners'[c]) = 1
    BY <1>1, <1>2, <2>1 DEF AuditInv, EndIsAudited, Record, Unverified
  <2>3. \A s \in Token : s # c =>
          /\ audit'[s]["FINISHED"] = audit[s]["FINISHED"]
          /\ audit'[s]["RECONNECT-REQUEST"] = audit[s]["RECONNECT-REQUEST"]
          /\ pc'[s] = pc[s] /\ run'[s] = run[s]
          /\ digests'[s] = digests[s] /\ listeners'[s] = listeners[s]
    BY <1>1, <1>2 DEF Record
  <2> QED BY <2>2, <2>3 DEF AuditInv, EndIsAudited
<1> QED BY <1>3, <1>4 DEF AuditInv

\* A run is joined: one record and one more listener.
LEMMA JoinAudited ==
  ASSUME ServerInv, AuditInv, NEW c \in Token, NEW t \in Token,
         JoinsRun(c, t), Audit(t, "RECONNECT-REQUEST")
  PROVE  AuditInv'
<1>1. \A s \in Token, x \in Record :
        /\ audit[s][x] \in Nat
        /\ audit'[s][x] =
             IF s = t /\ x = "RECONNECT-REQUEST" THEN audit[s][x] + 1
                                                 ELSE audit[s][x]
  BY CountedOne DEF Record
<1>2. /\ digests[t] # NoToken /\ c \notin listeners[t]
      /\ UNCHANGED <<run, digests>>
      /\ \A s \in Token :
           /\ pc'[s] = IF s = c THEN "attached" ELSE pc[s]
           /\ listeners'[s] = IF s = t THEN listeners[t] \cup {c}
                                       ELSE listeners[s]
  <2>1. DigestOf[c] # NoToken
    BY ServerAssumption
  <2> QED BY <2>1 DEF JoinsRun, handlerVars
<1>3. RunIsAudited'
  BY <1>1, <1>2 DEF AuditInv, RunIsAudited, Record, Unverified
<1>4. EndIsAudited'
  <2>1. pc[t] = "attached"
    BY <1>2 DEF ServerInv, LinkInv, EntryIsOwn, OwnOutputOnly
  <2>2. /\ IsFiniteSet(listeners[t]) /\ Cardinality(listeners[t]) \in Nat
        /\ Cardinality(listeners'[t]) = Cardinality(listeners[t]) + 1
    BY <1>2, FS_AddElement, FS_CardinalityType DEF ServerInv, TypeOK
  <2>3. /\ audit'[t]["FINISHED"] = 0 /\ pc'[t] \notin Unverified
        /\ Cardinality(listeners'[t]) = 1 + audit'[t]["RECONNECT-REQUEST"]
    <3>1. audit'[t]["RECONNECT-REQUEST"] = audit[t]["RECONNECT-REQUEST"] + 1
      BY <1>1 DEF Record
    <3>2. audit[t]["RECONNECT-REQUEST"] \in Nat
      BY <1>1 DEF Record
    <3>3. /\ audit[t]["FINISHED"] = 0 /\ audit'[t]["FINISHED"] = 0
          /\ Cardinality(listeners[t]) = 1 + audit[t]["RECONNECT-REQUEST"]
      BY <1>1, <1>2 DEF AuditInv, EndIsAudited, Record
    <3> QED BY <1>2, <2>1, <2>2, <3>1, <3>2, <3>3 DEF Unverified
  <2>4. \A s \in Token : s # t =>
          /\ audit'[s]["FINISHED"] = audit[s]["FINISHED"]
          /\ audit'[s]["RECONNECT-REQUEST"] = audit[s]["RECONNECT-REQUEST"]
          /\ listeners'[s] = listeners[s]
          /\ pc'[s] \in Unverified => pc[s] \in Unverified
    BY <1>1, <1>2 DEF Record, Unverified
  <2> QED BY <1>2, <2>3, <2>4 DEF AuditInv, EndIsAudited
<1> QED BY <1>3, <1>4 DEF AuditInv

\* A run is answered: a record for each of its listeners.
LEMMA AnswersAudited ==
  ASSUME ServerInv, AuditInv, NEW p \in Child, NEW t \in Token, Answers(p, t)
  PROVE  AuditInv'
<1> DEFINE n == Cardinality(listeners[t])
<1>1. /\ n \in Nat /\ digests[t] # NoToken /\ run[t] = "ended" /\ run' = run
      /\ n = 1 + audit[t]["RECONNECT-REQUEST"] /\ audit[t]["FINISHED"] = 0
  BY ServerAssumption, FS_CardinalityType
     DEF Answers, NextMessage, ServerInv, TypeOK, AuditInv, EndIsAudited
<1>2. \A s \in Token, x \in Record :
        /\ audit[s][x] \in Nat
        /\ audit'[s][x] = IF s = t /\ x = "FINISHED" THEN audit[s][x] + n
                                                     ELSE audit[s][x]
  <2>1. audit' = [audit EXCEPT ![t]["FINISHED"] = @ + n]
    BY DEF Answers, Finished
  <2> HIDE DEF n
  <2> QED BY <1>1, <2>1, Counted DEF ServerInv, TypeOK, Record
<1> HIDE DEF n
<1>3. \A s \in Token :
        /\ pc'[s] \in Unverified => pc[s] \in Unverified
        /\ digests'[s] = IF s = t THEN NoToken ELSE digests[s]
        /\ s # t => listeners'[s] = listeners[s]
  BY DEF Answers, Unverified
<1>4. RunIsAudited'
  BY <1>1, <1>2, <1>3 DEF AuditInv, RunIsAudited, Record
<1>5. EndIsAudited'
  <2>1. /\ audit'[t]["FINISHED"] = 1 + audit'[t]["RECONNECT-REQUEST"]
        /\ digests'[t] = NoToken /\ run'[t] = "ended"
    BY <1>1, <1>2, <1>3 DEF Record
  <2>2. pc'[t] \notin Unverified
    <3>1. pc[t] = "attached"
      BY <1>1 DEF ServerInv, LinkInv, EntryIsOwn, OwnOutputOnly
    <3> QED BY <1>3, <3>1 DEF Unverified
  <2>3. \A s \in Token : s # t =>
          /\ audit'[s]["FINISHED"] = audit[s]["FINISHED"]
          /\ audit'[s]["RECONNECT-REQUEST"] = audit[s]["RECONNECT-REQUEST"]
          /\ listeners'[s] = listeners[s] /\ digests'[s] = digests[s]
          /\ pc'[s] \in Unverified => pc[s] \in Unverified
    BY <1>2, <1>3 DEF Record
  <2> QED BY <1>1, <2>1, <2>2, <2>3 DEF AuditInv, EndIsAudited
<1> QED BY <1>4, <1>5 DEF AuditInv

LEMMA AuditNext ==
  ASSUME ServerInv, AuditInv, [Next]_vars
  PROVE  AuditInv'
<1> USE DEF ServerInv
<1>1. ASSUME NEW c \in Token, GoesOn(c) PROVE AuditInv'
  <2>1. \A t \in Token : pc'[t] \in Unverified => pc[t] \in Unverified
    BY <1>1 DEF GoesOn, Unverified
  <2> QED BY <1>1, <2>1, AuditFrame DEF GoesOn, handlerVars, tables
<1>2. ASSUME NEW p \in Child, Loses(p) \/ \E t \in Token : Delivers(p, t)
      PROVE  AuditInv'
  BY <1>2, AuditFrame DEF Loses, Delivers, NextMessage, tables
<1>3. CASE Handlers
  BY <1>3, AuditFrame, ChildNextCleanup
     DEF Handlers, LinkInv, TypeOK, tables, requestVars
<1>4. CASE Idles
  BY <1>4, AuditFrame DEF Idles, tables
<1>5. CASE Exit
  <2>1. /\ UNCHANGED <<run, audit>>
        /\ \A t \in Token : /\ digests'[t] = NoToken
                            /\ pc'[t] \in Unverified => pc[t] \in Unverified
    BY <1>5 DEF Exit, NoEntry, Open, Unverified
  <2> QED BY <2>1 DEF AuditInv, RunIsAudited, EndIsAudited
<1> QED
  BY <1>1, <1>2, <1>3, <1>4, <1>5, StartAudited, JoinAudited, AnswersAudited,
     NextCases

LEMMA AuditInvariant == Spec => []AuditInv
<1>1. Init => AuditInv
  BY DEF Init, Idle, AuditInv, RunIsAudited, EndIsAudited, Record, NoEntry
<1> QED BY <1>1, AuditNext, ServerInvariant, PTL DEF Spec

\* The audit log accounts for every run, and for every response to it, however
\* the server and its processes end.
THEOREM AuditTrailHolds == Spec => []AuditTrail
<1>1. AuditInv => AuditTrail
  BY DEF AuditInv, RunIsAudited, EndIsAudited, AuditTrail
<1> QED BY <1>1, AuditInvariant, PTL

-----------------------------------------------------------------------------
(* The server implements RecipeService, step by step.                      *)

\* What a request looks like from outside depends on its callback alone.
LEMMA StatusIs ==
  ASSUME NEW c \in Token
  PROVE  /\ ClientStatus(c) = "attached" <=> pc[c] = "attached"
         /\ ClientStatus(c) = "asking" <=>
              pc[c] \notin {"attached", "ended", "refused", "reset"}
         /\ pc'[c] = pc[c] => ClientStatus(c)' = ClientStatus(c)
         /\ pc'[c] = "attached" => ClientStatus(c)' = "attached"
         /\ pc'[c] = "ended" => ClientStatus(c)' = "answered"
         /\ pc'[c] = "refused" => ClientStatus(c)' = "refused"
         /\ pc'[c] = "reset" => ClientStatus(c)' = "lost"
         /\ pc'[c] \in {"new", "recipeStat", "keyStat", "keyRead", "thrown"} =>
              ClientStatus(c)' = "asking"
BY DEF ClientStatus

\* The requests that follow the run of a signature are the listeners of the
\* emitter that the tables lead to.
LEMMA FollowersListen ==
  ASSUME ServerInv, ResponsesInv, NEW t \in Token,
         digests[t] \in Digest, tokens[digests[t]] = t
  PROVE  Service!Followers(digests[t]) = listeners[t]
<1> DEFINE status == [c \in Token |-> ClientStatus(c)]
           d == digests[t]
<1>1. DigestOf[t] = d
  BY ServerAssumption DEF ServerInv, LinkInv, EntryIsOwn
<1>2. ASSUME NEW c \in listeners[t]
      PROVE  c \in Token /\ pc[c] = "attached" /\ DigestOf[c] = d
  BY <1>1 DEF ServerInv, LinkInv, OwnOutputOnly, TypeOK
<1>3. ASSUME NEW c \in Token, pc[c] = "attached", DigestOf[c] = d
      PROVE  c \in listeners[t]
  <2>1. PICK s \in Token : s = token[c] /\ c \in listeners[s]
    BY <1>3 DEF ResponsesInv, AttachedListens
  <2>2. DigestOf[s] = d /\ digests[s] # NoToken
    BY <1>3, <2>1 DEF ServerInv, LinkInv, OwnOutputOnly, TablesAgree
  <2>3. digests[s] = d
    BY <2>2 DEF ServerInv, LinkInv, EntryIsOwn
  <2>4. s = t
    BY <2>3 DEF ServerInv, LinkInv, TablesAgree
  <2> QED BY <2>1, <2>4
<1>4. \A c \in Token : status[c] = "attached" <=> pc[c] = "attached"
  BY StatusIs
<1> HIDE DEF status, d
<1>5. {c \in Token : status[c] = "attached" /\ DigestOf[c] = d} = listeners[t]
  BY <1>2, <1>3, <1>4
<1> QED BY <1>5 DEF Service!Followers, status, d

\* A request is refused, or goes on unseen.
LEMMA GoesOnImplements ==
  ASSUME NEW c \in Token, GoesOn(c)
  PROVE  Service!Reject(c) \/ UNCHANGED Service!serviceVars
<1> DEFINE status == [b \in Token |-> ClientStatus(b)]
<1>1. /\ \A b \in Token : b # c => status'[b] = status[b]
      /\ status[c] = "asking"
      /\ status'[c] \in {"asking", "refused"}
  BY StatusIs DEF GoesOn, Unverified
<1>2. UNCHANGED <<tokens, written>>
  BY DEF GoesOn, tables
<1>3. CASE status'[c] = "asking"
  <2>1. status' = status
    BY <1>1, <1>3
  <2> QED BY <1>2, <2>1 DEF Service!serviceVars
<1>4. CASE status'[c] = "refused"
  <2>1. status' = [status EXCEPT ![c] = "refused"]
    BY <1>1, <1>4
  <2> QED BY <1>1, <1>2, <2>1 DEF Service!Reject
<1> QED BY <1>1, <1>3, <1>4

LEMMA StartImplements ==
  ASSUME ServerInv, TypeOK', NEW c \in Token, StartsRun(c), UNCHANGED written
  PROVE  Service!Start(c)
<1> DEFINE status == [b \in Token |-> ClientStatus(b)]
<1>1. /\ \A b \in Token : b # c => status'[b] = status[b]
      /\ status[c] = "asking" /\ status'[c] = "attached"
  BY StatusIs DEF StartsRun
<1>2. status' = [status EXCEPT ![c] = "attached"]
  BY <1>1
<1>3. tokens' = [tokens EXCEPT ![DigestOf[c]] = c] /\ tokens[DigestOf[c]] = NoToken
  BY DEF StartsRun, ServerInv, TypeOK
<1> QED BY <1>1, <1>2, <1>3 DEF Service!Start

LEMMA JoinImplements ==
  ASSUME NEW c \in Token, NEW t \in Token, JoinsRun(c, t), UNCHANGED written
  PROVE  Service!Join(c)
<1> DEFINE status == [b \in Token |-> ClientStatus(b)]
<1>1. /\ \A b \in Token : b # c => status'[b] = status[b]
      /\ status[c] = "asking" /\ status'[c] = "attached"
  BY StatusIs DEF JoinsRun
<1>2. status' = [status EXCEPT ![c] = "attached"]
  BY <1>1
<1>3. tokens' = tokens /\ tokens[DigestOf[c]] # NoToken
  BY ServerAssumption DEF JoinsRun
<1> QED BY <1>1, <1>2, <1>3 DEF Service!Join

LEMMA DeliverImplements ==
  ASSUME ServerInv, ResponsesInv,
         NEW p \in Child, NEW t \in Token, Delivers(p, t)
  PROVE  Service!Emit(digests[t])
<1> DEFINE n == Head(channel[p]).n
<1>1. /\ digests[t] \in Digest /\ tokens[digests[t]] = t
      /\ n \in 1..MaxChunks /\ t # NoToken
  BY ServerAssumption DEF Delivers
<1>2. written' = [c \in Token |-> IF c \in listeners[t]
                                  THEN Append(written[c], n)
                                  ELSE written[c]]
  BY DEF Delivers
<1>3. Service!Followers(digests[t]) = listeners[t]
  BY <1>1, FollowersListen
<1> HIDE DEF n
<1>4. \A c \in Token : Append(written[c], n) = written[c] \o <<n>>
  BY <1>1 DEF ServerInv, TypeOK
<1>5. written' = [c \in Token |-> IF c \in Service!Followers(digests[t])
                                  THEN written[c] \o <<n>> ELSE written[c]]
  BY <1>2, <1>3, <1>4
<1>6. UNCHANGED <<[c \in Token |-> ClientStatus(c)], tokens>>
  BY DEF Delivers, tables, ClientStatus
<1> QED BY <1>1, <1>5, <1>6 DEF Service!Emit

LEMMA AnswerImplements ==
  ASSUME ServerInv, ResponsesInv, TypeOK',
         NEW p \in Child, NEW t \in Token, Answers(p, t)
  PROVE  Service!Finish(digests[t])
<1> DEFINE status == [c \in Token |-> ClientStatus(c)]
           d == digests[t]
<1>1. /\ d \in Digest /\ tokens[d] = t /\ t # NoToken /\ written' = written
      /\ \A x \in Digest : tokens'[x] = IF x = d THEN NoToken ELSE tokens[x]
      /\ \A c \in Token : pc'[c] = IF c \in listeners[t] THEN "ended" ELSE pc[c]
  BY ServerAssumption DEF Answers
<1>2. Service!Followers(d) = listeners[t]
  BY <1>1, FollowersListen
<1>3. \A c \in Token :
        status'[c] = IF c \in listeners[t] THEN "answered" ELSE status[c]
  BY <1>1, StatusIs
<1>4. tokens' = [tokens EXCEPT ![d] = NoToken]
  BY <1>1 DEF ServerInv, TypeOK
<1> HIDE DEF d
<1>5. status' = [c \in Token |-> IF c \in Service!Followers(d)
                                 THEN "answered" ELSE status[c]]
  BY <1>2, <1>3
<1> QED BY <1>1, <1>4, <1>5 DEF Service!Finish, d

LEMMA ExitImplements ==
  ASSUME Exit, TypeOK
  PROVE  Service!Fail
<1> DEFINE status == [c \in Token |-> ClientStatus(c)]
           early == {c \in Token : pc[c] \in Open \ {"attached"}}
<1>1. \A c \in Token :
        /\ c \in early => status[c] = "asking"
        /\ status'[c] = IF c \in early \/ status[c] = "attached"
                        THEN "lost" ELSE status[c]
  <2>1. \A c \in Token : pc'[c] = IF pc[c] \in Open THEN "reset" ELSE pc[c]
    BY DEF Exit
  <2>2. \A c \in Token : c \in early => status[c] = "asking"
    BY StatusIs DEF Open
  <2>3. \A c \in Token : c \in early \/ status[c] = "attached" <=> pc[c] \in Open
    BY StatusIs DEF Open
  <2> QED BY <2>1, <2>2, <2>3, StatusIs
<1>2. early \in SUBSET {c \in Token : status[c] = "asking"}
  BY <1>1
<1> HIDE DEF early
<1>3. status' = [c \in Token |-> IF c \in early \/ status[c] = "attached"
                                 THEN "lost" ELSE status[c]]
  BY <1>1
<1>4. tokens' = [d \in Digest |-> NoToken] /\ written' = written
  BY DEF Exit, NoEntry
<1> QED BY <1>2, <1>3, <1>4 DEF Service!Fail

LEMMA NextImplements ==
  ASSUME ServerInv, ResponsesInv, TypeOK', [Next]_vars
  PROVE  [Service!ServiceNext]_(Service!serviceVars)
<1>1. ASSUME \/ \E p \in Child : Loses(p)
             \/ Handlers \/ Idles
      PROVE  UNCHANGED Service!serviceVars
  BY <1>1 DEF Loses, Handlers, Idles, tables, requestVars, ClientStatus,
              Service!serviceVars
<1>2. ASSUME NEW p \in Child, NEW t \in Token, Delivers(p, t) \/ Answers(p, t)
      PROVE  Service!ServiceNext
  <2>1. digests[t] \in Digest
    BY <1>2 DEF Delivers, Answers
  <2> QED
    BY <1>2, <2>1, DeliverImplements, AnswerImplements DEF Service!ServiceNext
<1>3. ASSUME NEW c \in Token, GoesOn(c)
      PROVE  Service!ServiceNext \/ UNCHANGED Service!serviceVars
  BY <1>3, GoesOnImplements DEF Service!ServiceNext
<1>4. ASSUME NEW c \in Token, UNCHANGED written,
             StartsRun(c) \/ \E t \in Token : JoinsRun(c, t)
      PROVE  Service!ServiceNext
  BY <1>4, StartImplements, JoinImplements DEF Service!ServiceNext
<1>5. CASE Exit
  BY <1>5, ExitImplements DEF Service!ServiceNext, ServerInv
<1> QED BY <1>1, <1>2, <1>3, <1>4, <1>5, NextCases

\* Whatever its callbacks, messages and table entries do, each step of the
\* server is one step of the service RecipeService promises, or none.
THEOREM ServerImplementsService == Spec => Service!ServiceSafety
<1>1. Init => Service!ServiceInit
  BY DEF Init, NoEntry, ClientStatus, Service!ServiceInit
<1>2. ServerInv => TypeOK
  BY DEF ServerInv
<1> QED
  BY <1>1, <1>2, NextImplements, ServerInvariant, ResponsesInvariant, PTL
     DEF Spec, Service!ServiceSafety

-----------------------------------------------------------------------------
(* The output, where 'exit' waits for the pipes.                           *)

\* Every process the server has a handle of reports to it, and so does that of
\* every run in the tables.
Reporting ==
  /\ children \X {gen} \subseteq connected
  /\ \A t \in Token :
       digests[t] # NoToken /\ home[t] \in Child => home[t] \in connected

LEMMA ReportingNext ==
  ASSUME ServerInv, Reporting, [Next]_vars
  PROVE  Reporting'
<1> USE DEF Reporting
<1>1. ASSUME UNCHANGED <<home, connected, gen, children>>,
             \A t \in Token : digests'[t] = digests[t] \/ digests'[t] = NoToken
      PROVE  Reporting'
  BY <1>1
<1>2. ASSUME NEW c \in Token,
             \/ GoesOn(c)
             \/ (\E t \in Token : JoinsRun(c, t)) /\ UNCHANGED children
      PROVE  Reporting'
  BY <1>1, <1>2 DEF GoesOn, JoinsRun, handlerVars, tables
<1>3. ASSUME NEW c \in Token, StartsRun(c), UNCHANGED children
      PROVE  Reporting'
  <2>1. /\ UNCHANGED <<connected, gen>>
        /\ \A t \in Token : t # c => home'[t] = home[t] /\ digests'[t] = digests[t]
        /\ \/ home'[c] = NoChild
           \/ /\ UserOf[DigestOf[c]] \in children
              /\ home'[c] = <<UserOf[DigestOf[c]], gen>>
    BY <1>3 DEF StartsRun, ProcessOf
  <2> QED BY <1>3, <2>1, HandlerAssumption
<1>4. ASSUME NEW p \in Child, Loses(p) \/ \E t \in Token : Delivers(p, t)
      PROVE  Reporting'
  BY <1>1, <1>4 DEF Loses, Delivers, NextMessage, tables
<1>5. ASSUME NEW p \in Child, NEW t \in Token, Answers(p, t) PROVE Reporting'
  BY <1>1, <1>5 DEF Answers, NextMessage
<1>6. CASE Exit
  BY <1>6 DEF Exit, NoEntry
<1>7. CASE Handlers
  <2>1. UNCHANGED <<home, connected>>
    BY <1>7, ChildNextCleanup DEF Handlers, ServerInv, LinkInv, TypeOK
  <2> QED BY <1>1, <1>7, <2>1 DEF Handlers, tables, serverVars
<1>8. CASE Idles
  BY <1>8 DEF Idles, Restart, tables
<1> QED BY <1>2, <1>3, <1>4, <1>5, <1>6, <1>7, <1>8, NextCases

\* The places of the chunks of t in the channel of its process, and the number
\* of the chunk in one of them.
Said(t) == {i \in About(home[t], t) : channel[home[t]][i].type = "OUTPUT"}
Chunk(t, i) == channel[home[t]][i].n

\* The number of the last chunk a response was sent.
Seen(c) == IF written[c] = <<>> THEN 0 ELSE written[c][Len(written[c])]

\* The chunks on their way are in order and without a gap, up to the last one
\* the shell has produced ...
InOrder(t) ==
  \A i \in Said(t) :
    /\ Chunk(t, i) <= produced[t]
    /\ \A j \in Said(t) : i < j => Chunk(t, i) < Chunk(t, j)
    /\ \A k \in Chunk(t, i)..produced[t] : \E j \in Said(t) : Chunk(t, j) = k

\* ... and they go on where each response that has begun has stopped.
Follows(t, c) ==
  /\ Seen(c) <= produced[t]
  /\ \A k \in (Seen(c) + 1)..produced[t] : \E j \in Said(t) : Chunk(t, j) = k
  /\ \A j \in Said(t) : Seen(c) < Chunk(t, j)

Begun(t, c) == c = t \/ written[c] # <<>>

OrderInv ==
  \A t \in Token : home[t] \in connected =>
    InOrder(t) /\ \A c \in listeners[t] : Begun(t, c) => Follows(t, c)

\* The types of these.
LEMMA ChunkType ==
  ASSUME ServerInv, NEW t \in Token
  PROVE  /\ produced[t] \in Nat /\ Seen(t) \in Nat
         /\ home[t] \in connected =>
              \A i \in Said(t) : i \in Nat \ {0} /\ Chunk(t, i) \in Nat
<1>1. produced[t] \in Nat /\ home[t] \in Child \cup {NoChild}
  BY HandlerAssumption DEF ServerInv, TypeOK, HandlerTypeOK
<1>2. Seen(t) \in Nat
  <2>1. written[t] \in Seq(1..MaxChunks)
    BY DEF ServerInv, TypeOK
  <2> QED BY <2>1, HandlerAssumption DEF Seen
<1>3. ASSUME home[t] \in connected, NEW i \in Said(t)
      PROVE  i \in Nat \ {0} /\ Chunk(t, i) \in Nat
  <2>1. home[t] \in Child /\ channel[home[t]] \in Seq(Message)
    BY <1>3 DEF ServerInv, TypeOK, HandlerTypeOK
  <2>2. /\ i \in DOMAIN channel[home[t]] /\ i \in Nat \ {0}
        /\ channel[home[t]][i] \in Message
        /\ channel[home[t]][i].type = "OUTPUT"
    BY <2>1 DEF Said, About
  <2>3. channel[home[t]][i].n \in 1..MaxChunks
    BY <2>2 DEF Message
  <2> QED BY <2>2, <2>3, HandlerAssumption DEF Chunk
<1> QED BY <1>1, <1>2, <1>3

\* A step that touches neither the chunks of t nor what c has seen.
LEMMA SameChunks ==
  ASSUME NEW t \in Token, produced'[t] = produced[t], Said(t)' = Said(t),
         \A i \in Said(t) : Chunk(t, i)' = Chunk(t, i)
  PROVE  /\ InOrder(t) => InOrder(t)'
         /\ \A c \in Token : Seen(c)' = Seen(c) /\ Follows(t, c) => Follows(t, c)'
BY DEF InOrder, Follows

\* A step that leaves the messages alone.
LEMMA OrderFrame ==
  ASSUME ServerInv, OrderInv,
         UNCHANGED <<home, channel, produced, written>>,
         \A t \in Token : home[t] \in connected' =>
           /\ home[t] \in connected
           /\ \A c \in listeners'[t] :
                c \in listeners[t] \/ (c \in Token /\ ~Begun(t, c))
  PROVE  OrderInv'
<1> SUFFICES ASSUME NEW t \in Token, home[t] \in connected'
             PROVE  /\ InOrder(t)'
                    /\ \A c \in listeners'[t] : Begun(t, c)' => Follows(t, c)'
  BY DEF OrderInv
<1>1. InOrder(t) /\ \A c \in listeners[t] : Begun(t, c) => Follows(t, c)
  BY DEF OrderInv
<1>2. /\ Said(t)' = Said(t) /\ \A i \in Said(t) : Chunk(t, i)' = Chunk(t, i)
      /\ \A c \in Token : Seen(c)' = Seen(c) /\ Begun(t, c)' = Begun(t, c)
      /\ produced'[t] = produced[t]
  BY DEF Said, Chunk, About, Seen, Begun
<1>3. \A c \in listeners[t] : c \in Token
  BY DEF ServerInv, TypeOK
<1> QED BY <1>1, <1>2, <1>3, SameChunks

\* A run is started: nothing was said about it, and it has seen nothing.
LEMMA StartOrder ==
  ASSUME ServerInv, ResponsesInv, OrderInv, NEW c \in Token,
         StartsRun(c), UNCHANGED written
  PROVE  OrderInv'
<1>1. /\ UNCHANGED <<produced, connected, channel>>
      /\ pc[c] = "keyRead" /\ run[c] = "none" /\ home[c] = NoChild
      /\ \A t \in Token :
           /\ listeners'[t] = IF t = c THEN {c} ELSE listeners[t]
           /\ t # c => home'[t] = home[t]
  BY DEF StartsRun
<1>2. ASSUME NEW t \in Token, t # c, home'[t] \in connected'
      PROVE  /\ InOrder(t)'
             /\ \A b \in listeners'[t] : Begun(t, b)' => Follows(t, b)'
  <2>1. /\ InOrder(t) /\ \A b \in listeners[t] : Begun(t, b) => Follows(t, b)
        /\ listeners'[t] = listeners[t] /\ home'[t] = home[t]
    BY <1>1, <1>2 DEF OrderInv
  <2>2. /\ Said(t)' = Said(t) /\ \A i \in Said(t) : Chunk(t, i)' = Chunk(t, i)
        /\ \A b \in Token : Seen(b)' = Seen(b) /\ Begun(t, b)' = Begun(t, b)
    BY <1>1, <2>1 DEF Said, Chunk, About, Seen, Begun
  <2>3. \A b \in listeners[t] : b \in Token
    BY DEF ServerInv, TypeOK
  <2> QED BY <1>1, <2>1, <2>2, <2>3, SameChunks
<1>3. ASSUME home'[c] \in connected'
      PROVE  InOrder(c)' /\ Follows(c, c)'
  <2>1. home'[c] \in Child /\ home'[c] # home[c]
    BY <1>1, <1>3, HandlerAssumption DEF ServerInv, TypeOK, HandlerTypeOK
  <2>2. Said(c)' = {}
    BY <1>1, <2>1 DEF Said, About, ServerInv, LinkInv, EndAfterCleanup
  <2>3. produced'[c] = 0
    BY <1>1 DEF ServerInv, LinkInv, UnsentIsIdle
  <2>4. Seen(c)' = 0
    BY <1>1 DEF ResponsesInv, UnverifiedIsEmpty, Unverified, Seen
  <2> QED BY <2>2, <2>3, <2>4 DEF InOrder, Follows
<1> QED BY <1>1, <1>2, <1>3 DEF OrderInv

\* Reading a message moves the chunks up.
LEMMA ReadChunks ==
  ASSUME ServerInv, NEW p \in Child, NEW type, NextMessage(p, type),
         NEW t \in Token, home[t] \in connected
  PROVE  /\ UNCHANGED <<home, produced, connected>>
         /\ home[t] # p => /\ Said(t)' = Said(t)
                           /\ \A i \in Said(t) : Chunk(t, i)' = Chunk(t, i)
         /\ home[t] = p =>
              /\ \A i \in Said(t)' : /\ i \in Nat \ {0} /\ i + 1 \in Said(t)
                                     /\ Chunk(t, i)' = Chunk(t, i + 1)
              /\ \A j \in Said(t) : j # 1 =>
                   j - 1 \in Said(t)' /\ Chunk(t, j - 1)' = Chunk(t, j)
              /\ 1 \in Said(t) <=> type = "OUTPUT" /\ Head(channel[p]).token = t
              /\ 1 \in Said(t) => Chunk(t, 1) = Head(channel[p]).n
<1>1. /\ HandlerTypeOK /\ Receive(p)
      /\ UNCHANGED <<home, produced, connected>>
      /\ Head(channel[p]).type = type
  BY DEF NextMessage, ServerInv, TypeOK
<1>2. home[t] \in Child
  BY <1>1 DEF HandlerTypeOK
<1>3. CASE home[t] # p
  <2>1. channel'[home[t]] = channel[home[t]]
    BY <1>1, <1>2, <1>3, ReceiveShifts
  <2> QED BY <1>1, <1>3, <2>1 DEF Said, Chunk, About
<1>4. CASE home[t] = p
  <2>1. ASSUME NEW i \in Said(t)'
        PROVE  /\ i \in Nat \ {0} /\ i + 1 \in Said(t)
               /\ Chunk(t, i)' = Chunk(t, i + 1)
    <3>1. /\ i \in DOMAIN channel'[p] /\ channel'[p][i].token = t
          /\ channel'[p][i].type = "OUTPUT"
      BY <1>1, <1>4 DEF Said, About
    <3>2. /\ i + 1 \in DOMAIN channel[p] /\ i \in Nat
          /\ channel'[p][i] = channel[p][i + 1]
      BY <1>1, <3>1, ReceiveShifts
    <3>3. i # 0
      <4>1. channel'[p] \in Seq(Message)
        BY <1>1, ReceiveType
      <4> QED BY <3>1, <4>1
    <3> QED BY <1>1, <1>4, <3>1, <3>2, <3>3 DEF Said, About, Chunk
  <2>2. ASSUME NEW j \in Said(t), j # 1
        PROVE  j - 1 \in Said(t)' /\ Chunk(t, j - 1)' = Chunk(t, j)
    <3>1. /\ j \in DOMAIN channel[p] /\ channel[p][j].token = t
          /\ channel[p][j].type = "OUTPUT" /\ j \in Nat \ {0}
      BY <1>1, <1>4, ReceiveShifts DEF Said, About
    <3>2. j > 1 /\ (j - 1) + 1 = j
      BY <2>2, <3>1
    <3>3. j - 1 \in DOMAIN channel'[p]
      BY <1>1, <3>1, <3>2, ReceiveShifts
    <3>4. channel'[p][j - 1] = channel[p][j]
      BY <1>1, <3>2, <3>3, ReceiveShifts
    <3> QED BY <1>1, <1>4, <3>1, <3>3, <3>4 DEF Said, About, Chunk
  <2>3. 1 \in DOMAIN channel[p] /\ channel[p][1] = Head(channel[p])
    BY <1>1, ReceiveShifts
  <2>4. /\ 1 \in Said(t) <=> type = "OUTPUT" /\ Head(channel[p]).token = t
        /\ Chunk(t, 1) = Head(channel[p]).n
    BY <1>1, <1>4, <2>3 DEF Said, About, Chunk
  <2> QED BY <1>1, <1>4, <2>1, <2>2, <2>4
<1> QED BY <1>3, <1>4

\* What is left of a queue that was in order is in order.
LEMMA ReadInOrder ==
  ASSUME ServerInv, NEW p \in Child, NEW type, NextMessage(p, type),
         NEW t \in Token, home[t] \in connected, InOrder(t)
  PROVE  InOrder(t)'
<1>1. CASE home[t] # p
  BY <1>1, ReadChunks, SameChunks
<1>2. CASE home[t] = p
  <2> SUFFICES ASSUME NEW i \in Said(t)'
               PROVE  /\ Chunk(t, i)' <= produced[t]
                      /\ \A j \in Said(t)' : i < j => Chunk(t, i)' < Chunk(t, j)'
                      /\ \A k \in Chunk(t, i)'..produced[t] :
                           \E j \in Said(t)' : Chunk(t, j)' = k
    BY ReadChunks DEF InOrder
  <2>1. /\ i \in Nat \ {0} /\ i + 1 \in Said(t)
        /\ Chunk(t, i)' = Chunk(t, i + 1)
    BY <1>2, ReadChunks
  <2>2. Chunk(t, i)' <= produced[t]
    BY <2>1 DEF InOrder
  <2>3. ASSUME NEW j \in Said(t)', i < j
        PROVE  Chunk(t, i)' < Chunk(t, j)'
    <3>1. /\ j \in Nat \ {0} /\ j + 1 \in Said(t)
          /\ Chunk(t, j)' = Chunk(t, j + 1)
      BY <1>2, ReadChunks
    <3>2. i + 1 < j + 1
      BY <2>1, <2>3, <3>1
    <3> QED BY <2>1, <3>1, <3>2 DEF InOrder
  <2>4. ASSUME NEW k \in Chunk(t, i + 1)..produced[t]
        PROVE  \E j \in Said(t)' : Chunk(t, j)' = k
    <3>1. PICK j \in Said(t) : Chunk(t, j) = k
      BY <2>1 DEF InOrder
    <3>2. j # 1
      <4>1. CASE j = 1
        <5>1. 1 < i + 1
          BY <2>1
        <5>2. Chunk(t, 1) < Chunk(t, i + 1)
          BY <2>1, <4>1, <5>1 DEF InOrder
        <5>3. Chunk(t, i + 1) \in Nat /\ Chunk(t, 1) \in Nat /\ produced[t] \in Nat
          BY <2>1, <4>1, ChunkType
        <5> QED BY <3>1, <4>1, <5>2, <5>3
      <4> QED BY <4>1
    <3> QED BY <1>2, <3>1, <3>2, ReadChunks
  <2> QED BY <2>1, <2>2, <2>3, <2>4
<1> QED BY <1>1, <1>2

\* A response follows the rest of its run as before, if the message was no
\* chunk of that run.
LEMMA ReadFollows ==
  ASSUME ServerInv, NEW p \in Child, NEW type, NextMessage(p, type),
         NEW t \in Token, home[t] \in connected,
         type # "OUTPUT" \/ Head(channel[p]).token # t,
         NEW c \in Token, Follows(t, c), Seen(c)' = Seen(c)
  PROVE  Follows(t, c)'
<1>1. CASE home[t] # p
  BY <1>1, ReadChunks, SameChunks
<1>2. CASE home[t] = p
  <2>1. /\ produced'[t] = produced[t] /\ 1 \notin Said(t)
        /\ \A i \in Said(t)' : /\ i + 1 \in Said(t)
                               /\ Chunk(t, i)' = Chunk(t, i + 1)
        /\ \A j \in Said(t) : j # 1 =>
             j - 1 \in Said(t)' /\ Chunk(t, j - 1)' = Chunk(t, j)
    BY <1>2, ReadChunks
  <2>2. \A j \in Said(t) : \E i \in Said(t)' : Chunk(t, i)' = Chunk(t, j)
    BY <2>1
  <2> QED BY <2>1, <2>2 DEF Follows
<1> QED BY <1>1, <1>2

\* The next chunk of a run is the one each response that has begun waits for.
LEMMA NextChunk ==
  ASSUME ServerInv, OrderInv, Reporting,
         NEW p \in Child, NEW t \in Token, Delivers(p, t)
  PROVE  /\ home[t] \in connected /\ 1 \in Said(t)
         /\ Chunk(t, 1) = Head(channel[p]).n
         /\ InOrder(t)
         /\ \A c \in listeners[t] :
              Begun(t, c) => Chunk(t, 1) = Seen(c) + 1 /\ Follows(t, c)
<1>1. home[t] \in connected
  BY ServerAssumption DEF Delivers, Reporting
<1>2. 1 \in Said(t) /\ Chunk(t, 1) = Head(channel[p]).n
  BY <1>1, ReadChunks DEF Delivers
<1>3. InOrder(t) /\ \A c \in listeners[t] : Begun(t, c) => Follows(t, c)
  BY <1>1 DEF OrderInv
<1>4. ASSUME NEW c \in listeners[t], Begun(t, c)
      PROVE  Chunk(t, 1) = Seen(c) + 1
  <2>1. /\ c \in Token /\ Seen(c) \in Nat /\ produced[t] \in Nat
        /\ Chunk(t, 1) \in Nat
        /\ \A j \in Said(t) : j \in Nat \ {0} /\ Chunk(t, j) \in Nat
    BY <1>1, <1>2, ChunkType DEF ServerInv, TypeOK
  <2>2. Seen(c) < Chunk(t, 1) /\ Chunk(t, 1) <= produced[t]
    BY <1>2, <1>3, <1>4 DEF Follows, InOrder
  <2>3. Seen(c) + 1 \in (Seen(c) + 1)..produced[t]
    BY <2>1, <2>2
  <2>4. PICK j \in Said(t) : Chunk(t, j) = Seen(c) + 1
    BY <1>3, <1>4, <2>3 DEF Follows
  <2>5. j = 1 \/ Chunk(t, 1) < Chunk(t, j)
    <3>1. j = 1 \/ 1 < j
      BY <2>1
    <3> QED BY <1>2, <1>3, <3>1 DEF InOrder
  <2> QED BY <2>1, <2>2, <2>4, <2>5
<1> QED BY <1>1, <1>2, <1>3, <1>4

\* What a listener has seen after a chunk is that chunk.
LEMMA SeenDelivered ==
  ASSUME ServerInv, NEW p \in Child, NEW t \in Token, Delivers(p, t),
         NEW c \in Token
  PROVE  /\ c \in listeners[t] => /\ Seen(c)' = Head(channel[p]).n
                                  /\ written'[c] # <<>>
         /\ c \notin listeners[t] => written'[c] = written[c] /\ Seen(c)' = Seen(c)
<1> DEFINE n == Head(channel[p]).n
<1>1. /\ n \in 1..MaxChunks
      /\ written'[c] = IF c \in listeners[t] THEN Append(written[c], n)
                                             ELSE written[c]
  BY DEF Delivers
<1>2. written[c] \in Seq(1..MaxChunks)
  BY DEF ServerInv, TypeOK
<1> HIDE DEF n
<1>3. CASE c \in listeners[t]
  <2>1. /\ written'[c] = Append(written[c], n)
        /\ Len(written'[c]) = Len(written[c]) + 1
        /\ Append(written[c], n)[Len(written[c]) + 1] = n
        /\ Append(written[c], n) # <<>>
    BY <1>1, <1>2, <1>3
  <2>2. Seen(c)' = n
    BY <2>1 DEF Seen
  <2> QED BY <1>3, <2>1, <2>2 DEF n
<1>4. CASE c \notin listeners[t]
  BY <1>1, <1>4 DEF Seen
<1> QED BY <1>3, <1>4

LEMMA DeliverOrder ==
  ASSUME ServerInv, OrderInv, Reporting,
         NEW p \in Child, NEW t \in Token, Delivers(p, t)
  PROVE  OrderInv'
<1>1. /\ NextMessage(p, "OUTPUT") /\ t = Head(channel[p]).token
      /\ home[t] = p /\ listeners' = listeners
      /\ UNCHANGED <<home, connected, produced>>
  BY DEF Delivers, NextMessage, tables
<1> SUFFICES ASSUME NEW s \in Token, home[s] \in connected
             PROVE  /\ InOrder(s)'
                    /\ \A c \in listeners[s] : Begun(s, c)' => Follows(s, c)'
  BY <1>1 DEF OrderInv
<1>2. InOrder(s) /\ \A c \in listeners[s] : Begun(s, c) => Follows(s, c)
  BY DEF OrderInv
<1>3. InOrder(s)'
  BY <1>1, <1>2, ReadInOrder
<1>4. \A c \in listeners[s] : c \in Token /\ token[c] = s
  BY DEF ServerInv, LinkInv, OwnOutputOnly, TypeOK
<1>5. CASE s # t
  <2>1. ASSUME NEW c \in listeners[s]
        PROVE  written'[c] = written[c] /\ Seen(c)' = Seen(c)
    <3>1. c \in Token /\ c \notin listeners[t]
      BY <1>4, <1>5 DEF ServerInv, LinkInv, OwnOutputOnly
    <3> QED BY <3>1, SeenDelivered
  <2> QED BY <1>1, <1>2, <1>3, <1>4, <1>5, <2>1, ReadFollows DEF Begun
<1>6. CASE s = t
  <2> SUFFICES ASSUME NEW c \in listeners[t] PROVE Follows(t, c)'
    BY <1>3, <1>6
  <2>1. /\ Seen(c)' = Chunk(t, 1) /\ 1 \in Said(t) /\ home[t] \in connected
        /\ InOrder(t) /\ produced'[t] = produced[t]
    BY <1>1, <1>4, <1>6, NextChunk, SeenDelivered
  <2>2. /\ Chunk(t, 1) \in Nat /\ produced[t] \in Nat
        /\ \A i \in Said(t)' : /\ i \in Nat \ {0} /\ i + 1 \in Said(t)
                               /\ Chunk(t, i)' = Chunk(t, i + 1)
        /\ \A j \in Said(t) : j # 1 =>
             j - 1 \in Said(t)' /\ Chunk(t, j - 1)' = Chunk(t, j)
    BY <1>1, <2>1, ReadChunks, ChunkType
  <2>3. Chunk(t, 1) <= produced[t]
    BY <2>1 DEF InOrder
  <2>4. ASSUME NEW k \in (Chunk(t, 1) + 1)..produced[t]
        PROVE  \E j \in Said(t)' : Chunk(t, j)' = k
    <3>1. k \in Chunk(t, 1)..produced[t] /\ k # Chunk(t, 1)
      BY <2>2
    <3>2. PICK j \in Said(t) : Chunk(t, j) = k
      BY <2>1, <3>1 DEF InOrder
    <3> QED BY <2>2, <3>1, <3>2
  <2>5. ASSUME NEW i \in Said(t)' PROVE Chunk(t, 1) < Chunk(t, i)'
    <3>1. i + 1 \in Said(t) /\ 1 < i + 1 /\ Chunk(t, i)' = Chunk(t, i + 1)
      BY <2>2
    <3> QED BY <2>1, <3>1 DEF InOrder
  <2> QED BY <2>1, <2>3, <2>4, <2>5 DEF Follows
<1> QED BY <1>5, <1>6

\* Messages that reach nobody, and the end of a run.
LEMMA DropOrder ==
  ASSUME ServerInv, OrderInv, NEW p \in Child,
         Loses(p) \/ \E t \in Token : Answers(p, t)
  PROVE  OrderInv'
<1>1. PICK type \in {"OUTPUT", "REQUEST_END"} :
        /\ NextMessage(p, type)
        /\ type = "OUTPUT" => listeners[Head(channel[p]).token] = {}
  BY DEF Loses, Answers
<1>2. /\ UNCHANGED <<home, connected, produced, written>>
      /\ \A s \in Token : listeners'[s] = listeners[s] \/ listeners'[s] = {}
  BY <1>1 DEF Loses, Answers, NextMessage, tables
<1> SUFFICES ASSUME NEW s \in Token, home[s] \in connected
             PROVE  /\ InOrder(s)'
                    /\ \A c \in listeners'[s] : Begun(s, c)' => Follows(s, c)'
  BY <1>2 DEF OrderInv
<1>3. InOrder(s)'
  BY <1>1, ReadInOrder DEF OrderInv
<1>4. ASSUME NEW c \in listeners'[s], Begun(s, c)'
      PROVE  Follows(s, c)'
  <2>1. c \in Token /\ c \in listeners[s] /\ Seen(c)' = Seen(c)
    BY <1>2 DEF ServerInv, TypeOK, Seen
  <2>2. Follows(s, c)
    BY <1>2, <1>4, <2>1 DEF OrderInv, Begun
  <2> QED BY <1>1, <2>1, <2>2, ReadFollows
<1> QED BY <1>3, <1>4

\* A callback of a handler process sends the next chunk of a run, or none.
LEMMA HandlersChunks ==
  ASSUME ExitWaitsForStdio, ServerInv, Handlers,
         NEW s \in Token
  PROVE  /\ run[s] = "ended" => produced'[s] = produced[s]
         /\ home[s] \in connected =>
              \/ /\ produced'[s] = produced[s] /\ Said(s)' = Said(s)
                 /\ \A i \in Said(s) : Chunk(s, i)' = Chunk(s, i)
              \/ \E h \in Said(s)' :
                   /\ h \in Nat /\ produced'[s] = produced[s] + 1
                   /\ Said(s)' = Said(s) \cup {h}
                   /\ Chunk(s, h)' = produced[s] + 1
                   /\ \A i \in Said(s) : i < h /\ Chunk(s, i)' = Chunk(s, i)
<1>1. ChildNext /\ HandlerTypeOK
  BY DEF Handlers, ServerInv, TypeOK
<1>2. CASE Quiet
  BY <1>2 DEF Quiet, Said, Chunk, About
<1>3. ASSUME NEW t \in Token, RecipeOutput(t)
      PROVE  /\ run[s] = "ended" => produced'[s] = produced[s]
             /\ home[s] \in connected =>
                  \/ /\ produced'[s] = produced[s] /\ Said(s)' = Said(s)
                     /\ \A i \in Said(s) : Chunk(s, i)' = Chunk(s, i)
                  \/ \E h \in Said(s)' :
                       /\ h \in Nat /\ produced'[s] = produced[s] + 1
                       /\ Said(s)' = Said(s) \cup {h}
                       /\ Chunk(s, h)' = produced[s] + 1
                       /\ \A i \in Said(s) : i < h /\ Chunk(s, i)' = Chunk(s, i)
  <2> DEFINE m == Output(t, produced[t] + 1)
  <2>1. /\ m \in Message /\ m.token = t /\ m.type = "OUTPUT"
        /\ m.n = produced[t] + 1
        /\ home[t] \in Child /\ Send(home[t], m)
        /\ produced' = [produced EXCEPT ![t] = @ + 1]
        /\ UNCHANGED <<home, connected>> /\ run[t] = "recipe"
    BY <1>1, <1>3, OutputSends
  <2> HIDE DEF m
  <2>2. \A u \in Token :
          produced'[u] = IF u = t THEN produced[u] + 1 ELSE produced[u]
    BY <1>1, <2>1 DEF HandlerTypeOK
  <2>3. CASE s # t
    <3> SUFFICES ASSUME NEW p \in connected, p = home[s]
                 PROVE  /\ Said(s)' = Said(s)
                        /\ \A i \in Said(s) : Chunk(s, i)' = Chunk(s, i)
      BY <2>1, <2>2, <2>3
    <3>1. p \in Child
      BY <1>1 DEF HandlerTypeOK
    <3>2. /\ About(p, s)' = About(p, s)
          /\ \A i \in About(p, s) : channel'[p][i] = channel[p][i]
      BY <1>1, <2>1, <2>3, <3>1, SendAppends
    <3> QED BY <2>1, <3>2 DEF Said, Chunk
  <2>4. CASE s = t
    <3> SUFFICES ASSUME NEW p \in connected, p = home[t]
                 PROVE  \E h \in Said(t)' :
                          /\ h \in Nat /\ Said(t)' = Said(t) \cup {h}
                          /\ Chunk(t, h)' = produced[t] + 1
                          /\ \A i \in Said(t) :
                               i < h /\ Chunk(t, i)' = Chunk(t, i)
      BY <2>1, <2>2, <2>4
    <3>1. p \in Child
      BY <1>1 DEF HandlerTypeOK
    <3>2. PICK h \in About(p, t)' : h \notin About(p, t) /\ channel'[p][h] = m
      BY <1>1, <2>1, <3>1, SendAppends
    <3>3. /\ \A i \in About(p, t) :
               i \in About(p, t)' /\ channel'[p][i] = channel[p][i] /\ i < h
          /\ \A i \in About(p, t)' :
               i \in About(p, t) \/ (i <= h /\ h <= i /\ channel'[p][i] = m)
      BY <1>1, <2>1, <3>1, <3>2, SendAppends
    <3>4. \A i \in About(p, t)' : i \in Nat
      <4>1. channel'[p] \in Seq(Message)
        BY <1>1, <3>1, ChildNextType DEF HandlerTypeOK
      <4> QED BY <4>1 DEF About
    <3>5. \A i \in About(p, t)' : i \in About(p, t) \/ i = h
      BY <3>2, <3>3, <3>4
    <3>6. /\ Said(t) = {i \in About(p, t) : channel[p][i].type = "OUTPUT"}
          /\ Said(t)' = {i \in About(p, t)' : channel'[p][i].type = "OUTPUT"}
          /\ \A i : /\ Chunk(t, i) = channel[p][i].n
                    /\ Chunk(t, i)' = channel'[p][i].n
      BY <2>1 DEF Said, Chunk
    <3>7. h \in Said(t)' /\ Said(t)' = Said(t) \cup {h}
      BY <2>1, <3>2, <3>3, <3>5, <3>6
    <3> QED BY <2>1, <3>2, <3>3, <3>4, <3>6, <3>7
  <2> QED BY <2>3, <2>4
<1>4. ASSUME NEW t \in Token, CleanupReady(t)
      PROVE  /\ produced' = produced
             /\ home[s] \in connected =>
                  /\ Said(s)' = Said(s)
                  /\ \A i \in Said(s) : Chunk(s, i)' = Chunk(s, i)
  <2> DEFINE m == End(t, run[t] = "cleanupErr")
  <2>1. /\ m \in Message /\ m.token = t /\ m.type = "REQUEST_END"
        /\ home[t] \in Child /\ Send(home[t], m)
        /\ UNCHANGED <<home, produced>>
    BY <1>1, <1>4, CleanupSends
  <2> HIDE DEF m
  <2> SUFFICES ASSUME NEW p \in connected, p = home[s]
               PROVE  /\ Said(s)' = Said(s)
                      /\ \A i \in Said(s) : Chunk(s, i)' = Chunk(s, i)
    BY <2>1
  <2>2. p \in Child
    BY <1>1 DEF HandlerTypeOK
  <2>3. /\ \A i \in About(p, s) :
             i \in About(p, s)' /\ channel'[p][i] = channel[p][i]
        /\ \A i \in About(p, s)' :
             i \in About(p, s) \/ channel'[p][i].type = "REQUEST_END"
    <3>1. CASE s = t
      BY <1>1, <2>1, <2>2, <3>1, SendAppends
    <3>2. CASE s # t
      BY <1>1, <2>1, <2>2, <3>2, SendAppends
    <3> QED BY <3>1, <3>2
  <2>4. /\ Said(s) = {i \in About(p, s) : channel[p][i].type = "OUTPUT"}
        /\ Said(s)' = {i \in About(p, s)' : channel'[p][i].type = "OUTPUT"}
        /\ \A i : /\ Chunk(s, i) = channel[p][i].n
                  /\ Chunk(s, i)' = channel'[p][i].n
    BY <2>1 DEF Said, Chunk
  <2> QED BY <2>3, <2>4
<1> QED BY <1>1, <1>2, <1>3, <1>4, ChildNextCases

LEMMA HandlersOrder ==
  ASSUME ExitWaitsForStdio, ServerInv, OrderInv, Handlers
  PROVE  OrderInv'
<1>1. /\ UNCHANGED <<home, connected, listeners, written>>
  BY ChildNextCleanup
     DEF Handlers, ServerInv, LinkInv, TypeOK, tables, requestVars
<1> SUFFICES ASSUME NEW t \in Token, home[t] \in connected
             PROVE  /\ InOrder(t)'
                    /\ \A c \in listeners[t] : Begun(t, c) => Follows(t, c)'
  BY <1>1 DEF OrderInv, Begun
<1>2. InOrder(t) /\ \A c \in listeners[t] : Begun(t, c) => Follows(t, c)
  BY DEF OrderInv
<1>3. \A c \in listeners[t] : /\ c \in Token /\ Seen(c) \in Nat
                              /\ Seen(c)' = Seen(c)
  BY <1>1, ChunkType DEF ServerInv, TypeOK, Seen
<1>4. CASE /\ produced'[t] = produced[t] /\ Said(t)' = Said(t)
           /\ \A i \in Said(t) : Chunk(t, i)' = Chunk(t, i)
  BY <1>2, <1>3, <1>4, SameChunks
<1>5. ASSUME NEW h \in Said(t)', h \in Nat,
             produced'[t] = produced[t] + 1,
             Said(t)' = Said(t) \cup {h},
             Chunk(t, h)' = produced[t] + 1,
             \A i \in Said(t) : i < h /\ Chunk(t, i)' = Chunk(t, i)
      PROVE  /\ InOrder(t)'
             /\ \A c \in listeners[t] : Begun(t, c) => Follows(t, c)'
  <2>1. /\ produced[t] \in Nat
        /\ \A i \in Said(t) : i \in Nat \ {0} /\ Chunk(t, i) \in Nat
    BY ChunkType
  <2>2. ASSUME NEW i \in Said(t)'
        PROVE  /\ Chunk(t, i)' <= produced'[t]
               /\ \A j \in Said(t)' : i < j => Chunk(t, i)' < Chunk(t, j)'
               /\ \A k \in Chunk(t, i)'..produced'[t] :
                    \E j \in Said(t)' : Chunk(t, j)' = k
    <3>1. CASE i \in Said(t)
      <4>1. /\ Chunk(t, i)' = Chunk(t, i) /\ Chunk(t, i) <= produced[t]
            /\ Chunk(t, i) \in Nat
        BY <1>2, <1>5, <2>1, <3>1 DEF InOrder
      <4>2. \A j \in Said(t)' : i < j => Chunk(t, i)' < Chunk(t, j)'
        <5>1. \A j \in Said(t) : i < j => Chunk(t, i) < Chunk(t, j)
          BY <1>2, <3>1 DEF InOrder
        <5>2. Chunk(t, i)' < Chunk(t, h)'
          BY <1>5, <2>1, <4>1
        <5> QED BY <1>5, <4>1, <5>1, <5>2
      <4>3. ASSUME NEW k \in Chunk(t, i)..(produced[t] + 1)
            PROVE  \E j \in Said(t)' : Chunk(t, j)' = k
        <5>1. k = produced[t] + 1 \/ k \in Chunk(t, i)..produced[t]
          BY <2>1, <4>1
        <5>2. CASE k \in Chunk(t, i)..produced[t]
          <6>1. PICK j \in Said(t) : Chunk(t, j) = k
            BY <1>2, <3>1, <5>2 DEF InOrder
          <6> QED BY <1>5, <6>1
        <5> QED BY <1>5, <5>1, <5>2
      <4> QED BY <1>5, <2>1, <4>1, <4>2, <4>3
    <3>2. CASE i = h
      <4>1. \A j \in Said(t)' : ~(h < j)
        BY <1>5, <2>1
      <4>2. \A k \in Chunk(t, h)'..produced'[t] : k = Chunk(t, h)'
        BY <1>5, <2>1
      <4> QED BY <1>5, <2>1, <3>2, <4>1, <4>2
    <3> QED BY <1>5, <3>1, <3>2
  <2>3. ASSUME NEW c \in listeners[t], Begun(t, c)
        PROVE  Follows(t, c)'
    <3>1. /\ Seen(c) \in Nat /\ Seen(c)' = Seen(c) /\ Seen(c) <= produced[t]
          /\ \A k \in (Seen(c) + 1)..produced[t] :
               \E j \in Said(t) : Chunk(t, j) = k
          /\ \A j \in Said(t) : Seen(c) < Chunk(t, j)
      BY <1>2, <1>3, <2>3 DEF Follows
    <3>2. ASSUME NEW k \in (Seen(c) + 1)..(produced[t] + 1)
          PROVE  \E j \in Said(t)' : Chunk(t, j)' = k
      <4>1. k = produced[t] + 1 \/ k \in (Seen(c) + 1)..produced[t]
        BY <2>1, <3>1
      <4> QED BY <1>5, <3>1, <4>1
    <3>3. \A j \in Said(t)' : Seen(c) < Chunk(t, j)'
      BY <1>5, <2>1, <3>1
    <3>4. Seen(c) <= produced[t] + 1
      BY <2>1, <3>1
    <3> QED BY <1>5, <3>1, <3>2, <3>3, <3>4 DEF Follows
  <2> QED BY <2>2, <2>3 DEF InOrder
<1> QED BY <1>4, <1>5, HandlersChunks

LEMMA OrderNext ==
  ASSUME ExitWaitsForStdio, ServerInv, ResponsesInv, Reporting, OrderInv,
         [Next]_vars
  PROVE  OrderInv'
<1>1. ASSUME NEW c \in Token, GoesOn(c) PROVE OrderInv'
  BY <1>1, OrderFrame DEF GoesOn, handlerVars, tables
<1>2. ASSUME NEW c \in Token, NEW t \in Token, JoinsRun(c, t), UNCHANGED written
      PROVE  OrderInv'
  <2>1. /\ UNCHANGED <<home, channel, produced, connected>>
        /\ pc[c] = "keyRead" /\ digests[t] = DigestOf[c] /\ c \notin listeners[t]
        /\ \A s \in Token : listeners'[s] = IF s = t THEN listeners[t] \cup {c}
                                                     ELSE listeners[s]
    BY <1>2 DEF JoinsRun, handlerVars
  <2>2. written[c] = <<>>
    BY <2>1 DEF ResponsesInv, UnverifiedIsEmpty, Unverified
  <2>3. c # t
    <3>1. digests[t] # NoToken
      BY <2>1, ServerAssumption
    <3> QED BY <2>1, <3>1 DEF ServerInv, LinkInv, EntryIsOwn
  <2>4. \A s \in Token : \A b \in listeners'[s] :
          b \in listeners[s] \/ (b \in Token /\ ~Begun(s, b))
    BY <2>1, <2>2, <2>3 DEF Begun
  <2> QED BY <1>2, <2>1, <2>4, OrderFrame
<1>3. CASE Exit
  <2>1. connected' = {}
    BY <1>3 DEF Exit, Disconnect, ServerInv, LinkInv, ParentIsCurrent
  <2> QED BY <2>1 DEF OrderInv
<1>4. CASE Idles
  <2>1. CASE Restart
    <3>1. /\ connected = {} /\ connected' = keys \X {gen + 1} /\ home' = home
      BY <2>1 DEF Restart, ServerInv, LinkInv, ParentIsCurrent
    <3>2. /\ gen \in Nat
          /\ \A t \in Token : home[t] \in Child => home[t][2] <= gen
      BY DEF ServerInv, LinkInv, ParentIsCurrent, TypeOK
    <3>3. \A t \in Token : home[t] \notin keys \X {gen + 1}
      <4>1. TypeOK'
        BY <2>1, LifeType DEF ServerInv
      <4>2. keys \X {gen + 1} \subseteq Child
        BY <3>1, <4>1 DEF TypeOK, HandlerTypeOK
      <4> QED BY <3>2, <4>2
    <3> QED BY <3>1, <3>3 DEF OrderInv
  <2>2. CASE UNCHANGED connected
    BY <1>4, <2>2, OrderFrame DEF Idles, tables
  <2> QED BY <1>4, <2>1, <2>2 DEF Idles
<1>5. CASE Handlers
  BY <1>5, HandlersOrder
<1> QED
  BY <1>1, <1>2, <1>3, <1>4, <1>5, StartOrder, DeliverOrder, DropOrder,
     NextCases

\* What has been written to a response is consecutive, and from the first chunk
\* on for the one that started the run.
WrittenInOrder ==
  \A c \in Token : \A i \in DOMAIN written[c] :
    /\ i > 1 => written[c][i] = written[c][i - 1] + 1
    /\ token[c] = c => written[c][i] = i

\* A response that is ended has seen all of its run, unless it has seen none.
EndedHasSeenAll ==
  \A c \in Token :
    pc[c] = "ended" /\ Begun(token[c], c) => Seen(c) = produced[token[c]]

OutputInv == WrittenInOrder /\ EndedHasSeenAll

\* Steps that write nothing and end no response.
LEMMA OutputFrame ==
  ASSUME ResponsesInv, OutputInv, UNCHANGED written,
         \A c \in Token : \/ token'[c] = token[c]
                          \/ pc[c] \in Unverified /\ pc'[c] # "ended",
         \A c \in Token : pc'[c] = "ended" => pc[c] = "ended",
         \A t \in Token : run[t] = "ended" => produced'[t] = produced[t]
  PROVE  OutputInv'
<1>1. WrittenInOrder'
  BY DEF OutputInv, WrittenInOrder, ResponsesInv, UnverifiedIsEmpty
<1>2. EndedHasSeenAll'
  <2> SUFFICES ASSUME NEW c \in Token, pc'[c] = "ended", Begun(token[c], c)'
               PROVE  Seen(c)' = produced'[token'[c]]
    BY DEF EndedHasSeenAll
  <2>1. pc[c] = "ended" /\ token'[c] = token[c] /\ token[c] \in Token
    BY DEF ResponsesInv, EndedHasRun
  <2>2. run[token[c]] = "ended"
    BY <2>1 DEF ResponsesInv, EndedAfterCleanup
  <2> QED BY <2>1, <2>2 DEF OutputInv, EndedHasSeenAll, Begun, Seen
<1> QED BY <1>1, <1>2 DEF OutputInv

LEMMA DeliverOutput ==
  ASSUME ServerInv, ResponsesInv, Reporting, OrderInv, OutputInv,
         NEW p \in Child, NEW t \in Token, Delivers(p, t)
  PROVE  OutputInv'
<1>1. UNCHANGED <<pc, token, produced>> /\ Head(channel[p]).n \in 1..MaxChunks
  BY DEF Delivers, NextMessage
<1>2. \A c \in listeners[t] : pc[c] = "attached" /\ token[c] = t
  BY DEF ServerInv, LinkInv, OwnOutputOnly
<1>3. EndedHasSeenAll'
  BY <1>1, <1>2, SeenDelivered DEF OutputInv, EndedHasSeenAll, Begun
<1>4. WrittenInOrder'
  <2> SUFFICES ASSUME NEW c \in Token, NEW i \in DOMAIN written'[c]
               PROVE  /\ i > 1 => written'[c][i] = written'[c][i - 1] + 1
                      /\ token[c] = c => written'[c][i] = i
    BY <1>1 DEF WrittenInOrder
  <2>1. CASE c \notin listeners[t]
    BY <2>1, SeenDelivered DEF OutputInv, WrittenInOrder
  <2>2. CASE c \in listeners[t]
    <3> DEFINE n == Head(channel[p]).n
               w == written[c]
    <3>1. written'[c] = Append(w, n) /\ w \in Seq(1..MaxChunks) /\ n \in Nat
      BY <1>1, <2>2, HandlerAssumption DEF Delivers, ServerInv, TypeOK
    <3>2. Begun(t, c) => n = Seen(c) + 1
      BY <2>2, NextChunk
    <3>3. /\ w # <<>> => n = w[Len(w)] + 1
          /\ token[c] = c /\ w = <<>> => n = 1
      BY <1>2, <2>2, <3>2 DEF Begun, Seen
    <3>4. /\ \A k \in DOMAIN w : /\ k > 1 => w[k] = w[k - 1] + 1
                                 /\ token[c] = c => w[k] = k
      BY DEF OutputInv, WrittenInOrder
    <3> HIDE DEF n, w
    <3>5. /\ Len(w) \in Nat /\ DOMAIN w = 1..Len(w)
          /\ DOMAIN written'[c] = 1..(Len(w) + 1)
          /\ written'[c][Len(w) + 1] = n
          /\ \A k \in 1..Len(w) : written'[c][k] = w[k]
          /\ w = <<>> <=> Len(w) = 0
      BY <3>1
    <3>6. CASE i = Len(w) + 1
      <4>1. CASE Len(w) = 0
        BY <3>3, <3>5, <3>6, <4>1
      <4>2. CASE Len(w) # 0
        <5>1. Len(w) \in DOMAIN w /\ n = w[Len(w)] + 1
          BY <3>3, <3>5, <4>2
        <5>2. written'[c][i] = n /\ written'[c][i - 1] = w[Len(w)]
          BY <3>5, <3>6, <5>1
        <5>3. token[c] = c => w[Len(w)] = Len(w)
          BY <3>4, <5>1
        <5> QED BY <3>6, <5>1, <5>2, <5>3
      <4> QED BY <4>1, <4>2
    <3>7. CASE i \in 1..Len(w)
      <4>1. i > 1 => i - 1 \in 1..Len(w)
        BY <3>5, <3>7
      <4> QED BY <3>4, <3>5, <3>7, <4>1
    <3> QED BY <3>5, <3>6, <3>7
  <2> QED BY <2>1, <2>2
<1> QED BY <1>3, <1>4 DEF OutputInv

\* The REQUEST_END is the last message about its run: nothing is on its way.
LEMMA AnswerOutput ==
  ASSUME ServerInv, MessagesInv, ResponsesInv, Reporting, OrderInv, OutputInv,
         NEW p \in Child, NEW t \in Token, Answers(p, t)
  PROVE  OutputInv'
<1>1. /\ UNCHANGED <<token, written, produced>>
      /\ \A c \in Token : pc'[c] = IF c \in listeners[t] THEN "ended" ELSE pc[c]
  BY DEF Answers, NextMessage
<1>2. home[t] = p /\ home[t] \in connected
  BY ServerAssumption DEF Answers, Reporting
<1>3. Said(t) = {}
  <2>1. \A j \in About(p, t) : j <= 1
    BY DEF Answers, MessagesInv, EndIsLast
  <2>2. \A j \in Said(t) : j \in Nat \ {0}
    BY <1>2, ChunkType
  <2>3. 1 \notin Said(t)
    BY <1>2 DEF Answers, IsEnd, Said
  <2> QED BY <1>2, <2>1, <2>2, <2>3 DEF Said
<1>4. ASSUME NEW c \in listeners[t], Begun(t, c)
      PROVE  Seen(c) = produced[t]
  <2>1. c \in Token /\ Seen(c) \in Nat /\ produced[t] \in Nat
    BY ChunkType DEF ServerInv, TypeOK
  <2>2. /\ Seen(c) <= produced[t]
        /\ \A k \in (Seen(c) + 1)..produced[t] : FALSE
    BY <1>2, <1>3, <1>4 DEF OrderInv, Follows
  <2>3. Seen(c) + 1 \notin (Seen(c) + 1)..produced[t]
    BY <2>2
  <2> QED BY <2>1, <2>2, <2>3
<1>5. EndedHasSeenAll'
  <2>1. \A c \in listeners[t] : token[c] = t
    BY DEF ServerInv, LinkInv, OwnOutputOnly
  <2> QED
    BY <1>1, <1>4, <2>1 DEF OutputInv, EndedHasSeenAll, Begun, Seen
<1>6. WrittenInOrder'
  BY <1>1 DEF OutputInv, WrittenInOrder
<1> QED BY <1>5, <1>6 DEF OutputInv

LEMMA OutputNext ==
  ASSUME ExitWaitsForStdio, ServerInv, MessagesInv, ResponsesInv, Reporting,
         OrderInv, OutputInv, [Next]_vars
  PROVE  OutputInv'
<1>1. ASSUME NEW c \in Token,
             \/ GoesOn(c)
             \/ UNCHANGED written /\ StartsRun(c)
             \/ UNCHANGED written /\ \E t \in Token : JoinsRun(c, t)
      PROVE  OutputInv'
  <2>1. /\ UNCHANGED <<written, produced>> /\ pc[c] \in Unverified
        /\ pc'[c] # "ended"
        /\ \A b \in Token : b # c => pc'[b] = pc[b] /\ token'[b] = token[b]
    BY <1>1 DEF GoesOn, StartsRun, JoinsRun, handlerVars, Unverified
  <2> QED BY <2>1, OutputFrame
<1>2. CASE (\E p \in Child : Loses(p)) \/ Idles
  BY <1>2, OutputFrame DEF Loses, NextMessage, Idles
<1>3. CASE Exit
  <2>1. /\ UNCHANGED <<token, written, produced>>
        /\ \A c \in Token : pc'[c] = "ended" => pc[c] = "ended"
    BY <1>3 DEF Exit
  <2> QED BY <2>1, OutputFrame
<1>4. CASE Handlers
  BY <1>4, HandlersChunks, OutputFrame DEF Handlers, requestVars
<1> QED
  BY <1>1, <1>2, <1>3, <1>4, DeliverOutput, AnswerOutput, NextCases

LEMMA OutputInvariant ==
  ASSUME ExitWaitsForStdio
  PROVE  Spec => [](ResponsesInv /\ OutputInv /\ ServerInv)
<1>1. Init => Reporting /\ OrderInv /\ OutputInv
  <2> SUFFICES ASSUME Init PROVE Reporting /\ OrderInv /\ OutputInv
    OBVIOUS
  <2>1. Reporting
    BY DEF Init, Reporting, NoEntry
  <2>2. OrderInv
    <3>1. \A t \in Token : home[t] \notin connected
      BY ServerInvInit, HandlerAssumption
         DEF Init, Idle, ServerInv, TypeOK, HandlerTypeOK
    <3> QED BY <3>1 DEF OrderInv
  <2>3. OutputInv
    BY DEF Init, OutputInv, WrittenInOrder, EndedHasSeenAll
  <2> QED BY <2>1, <2>2, <2>3
<1>2. ASSUME ServerInv, Reporting, [Next]_vars PROVE Reporting'
  BY <1>2, ReportingNext
<1>3. ASSUME ServerInv, ResponsesInv, Reporting, OrderInv, [Next]_vars
      PROVE  OrderInv'
  BY <1>3, OrderNext
<1>4. ASSUME ServerInv, MessagesInv, ResponsesInv, Reporting, OrderInv,
             OutputInv, [Next]_vars
      PROVE  OutputInv'
  BY <1>4, OutputNext
<1> QED
  BY <1>1, <1>2, <1>3, <1>4, ServerInvariant, MessagesInvariant,
     ResponsesInvariant, PTL DEF Spec

\* A response has its chunks in order and without a gap, and the last one when
\* it is ended, at whatever moment it joined the run.
THEOREM OutputHasNoGaps ==
  ASSUME ExitWaitsForStdio
  PROVE  Spec => []NoGaps
<1>1. ASSUME ServerInv, ResponsesInv, OutputInv PROVE NoGaps
  <2> SUFFICES ASSUME NEW c \in Token, NEW i \in DOMAIN written[c]
               PROVE  /\ i > 1 => written[c][i] = written[c][i - 1] + 1
                      /\ pc[c] = "ended" =>
                           written[c][Len(written[c])] = produced[token[c]]
    BY DEF NoGaps
  <2>1. written[c] # <<>>
    BY <1>1 DEF ServerInv, TypeOK
  <2> QED
    BY <1>1, <2>1 DEF OutputInv, WrittenInOrder, EndedHasSeenAll, Begun, Seen
<1> QED BY <1>1, OutputInvariant, PTL

\* The response of the request that started a run has all of its output.
THEOREM StarterSeesItAll ==
  ASSUME ExitWaitsForStdio
  PROVE  Spec => []StarterHasAll
<1>1. ASSUME ServerInv, OutputInv PROVE StarterHasAll
  <2> SUFFICES ASSUME NEW c \in Token, pc[c] = "ended", token[c] = c
               PROVE  Len(written[c]) = produced[c]
    BY DEF StarterHasAll
  <2>1. Seen(c) = produced[c]
    BY <1>1 DEF OutputInv, EndedHasSeenAll, Begun
  <2>2. written[c] \in Seq(1..MaxChunks)
    BY <1>1 DEF ServerInv, TypeOK
  <2>3. CASE written[c] = <<>>
    BY <2>1, <2>3 DEF Seen
  <2>4. CASE written[c] # <<>>
    <3>1. Len(written[c]) \in DOMAIN written[c]
      BY <2>2, <2>4
    <3> QED BY <1>1, <2>1, <2>4, <3>1 DEF OutputInv, WrittenInOrder, Seen
  <2> QED BY <2>3, <2>4
<1> QED BY <1>1, OutputInvariant, PTL
=============================================================================

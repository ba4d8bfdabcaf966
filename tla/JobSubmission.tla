---------------------------- MODULE JobSubmission ----------------------------
(***************************************************************************)
(* checkJobSubmission of the task scheduler's wrapper, with the HTTP       *)
(* client it uses and the challenge route it asks: each jar a job names is *)
(* hashed and challenged, one after the other, while the sandbox, the      *)
(* whitelist and the server change and connections break.  A challenge is  *)
(* named by the job, its token, the position of the jar in the job's list  *)
(* and the hash.                                                           *)
(***************************************************************************)
EXTENDS Challenge

CONSTANTS
  Job,         \* the submissions
  MaxJars,     \* bound: the jars a job names
  TokensOf,    \* the session tokens its configuration may have, each with the
               \* user as the directory they name
  NoToken,     \* token or user name missing
  EmptyToken,  \* the token of a configuration that was submitted before, or
               \* any other that makes no URL of a challenge
  NoHash

\* User and token are any strings of the configuration.
Token == ({d \in Dir : Parent[d] = NoDir} \ {WhitelistDir})
           \cup {NoToken, EmptyToken}

ASSUME JobAssumption ==
  /\ MaxJars \in Nat
  /\ TokensOf \in [Job -> SUBSET Token]
  /\ NoToken \notin Dir /\ EmptyToken \notin Dir /\ NoToken # EmptyToken
  /\ NoHash \notin Hash
  /\ \A j \in Job :
       \A t \in TokensOf[j] \cap Dir, i \in 1..MaxJars, h \in Hash :
         /\ <<j, t, i, h>> \in Challenge
         /\ Sha1Of[<<j, t, i, h>>] = h
         /\ SandboxOf[<<j, t, i, h>>] = t

VARIABLE job

jobVars == <<vars, job>>

Rejected == {"refused", "unreadable", "untokened", "nok"}

\* `given` is the token a job comes with, `token` what is left of it; `broke` is
\* observed: a request of the client ended in an IOException.
JobTypeOK ==
  job \in [Job -> [at : {"new", "loop", "asked", "admitted"} \cup Rejected,
                   jars : 0..MaxJars, jar : Nat \ {0},
                   hash : Hash \cup {NoHash}, broke : BOOLEAN,
                   given : Token, token : Token]]

\* Slip: the jars are counted from 0.
SubmissionFromZero(jars, token) ==
  [at |-> "new", jars |-> jars, jar |-> 0, hash |-> NoHash,
   broke |-> FALSE, given |-> token, token |-> token]
Submission(jars, token) ==
  [at |-> "new", jars |-> jars, jar |-> 1, hash |-> NoHash,
   broke |-> FALSE, given |-> token, token |-> token]

Goes(j, state) == job' = [job EXCEPT ![j] = state]
Asked(j) == <<j, job[j].given, job[j].jar, job[j].hash>>

\* The path of the URL must be /challenge/<user>/<token>/<jar>/<sha1>, with no
\* part empty; the base URL is taken to end with /challenge.
Routed(j) == job[j].token # EmptyToken

\* The wrapped scheduler has its say first.
CheckJobSubmission(j) ==
  /\ job[j].at = "new"
  /\ \E at \in {"loop", "refused"} : Goes(j, [job[j] EXCEPT !.at = at])
  /\ UNCHANGED vars

LacksToken(j) == job[j].token = NoToken

\* The jar is opened and hashed; only then is the token looked at.  The list of
\* a job without jars has one empty name, which no Path can have.
HashJar(j) ==
  /\ job[j].at = "loop"
  /\ \/ Goes(j, [job[j] EXCEPT !.at = "unreadable"])
     \/ /\ job[j].jars > 0
        /\ \E h \in Hash :
             Goes(j, IF LacksToken(j)
                     THEN [job[j] EXCEPT !.at = "untokened"]
                     ELSE [job[j] EXCEPT !.at = "asked", !.hash = h])
  /\ UNCHANGED vars

\* A request that was sent may arrive after its connection has broken.
ChallengeServer(j) ==
  /\ job[j].at = "asked" \/ job[j].broke
  /\ Routed(j)
  /\ Ask(Asked(j))
  /\ UNCHANGED job

Fails(j, broke) ==
  /\ job[j].at = "asked"
  /\ Goes(j, [job[j] EXCEPT !.at = "nok", !.broke = broke])
  /\ UNCHANGED <<fileVars, server, request>>

\* The URL has no route, or is none.
NoRoute(j) == ~Routed(j) /\ Fails(j, FALSE)

\* Nobody listens, or the connection breaks at any time before the response.
IOException(j) == Fails(j, TRUE)
Unanswered(j) == ~Serving \/ (Routed(j) /\ request[Asked(j)].at = "reset")

\* Slip: the last jar is not challenged.
LastJarOffByOne(j) == job[j].jar + 1 >= job[j].jars
LastJar(j) == job[j].jar = job[j].jars

\* Slip: the token is taken out of the configuration inside the loop.
ClearedEarly(j) ==
  IF LastJar(j) THEN [job[j] EXCEPT !.at = "admitted", !.token = EmptyToken]
  ELSE [job[j] EXCEPT !.at = "loop", !.jar = @ + 1, !.hash = NoHash,
                      !.token = EmptyToken]
Cleared(j) ==
  IF LastJar(j) THEN [job[j] EXCEPT !.at = "admitted", !.token = EmptyToken]
  ELSE [job[j] EXCEPT !.at = "loop", !.jar = @ + 1, !.hash = NoHash]

\* Slip: nothing is held against a token the server does not know.
TrustedUnlessNok(answer) == answer # "nok"
Trusted(answer) == answer = "ok"

Response(j) ==
  LET answer == request[Asked(j)].at IN
  /\ job[j].at = "asked"
  /\ Routed(j)
  /\ answer \in Answers
  /\ Goes(j, IF Trusted(answer) THEN Cleared(j)
                                ELSE [job[j] EXCEPT !.at = "nok"])
  /\ UNCHANGED <<fileVars, server, request>>

\* The server is started again; the sandboxes are still there.
Restart ==
  /\ server = "down"
  /\ server' = "up"
  /\ UNCHANGED <<fileVars, request, job>>

JobInit ==
  /\ Init
  /\ \E jars \in [Job -> 0..MaxJars],
        given \in {f \in [Job -> Token] : \A j \in Job : f[j] \in TokensOf[j]} :
       job = [j \in Job |-> Submission(jars[j], given[j])]

JobNext ==
  \/ \E j \in Job :
       \/ CheckJobSubmission(j) \/ HashJar(j)
       \/ /\ \/ ChallengeServer(j) \/ NoRoute(j)
             \/ IOException(j) \/ Response(j)
          /\ Observe
  \/ \E c \in Challenge : Callback(c) /\ Observe /\ UNCHANGED job
  \/ (Exit \/ FilesChange) /\ Observe /\ UNCHANGED job
  \/ Restart /\ Observe

\* The thread of the submission runs, as do the callbacks of the server; the
\* client has no timeout, and need not meet an IOException while the server is
\* there.
JobSpec ==
  /\ JobInit /\ [][JobNext]_jobVars
  /\ \A j \in Job : WF_jobVars(HashJar(j))
  /\ \A j \in Job :
       WF_jobVars(/\ job[j].at = "asked"
                  /\ \/ ChallengeServer(j) \/ NoRoute(j) \/ Response(j)
                     \/ Unanswered(j) /\ IOException(j)
                  /\ Observe)
  /\ \A c \in Challenge : WF_jobVars(Callback(c) /\ Observe /\ UNCHANGED job)
  /\ WF_jobVars(server = "dying" /\ Exit /\ Observe /\ UNCHANGED job)

-----------------------------------------------------------------------------

\* What JobAdmission shows of job j in state s: how far it is, the hashes that
\* the whitelist and the directory of its token vouch for, and whether the
\* server has read a file with the hash of its jar.
StageOf(s) == CASE s.at \in {"loop", "asked"} -> "checking"
                [] s.at \in Rejected          -> "rejected"
                [] OTHER                      -> s.at
VouchedFor(s) == {h \in Hash : \E f \in Jar : /\ content[f] = h
                                              /\ \/ Within(f, WhitelistDir)
                                                 \/ Within(f, s.given)}
Matched(j, s) ==
  /\ s.given \in Dir /\ s.hash # NoHash
  /\ request[<<j, s.given, s.jar, s.hash>>].data = s.hash
JarOf(j, s) == IF s.at \in Rejected \/ Matched(j, s) THEN NoHash ELSE s.hash
ClearedOf(j, s) ==
  IF s.at \in Rejected THEN 0 ELSE IF Matched(j, s) THEN s.jar ELSE s.jar - 1

Vouched == [j \in Job |-> VouchedFor(job[j])]
Jars == [j \in Job |-> job[j].jars]
Stage == [j \in Job |-> StageOf(job[j])]
JarRead == [j \in Job |-> JarOf(j, job[j])]
JarsCleared == [j \in Job |-> ClearedOf(j, job[j])]

\* The wrapper and the challenge route together implement JobAdmission: no job
\* gets in with a jar that nothing vouched for after it was read, whatever the
\* files, the server and the connection do between its jars, and between the
\* reading of a file and the answer
\* (AuditEnforcingTaskSchedulerWrapper.java:86-121, challenge.js:71-144).
Admission == INSTANCE JobAdmission WITH
  vouched <- Vouched, jars <- Jars, stage <- Stage,
  jar <- JarRead, cleared <- JarsCleared

ImplementsAdmission == Admission!AdmissionSpec

\* An admitted job can be accounted for: it came with a token, even where all
\* its jars are whitelisted ("Rejecting job submission without audit token",
\* AuditEnforcingTaskSchedulerWrapper.java:111-114); where that is the name of a
\* sandbox, its recipe was started; and each of its jars has an OK which was
\* given to the audit log under that user and token (challenge.js:47-54,
\* 171-195).
AdmittedIsAccountable ==
  \A j \in Job : job[j].at = "admitted" =>
    /\ job[j].given \notin {NoToken, EmptyToken}
    /\ job[j].given \in Sandbox => job[j].given \in made
    /\ \A i \in 1..job[j].jars : \E h \in Hash :
         LET r == request[<<j, job[j].given, i, h>>]
         IN r.at = "ok" /\ r.records # <<>> /\ r.records[Len(r.records)] = 2

\* "Job submission failed audit server check"
\* (AuditEnforcingTaskSchedulerWrapper.java:115) is said of a job with a token
\* for no other reason than these: the client met an IOException, be the check
\* made or not; the server did not know the token; it found no jar that stayed
\* in place all the while; or it could not look at one of the directories
\* (AuditServerHttpClient.java:32-45).
RejectionIsExplained ==
  \A j \in Job : job[j].at = "nok" /\ job[j].given \in Dir =>
    LET c == Asked(j)
    IN \/ job[j].broke
       \/ request[c].at = "unknown"
       \/ request[c].at = "nok" /\ (steady[c] = {} \/ request[c].failed)

=============================================================================

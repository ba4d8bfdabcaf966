------------------------- MODULE JobSubmissionProofs -------------------------
(***************************************************************************)
(* Theorems about JobSubmission, for any number of submissions, of jars    *)
(* they name and of directories their tokens may name: what an admitted    *)
(* job and a failed check tell of the server, and that the wrapper and the *)
(* challenge route together implement JobAdmission.                        *)
(***************************************************************************)
EXTENDS JobSubmission, ChallengeProofs

-----------------------------------------------------------------------------
(* The invariant.                                                          *)

\* User and token of the request have been accepted.
Accepted == {"walk", "read", "hash", "tick", "ok"}

\* A sandbox that is looked at was made; and the file that was read last has
\* the hash asked for only if that decides the answer.
Decided(c) ==
  LET r == request[c] IN
  /\ r.at \in Accepted => Known(c)
  /\ r.data = Sha1Of[c] => r.at \in {"hash", "ok", "reset"}
  /\ r.at = "ok" => r.data = Sha1Of[c]

State == [at : {"new", "loop", "asked", "admitted"} \cup Rejected,
          jars : 0..MaxJars, jar : Nat \ {0}, hash : Hash \cup {NoHash},
          broke : BOOLEAN, given : Token, token : Token]

\* The challenge of jar i of a submission.
Of(j, s, i, h) == <<j, s.given, i, h>>

\* What is true of a submission and of the challenge of its jar.
Checking(j, s) ==
  LET answer == request[Of(j, s, s.jar, s.hash)].at IN
  /\ s.given \in TokensOf[j]
  /\ s.at # "admitted" => s.token = s.given
  /\ s.jar = 1 \/ (s.jar <= s.jars /\ s.given \in Dir)
  /\ s.hash # NoHash => s.jar <= s.jars /\ s.given # NoToken
  /\ s.at \in {"new", "loop"} => s.hash = NoHash
  /\ s.at = "asked" => s.hash # NoHash
  /\ s.broke => s.at = "nok" /\ s.hash # NoHash
  /\ s.at = "admitted" =>
       s.given \in Dir /\ s.hash # NoHash /\ s.jar = s.jars /\ answer = "ok"
  /\ s.at = "nok" /\ s.given \in Dir =>
       s.hash # NoHash /\ (s.broke \/ answer \in {"unknown", "nok"})

\* The challenges of a submission are those of the jars before the one it is at,
\* and of that one once it has been hashed.
InOrder(j, s) ==
  s.given \in Dir =>
    \A i \in 1..MaxJars, h \in Hash :
      request[Of(j, s, i, h)].at # "new" =>
        i < s.jar \/ (i = s.jar /\ h = s.hash)

\* The jars before the one it is at were OK.
SoFarOk(j, s) ==
  \A i \in 1..(s.jar - 1) : \E h \in Hash : request[Of(j, s, i, h)].at = "ok"

JobInv ==
  /\ ChallengeInv
  /\ \A c \in Challenge : Decided(c)
  /\ job \in [Job -> State]
  /\ \A j \in Job :
       Checking(j, job[j]) /\ InOrder(j, job[j]) /\ SoFarOk(j, job[j])

-----------------------------------------------------------------------------
(* How requests move, as far as a submission can tell.                     *)

\* A callback takes the request r of c to s.  OK is said once a file was read
\* with the hash, and that file vouched when it was read.
Onward(c, r, s) ==
  /\ r.at \in Open
  /\ s.at \in Open \cup Answers
  /\ s.at \in Accepted => r.at \in Accepted \/ Known(c)
  /\ \/ s.data = r.data
     \/ /\ r.at = "read" /\ s.at = "hash"
        /\ s.data = Sha1Of[c] => Vouching(c) # {}
  /\ s.at = "ok" <=> r.at = "hash" /\ r.data = Sha1Of[c]

Moves(c) ==
  \/ request'[c] = request[c]
  \/ Onward(c, request[c], request'[c])
  \/ /\ request[c].at \in Open
     /\ request'[c].at = "reset" /\ request'[c].data = request[c].data

LEMMA AtIsKnown ==
  ASSUME NEW r \in Request
  PROVE  /\ r.at \in {"new", "reset"} \cup Open \cup Answers
         /\ Open \cap (Answers \cup {"new", "reset"}) = {}
BY DEF Request, Open, Answers

\* The walk, and what it leads to, reads no file.
LEMMA WalkReadsNothing ==
  ASSUME NEW r, {"at", "data"} \subseteq DOMAIN r
  PROVE  /\ \A files : \A s \in HandleFiles(r, files) :
              s.at \in Walk /\ s.data = r.data
         /\ \A root, results : \A s \in Walked(r, root, results) :
              s.at \in Walk \cup {r.at} /\ s.data = r.data
         /\ \A root : \A s \in WalkFailed(r, root) :
              s.at \in Walk /\ s.data = r.data
<1>1. /\ ReplyNok(Log(r, 3), "nok").at = "nok"
      /\ ReplyNok(Log(r, 3), "nok").data = r.data
  BY DEF ReplyNok, Log
<1>2. ASSUME NEW files, NEW s \in HandleFiles(r, files)
      PROVE  s.at \in Walk /\ s.data = r.data
  <2>1. CASE files = {}
    BY <1>1, <1>2, <2>1 DEF HandleFiles, Walk
  <2>2. CASE files # {}
    <3>1. PICK f \in files :
            s = [Log(r, 3) EXCEPT !.at = IF f = Undefined THEN "thrown"
                                                          ELSE "read",
                                  !.location = f, !.found = files \ {f}]
      BY <1>2, <2>2 DEF HandleFiles
    <3> QED BY <3>1 DEF Log, Walk
  <2> QED BY <2>1, <2>2
<1>3. ASSUME NEW root, NEW results, NEW s \in Walked(r, root, results)
      PROVE  s.at \in Walk \cup {r.at} /\ s.data = r.data
  <2>1. CASE root = WhitelistDir
    BY <1>2, <1>3, <2>1 DEF Walked
  <2>2. CASE root # WhitelistDir
    <3>1. s = [r EXCEPT !.found = @ \cup results,
                        !.reading = @ \cup {WhitelistDir}]
      BY <1>3, <2>2 DEF Walked
    <3> QED BY <3>1
  <2> QED BY <2>1, <2>2
<1>4. ASSUME NEW root, NEW s \in WalkFailed(r, root)
      PROVE  s.at \in Walk /\ s.data = r.data
  <2> DEFINE next == [r EXCEPT !.failed = TRUE]
  <2>1. s = ReplyNok(Log(next, 3), "nok") \/ s = ReplyNok(next, "nok")
    BY <1>4 DEF WalkFailed
  <2>2. {"at", "data"} \subseteq DOMAIN next /\ next.data = r.data
    OBVIOUS
  <2> HIDE DEF next
  <2> QED BY <2>1, <2>2 DEF ReplyNok, Log, Walk
<1> QED BY <1>2, <1>3, <1>4

LEMMA ArrivalReadsNothing ==
  ASSUME NEW r, {"at", "data"} \subseteq DOMAIN r, r.at = "walk",
         NEW d, NEW files
  PROVE  \A s \in Arrive(r, d, files) :
           s.at \in Walk \cup {"walk"} /\ s.data = r.data
<1> TAKE s \in Arrive(r, d, files)
<1> DEFINE m == Moved(r, d, files)
<1>1. m.at = "walk" /\ m.data = r.data /\ {"at", "data"} \subseteq DOMAIN m
  BY DEF Moved
<1> HIDE DEF m
<1>2. s = m \/ \E e \in Closing(r, d) :
                 s \in Walked(m, e, Merged(r, d, files)[e])
  BY ArriveIs DEF m
<1> QED BY <1>1, <1>2, WalkReadsNothing

\* A callback moves one request, and that one onward.
LEMMA CallbackMoves ==
  ASSUME ChallengeInv, NEW c \in Challenge, Callback(c)
  PROVE  /\ \E s : request' = [request EXCEPT ![c] = s]
                     /\ Onward(c, request[c], s)
         /\ UNCHANGED fileVars
<1> DEFINE r == request[c]
           Goal == /\ \E s : request' = [request EXCEPT ![c] = s]
                               /\ Onward(c, r, s)
                   /\ UNCHANGED fileVars
<1> SUFFICES Goal
  OBVIOUS
<1>1. /\ r \in Request /\ Rooted(c, r) /\ Inside(c, r) /\ FilesInv
      /\ r.at = "walk" => Known(c)
  BY RequestsHave DEF RequestInv, Watched
<1>2. ASSUME NEW next, Becomes(c, next), \A s \in next : Onward(c, r, s)
      PROVE  Goal
  <2> HIDE DEF r
  <2> QED BY <1>2 DEF Becomes
<1>3. /\ {"at", "data"} \subseteq DOMAIN r
      /\ \A at : /\ [r EXCEPT !.at = at].at = at
                 /\ [r EXCEPT !.at = at].data = r.data
                 /\ ReplyNok(r, at).at = at /\ ReplyNok(r, at).data = r.data
  BY <1>1 DEF Request, ReplyNok, Log
<1>4. ASSUME NEW next, Becomes(c, next), r.at = "walk",
             \A s \in next : s.at \in Walk \cup {"walk"} /\ s.data = r.data
      PROVE  Goal
  <2>1. \A s \in next : Onward(c, r, s)
    BY <1>1, <1>4 DEF Onward, Walk, Open, Answers
  <2> HIDE DEF r, Goal
  <2> QED BY <1>2, <1>4, <2>1
<1>5. CASE SandboxStat(c)
  <2> DEFINE s == [r EXCEPT !.at = "walk", !.reading = Searched(c)]
  <2>1. /\ r.at = "stat"
        /\ \/ Becomes(c, {ReplyNok(r, "unknown")})
           \/ SandboxOf[c] \in dirs /\ Becomes(c, {s})
    BY <1>5 DEF SandboxStat
  <2>2. s.at = "walk" /\ s.data = r.data
    BY <1>1 DEF Request
  <2>3. SandboxOf[c] \in dirs => Known(c)
    BY <1>1 DEF FilesInv, Known
  <2>4. Onward(c, r, ReplyNok(r, "unknown"))
    BY <1>3, <2>1 DEF Onward, Open, Answers, Accepted
  <2>5. SandboxOf[c] \in dirs => Onward(c, r, s)
    BY <2>1, <2>2, <2>3 DEF Onward, Open
  <2> HIDE DEF r, Goal, s
  <2> QED BY <1>2, <2>1, <2>4, <2>5
<1>6. ASSUME NEW d \in Dir, Readdir(c, d) PROVE Goal
  <2> DEFINE q == [r EXCEPT !.reading = @ \ {d}]
             s == [q EXCEPT !.pending = [@ EXCEPT ![d] = Pending(d)],
                            !.stating = @ \cup Entries(d)]
             next == IF Entries(d) = {} THEN Done(q, d) ELSE {s}
  <2>1. d \in r.reading /\ (Becomes(c, Failed(q, d)) \/ Becomes(c, next))
    BY <1>6 DEF Readdir
  <2>2. r.at = "walk"
    BY <1>1, <2>1 DEF Rooted, Live
  <2>3. q.at = "walk" /\ q.data = r.data /\ {"at", "data"} \subseteq DOMAIN q
    BY <1>1, <2>2 DEF Request
  <2>4. s.at = "walk" /\ s.data = r.data
    BY <2>2, <1>1 DEF Request
  <2> HIDE DEF q, s
  <2>5. \A x \in Failed(q, d) : x.at \in Walk \cup {"walk"} /\ x.data = r.data
    BY <2>3, WalkReadsNothing, ArrivalReadsNothing DEF Failed
  <2>6. \A x \in Done(q, d) : x.at \in Walk \cup {"walk"} /\ x.data = r.data
    BY <2>3, WalkReadsNothing, ArrivalReadsNothing DEF Done
  <2>7. \A x \in next : x.at \in Walk \cup {"walk"} /\ x.data = r.data
    BY <2>4, <2>6
  <2> HIDE DEF next, Goal, r
  <2> QED BY <1>4, <2>1, <2>2, <2>5, <2>7
<1>7. ASSUME NEW n \in Node, EntryStat(c, n) PROVE Goal
  <2> DEFINE q == [r EXCEPT !.stating = @ \ {n}]
             s == [q EXCEPT !.reading = @ \cup {n}]
             t == [q EXCEPT !.failed = @ \/ n \in dirs]
             next == Arrive(t, Parent[n], {n} \cap Jar)
  <2>1. n \in r.stating /\ (Becomes(c, {s}) \/ Becomes(c, next))
    BY <1>7 DEF EntryStat
  <2>2. r.at = "walk"
    BY <1>1, <2>1 DEF Rooted, Live
  <2>3. /\ s.at = "walk" /\ s.data = r.data
        /\ t.at = "walk" /\ t.data = r.data
        /\ {"at", "data"} \subseteq DOMAIN t
    BY <1>1, <2>2 DEF Request
  <2> HIDE DEF q, s, t
  <2>4. \A x \in next : x.at \in Walk \cup {"walk"} /\ x.data = r.data
    BY <2>3, ArrivalReadsNothing
  <2> HIDE DEF next, Goal, r
  <2> QED BY <1>4, <2>1, <2>2, <2>3, <2>4
<1>8. CASE ReadFile(c)
  <2> DEFINE read(data) == [r EXCEPT !.at = "hash", !.data = data]
             next == {read(data) : data \in {content[r.location], Absent}}
  <2>1. r.at = "read" /\ Becomes(c, next)
    BY <1>8 DEF ReadFile
  <2>2. r.location \in Sought(c) \cap Jar /\ Absent # Sha1Of[c]
    BY <1>1, <2>1, ChallengeAssumption DEF Inside
  <2>3. ASSUME NEW data \in {content[r.location], Absent}
        PROVE  Onward(c, r, read(data))
    <3>1. read(data).at = "hash" /\ read(data).data = data
      BY <1>1 DEF Request
    <3>2. data = Sha1Of[c] => r.location \in Vouching(c)
      BY <2>2, <2>3 DEF Sought, Vouching
    <3> HIDE DEF read
    <3> QED BY <2>1, <3>1, <3>2 DEF Onward, Open, Accepted
  <2>4. \A s \in next : Onward(c, r, s)
    BY <2>3
  <2> HIDE DEF next, Goal, r
  <2> QED BY <1>2, <2>1, <2>4
<1>9. CASE Sha1Ready(c)
  <2> DEFINE next == CASE r.data = Absent -> {[r EXCEPT !.at = "thrown"]}
                       [] r.data = Sha1Of[c] -> {ReplyOk(r)}
                       [] OTHER -> IF r.found = {} THEN {ReplyNok(r, "nok")}
                                   ELSE {[r EXCEPT !.at = "tick"]}
  <2>1. r.at = "hash" /\ Becomes(c, next)
    BY <1>9 DEF Sha1Ready
  <2>2. Absent # Sha1Of[c] /\ ReplyOk(r) = ReplyNok(r, "ok")
    BY ChallengeAssumption DEF ReplyOk, ReplyNok
  <2>3. ASSUME NEW s \in next
        PROVE  /\ s.at \in {"thrown", "tick", "ok", "nok"} /\ s.data = r.data
               /\ s.at = "ok" <=> r.data = Sha1Of[c]
    <3>1. CASE r.data = Absent
      BY <1>3, <2>2, <2>3, <3>1
    <3>2. CASE r.data = Sha1Of[c]
      BY <1>3, <2>2, <2>3, <3>2
    <3>3. CASE r.data \notin {Absent, Sha1Of[c]}
      BY <1>3, <2>3, <3>3
    <3> QED BY <3>1, <3>2, <3>3
  <2>4. \A s \in next : Onward(c, r, s)
    <3> HIDE DEF next
    <3> QED BY <2>1, <2>3 DEF Onward, Open, Answers, Accepted
  <2> HIDE DEF next, Goal, r
  <2> QED BY <1>2, <2>1, <2>4
<1>10. CASE NextTick(c)
  <2>1. r.at = "tick" /\ Becomes(c, HandleFiles(r, r.found))
    BY <1>10 DEF NextTick
  <2>2. \A s \in HandleFiles(r, r.found) : s.at \in Walk /\ s.data = r.data
    BY <1>3, WalkReadsNothing
  <2>3. \A s \in HandleFiles(r, r.found) : Onward(c, r, s)
    BY <2>1, <2>2 DEF Onward, Walk, Open, Answers, Accepted
  <2> HIDE DEF Goal, r
  <2> QED BY <1>2, <2>1, <2>3
<1> QED BY <1>5, <1>6, <1>7, <1>8, <1>9, <1>10 DEF Callback

\* All of them, for each request.
LEMMA StepMoves ==
  ASSUME ChallengeInv,
         (\E c \in Challenge : Callback(c)) \/ Exit \/ FilesChange
  PROVE  (\A c \in Challenge : Moves(c)) /\ made \subseteq made'
<1>1. request \in [Challenge -> Request]
  BY DEF ChallengeInv
<1>2. ASSUME NEW c \in Challenge, Callback(c)
      PROVE  (\A e \in Challenge : Moves(e)) /\ made \subseteq made'
  <2>1. PICK s : /\ request' = [request EXCEPT ![c] = s]
                 /\ Onward(c, request[c], s)
    BY <1>2, CallbackMoves
  <2>2. /\ request'[c] = s /\ made' = made
        /\ \A e \in Challenge : e # c => request'[e] = request[e]
    BY <1>1, <1>2, <2>1, CallbackMoves DEF fileVars
  <2> QED BY <2>1, <2>2 DEF Moves
<1>3. CASE Exit
  <2>1. \A c \in Challenge :
          \/ /\ request[c].at \in Open /\ request'[c].at = "reset"
             /\ request'[c].data = request[c].data
          \/ request'[c] = request[c]
    BY <1>3 DEF Exit, Fresh
  <2>2. made' = made
    BY <1>3 DEF Exit, fileVars
  <2> QED BY <2>1, <2>2 DEF Moves
<1>4. CASE FilesChange
  <2>1. request' = request /\ made \subseteq made'
    BY <1>4 DEF FilesChange, MakeSandbox, MakeDir, RemoveDir, Write, RemoveFile
  <2> QED BY <2>1 DEF Moves
<1> QED BY <1>2, <1>3, <1>4

-----------------------------------------------------------------------------
(* The invariant is kept.                                                  *)

\* The challenges of a submission are there, each for its own hash, and in the
\* directory of the token.
LEMMA ItsChallenges ==
  ASSUME JobInv, NEW j \in Job, job[j].given \in Dir,
         NEW i \in 1..MaxJars, NEW h \in Hash, NEW c, c = Of(j, job[j], i, h)
  PROVE  c \in Challenge /\ Sha1Of[c] = h /\ SandboxOf[c] = job[j].given
<1>1. job[j].given \in TokensOf[j] \cap Dir
  BY DEF JobInv, Checking
<1> QED BY <1>1, JobAssumption DEF Of

\* A submission whose jar has been hashed has the challenge of that jar, if its
\* token makes a URL of one.
LEMMA ItsChallenge ==
  ASSUME JobInv, NEW j \in Job, job[j].hash # NoHash
  PROVE  /\ job[j].hash \in Hash /\ job[j].jar \in 1..MaxJars
         /\ job[j].jar <= job[j].jars
         /\ Asked(j) = Of(j, job[j], job[j].jar, job[j].hash)
         /\ job[j].given \in Dir => /\ Asked(j) \in Challenge
                                    /\ Sha1Of[Asked(j)] = job[j].hash
                                    /\ SandboxOf[Asked(j)] = job[j].given
<1>1. /\ job[j].hash \in Hash \cup {NoHash} /\ job[j].jar \in Nat \ {0}
      /\ job[j].jars \in 0..MaxJars /\ job[j].jar <= job[j].jars
  BY DEF JobInv, State, Checking
<1>2. job[j].hash \in Hash /\ job[j].jar \in 1..MaxJars
  BY <1>1, JobAssumption
<1>3. Asked(j) = Of(j, job[j], job[j].jar, job[j].hash)
  BY DEF Asked, Of
<1> QED BY <1>1, <1>2, <1>3, ItsChallenges

LEMMA JobHas ==
  ASSUME JobInv, NEW j \in Job
  PROVE  /\ job[j] \in State /\ Checking(j, job[j]) /\ InOrder(j, job[j])
         /\ SoFarOk(j, job[j])
         /\ \A i \in 1..(job[j].jar - 1) :
              i \in 1..MaxJars /\ job[j].given \in Dir
<1>1. job[j] \in State /\ Checking(j, job[j])
  BY DEF JobInv
<1>2. /\ job[j].jar \in Nat \ {0} /\ job[j].jars \in 0..MaxJars
      /\ job[j].jar = 1 \/ (job[j].jar <= job[j].jars /\ job[j].given \in Dir)
  BY <1>1 DEF Checking, State
<1>3. \A i \in 1..(job[j].jar - 1) : i \in 1..MaxJars /\ job[j].given \in Dir
  BY <1>2, JobAssumption
<1> QED BY <1>1, <1>3 DEF JobInv

\* A submission that may have a request out.
LEMMA MayAsk ==
  ASSUME JobInv, NEW j \in Job, job[j].at = "asked" \/ job[j].broke, Routed(j)
  PROVE  /\ job[j].hash # NoHash /\ job[j].given \in Dir
         /\ Asked(j) \in Challenge
<1>1. /\ job[j].hash # NoHash /\ job[j].given # NoToken
      /\ job[j].given = job[j].token /\ job[j].given \in Token
  BY JobHas DEF Checking, State
<1>2. job[j].given \in Dir
  BY <1>1 DEF Routed, Token
<1> QED BY <1>1, <1>2, ItsChallenge

\* What was decided stays decided.
LEMMA DecidedStays ==
  ASSUME NEW c \in Challenge, request[c] \in Request, Decided(c),
         made \subseteq made',
         \/ Moves(c)
         \/ /\ request[c].at = "new" /\ request'[c].at = "stat"
            /\ request'[c].data = request[c].data
  PROVE  Decided(c)'
<1>1. Known(c) => Known(c)'
  BY DEF Known
<1>2. request[c].at \in {"new", "reset"} \cup Open \cup Answers
  BY AtIsKnown
<1>3. CASE request'[c] = request[c]
  BY <1>1, <1>3 DEF Decided
<1>4. CASE Onward(c, request[c], request'[c])
  BY <1>1, <1>4 DEF Decided, Onward, Open, Accepted
<1>5. CASE /\ request[c].at \in Open
           /\ request'[c].at = "reset" /\ request'[c].data = request[c].data
  BY <1>1, <1>5 DEF Decided, Accepted
<1>6. CASE /\ request[c].at = "new" /\ request'[c].at = "stat"
           /\ request'[c].data = request[c].data
  BY <1>1, <1>6 DEF Decided, Accepted
<1> QED BY <1>3, <1>4, <1>5, <1>6 DEF Moves

\* The challenge of the jar that submission j is at.
ItsTurn(j, c) ==
  \A k \in Job, i \in 1..MaxJars, h \in Hash :
    c = Of(k, job[k], i, h) => k = j /\ i = job[j].jar /\ h = job[j].hash

\* The requests move, the submissions do not; a challenge is only asked by the
\* submission that is at its jar.
LEMMA RequestsMove ==
  ASSUME JobInv, ChallengeInv', UNCHANGED job, made \subseteq made',
         \A c \in Challenge :
           \/ Moves(c)
           \/ /\ request[c].at = "new" /\ request'[c].at = "stat"
              /\ request'[c].data = request[c].data
              /\ \E j \in Job : ItsTurn(j, c)
  PROVE  JobInv'
<1>1. Open \cap (Answers \cup {"new", "reset"}) = {}
      /\ "ok" \in Answers /\ "nok" \in Answers /\ "unknown" \in Answers
      /\ "new" \notin Answers
  BY DEF Open, Answers
<1>2. ASSUME NEW c \in Challenge
      PROVE  /\ Decided(c)'
             /\ request[c].at \in Answers => request'[c].at = request[c].at
             /\ request[c].at = "new" /\ request'[c].at # "new" =>
                  \E j \in Job : ItsTurn(j, c)
  <2>1. request[c] \in Request /\ Decided(c)
    BY RequestsHave DEF JobInv
  <2>2. Decided(c)'
    BY <2>1, DecidedStays
  <2>3. CASE Moves(c)
    <3>1. /\ request[c].at \in Answers => request'[c].at = request[c].at
          /\ request[c].at = "new" => request'[c].at = "new"
      BY <1>1, <2>3 DEF Moves, Onward
    <3> QED BY <2>2, <3>1
  <2>4. CASE ~Moves(c)
    BY <1>1, <2>2, <2>4
  <2> QED BY <2>3, <2>4
<1>3. ASSUME NEW j \in Job PROVE Checking(j, job[j])'
  <2>1. Checking(j, job[j]) /\ job'[j] = job[j]
    BY JobHas
  <2>2. CASE job[j].hash = NoHash \/ job[j].given \notin Dir
    BY <2>1, <2>2 DEF Checking
  <2>3. CASE job[j].hash # NoHash /\ job[j].given \in Dir
    <3> DEFINE c == Of(j, job[j], job[j].jar, job[j].hash)
    <3>1. c \in Challenge
      BY <2>3, ItsChallenge
    <3>2. /\ request[c].at = "ok" => request'[c].at = "ok"
          /\ request[c].at \in {"unknown", "nok"} =>
               request'[c].at \in {"unknown", "nok"}
      BY <1>1, <1>2, <3>1
    <3> QED BY <2>1, <3>2 DEF Checking
  <2> QED BY <2>2, <2>3
<1>4. ASSUME NEW j \in Job PROVE InOrder(j, job[j])'
  <2>1. InOrder(j, job[j]) /\ job'[j] = job[j]
    BY JobHas
  <2>2. ASSUME job[j].given \in Dir, NEW i \in 1..MaxJars, NEW h \in Hash,
               NEW c, c = Of(j, job[j], i, h), request'[c].at # "new"
        PROVE  i < job[j].jar \/ (i = job[j].jar /\ h = job[j].hash)
    <3>1. c \in Challenge
      BY <2>2, ItsChallenges
    <3>2. CASE request[c].at # "new"
      BY <2>1, <2>2, <3>2 DEF InOrder
    <3>3. CASE request[c].at = "new"
      <4>1. PICK k \in Job : ItsTurn(k, c)
        BY <1>2, <2>2, <3>1, <3>3
      <4> QED BY <2>2, <4>1 DEF ItsTurn
    <3> QED BY <3>2, <3>3
  <2>3. \A i, h : Of(j, job[j], i, h)' = Of(j, job[j], i, h)
    BY <2>1 DEF Of
  <2> QED BY <2>1, <2>2, <2>3 DEF InOrder
<1>5. ASSUME NEW j \in Job PROVE SoFarOk(j, job[j])'
  <2>1. SoFarOk(j, job[j]) /\ job'[j] = job[j]
        /\ \A i \in 1..(job[j].jar - 1) :
             i \in 1..MaxJars /\ job[j].given \in Dir
    BY JobHas
  <2>2. ASSUME NEW i \in 1..(job[j].jar - 1), NEW h \in Hash,
               NEW c, c = Of(j, job[j], i, h), request[c].at = "ok"
        PROVE  request'[c].at = "ok"
    BY <1>1, <1>2, <2>1, <2>2, ItsChallenges
  <2>3. \A i, h : Of(j, job[j], i, h)' = Of(j, job[j], i, h)
    BY <2>1 DEF Of
  <2> QED BY <2>1, <2>2, <2>3 DEF SoFarOk
<1> QED BY <1>2, <1>3, <1>4, <1>5 DEF JobInv

\* The route or the files go on.
LEMMA RouteInv ==
  ASSUME JobInv, Observe, UNCHANGED job,
         (\E c \in Challenge : Callback(c)) \/ Exit \/ FilesChange
  PROVE  JobInv'
BY StepInv, StepMoves, RequestsMove DEF JobInv

\* What the arrival of the challenge of j does.
LEMMA ChallengeArrives ==
  ASSUME JobInv, NEW j \in Job, ChallengeServer(j), NEW c, c = Asked(j)
  PROVE  /\ c \in Challenge /\ Ask(c) /\ UNCHANGED <<fileVars, job>>
         /\ request[c].at = "new" /\ request'[c].at = "stat"
         /\ request'[c].data = request[c].data
         /\ \A e \in Challenge : e # c => request'[e] = request[e]
<1>1. c \in Challenge /\ Ask(c) /\ UNCHANGED job
  BY MayAsk DEF ChallengeServer
<1>2. request \in [Challenge -> Request] /\ request[c] \in Request
  BY <1>1 DEF JobInv, ChallengeInv
<1>3. /\ [Log(request[c], 1) EXCEPT !.at = "stat"].at = "stat"
      /\ [Log(request[c], 1) EXCEPT !.at = "stat"].data = request[c].data
  BY <1>2 DEF Log, Request
<1> QED BY <1>1, <1>2, <1>3 DEF Ask, Becomes

\* A challenge is asked for the jar a submission is at.
LEMMA ChallengeServerInv ==
  ASSUME JobInv, Observe, NEW j \in Job, ChallengeServer(j)
  PROVE  JobInv'
<1>1. PICK c : c = Asked(j)
  OBVIOUS
<1>2. /\ c \in Challenge /\ Ask(c) /\ UNCHANGED <<fileVars, job>>
      /\ request[c].at = "new" /\ request'[c].at = "stat"
      /\ request'[c].data = request[c].data
      /\ \A e \in Challenge : e # c => request'[e] = request[e]
  BY <1>1, ChallengeArrives
<1>3. ChallengeInv'
  BY <1>2, StepInv DEF JobInv
<1>4. ItsTurn(j, c)
  BY <1>1 DEF Asked, Of, ItsTurn
<1>5. \A e \in Challenge : e # c => Moves(e)
  BY <1>2 DEF Moves
<1> QED BY <1>2, <1>3, <1>4, <1>5, RequestsMove DEF fileVars

\* The submission moves, the requests do not.
LEMMA SubmissionMoves ==
  ASSUME JobInv, NEW j \in Job, NEW s \in State, Goes(j, s),
         Checking(j, s), InOrder(j, s), SoFarOk(j, s),
         ChallengeInv', UNCHANGED <<made, request>>
  PROVE  JobInv'
<1>1. /\ job' \in [Job -> State] /\ job'[j] = s
      /\ \A k \in Job : k # j => job'[k] = job[k]
  BY DEF JobInv, Goes
<1>2. ASSUME NEW c \in Challenge PROVE Decided(c)'
  BY DEF JobInv, Decided, Known
<1>3. ASSUME NEW k \in Job
      PROVE  /\ Checking(k, job'[k]) /\ InOrder(k, job'[k])
             /\ SoFarOk(k, job'[k])
  BY <1>1, JobHas
<1>4. ASSUME NEW k \in Job
      PROVE  Checking(k, job[k])' /\ InOrder(k, job[k])' /\ SoFarOk(k, job[k])'
  BY <1>3 DEF Checking, InOrder, SoFarOk, Of
<1> QED BY <1>1, <1>2, <1>4 DEF JobInv

\* It is rejected, with what it had.
LEMMA RejectedMoves ==
  ASSUME JobInv, NEW j \in Job, NEW at \in Rejected, NEW broke \in BOOLEAN,
         Goes(j, [job[j] EXCEPT !.at = at, !.broke = broke]),
         job[j].at \in {"new", "loop", "asked"},
         broke => at = "nok" /\ job[j].hash # NoHash,
         at = "nok" /\ job[j].given \in Dir =>
           job[j].hash # NoHash
             /\ (broke \/ request[Asked(j)].at \in {"unknown", "nok"}),
         ChallengeInv', UNCHANGED <<made, request>>
  PROVE  JobInv'
<1> DEFINE s == [job[j] EXCEPT !.at = at, !.broke = broke]
<1>1. /\ job[j] \in State /\ Checking(j, job[j]) /\ InOrder(j, job[j])
      /\ SoFarOk(j, job[j])
  BY JobHas
<1>2. /\ s.at = at /\ s.jars = job[j].jars /\ s.jar = job[j].jar
      /\ s.hash = job[j].hash /\ s.given = job[j].given
      /\ s.token = job[j].token /\ s.broke = broke /\ s \in State
  BY <1>1 DEF State, Rejected
<1> HIDE DEF s
<1>3. Checking(j, s) /\ InOrder(j, s) /\ SoFarOk(j, s)
  <2>1. Of(j, s, s.jar, s.hash) = Asked(j)
    BY <1>2 DEF Of, Asked
  <2>2. Checking(j, s)
    BY <1>1, <1>2, <2>1 DEF Checking, Rejected
  <2> QED BY <1>1, <1>2, <2>2 DEF InOrder, SoFarOk, Of
<1> QED BY <1>2, <1>3, SubmissionMoves DEF s

LEMMA CheckJobSubmissionInv ==
  ASSUME JobInv, NEW j \in Job, CheckJobSubmission(j)
  PROVE  JobInv'
<1>1. PICK at \in {"loop", "refused"} :
        job[j].at = "new" /\ Goes(j, [job[j] EXCEPT !.at = at])
  BY DEF CheckJobSubmission
<1> DEFINE s == [job[j] EXCEPT !.at = at]
<1>2. s \in State /\ Checking(j, s) /\ InOrder(j, s) /\ SoFarOk(j, s)
  <2>1. /\ job[j] \in State /\ Checking(j, job[j]) /\ InOrder(j, job[j])
        /\ SoFarOk(j, job[j])
    BY JobHas
  <2>2. /\ s.at = at /\ s.jars = job[j].jars /\ s.jar = job[j].jar
        /\ s.hash = job[j].hash /\ s.given = job[j].given
        /\ s.token = job[j].token /\ s.broke = job[j].broke /\ s \in State
    BY <2>1 DEF State, Rejected
  <2> HIDE DEF s
  <2> QED BY <1>1, <2>1, <2>2 DEF Checking, InOrder, SoFarOk, Of
<1>3. ChallengeInv' /\ UNCHANGED <<made, request>>
  BY Unobserved DEF JobInv, CheckJobSubmission, vars, fileVars
<1> HIDE DEF s
<1> QED BY <1>1, <1>2, <1>3, SubmissionMoves DEF s

LEMMA HashJarInv ==
  ASSUME JobInv, NEW j \in Job, HashJar(j)
  PROVE  JobInv'
<1>1. /\ job[j] \in State /\ Checking(j, job[j]) /\ InOrder(j, job[j])
      /\ SoFarOk(j, job[j]) /\ job[j].at = "loop" /\ job[j].hash = NoHash
      /\ ~job[j].broke
  BY JobHas DEF HashJar, Checking
<1>2. ChallengeInv' /\ UNCHANGED <<made, request>>
  BY Unobserved DEF JobInv, HashJar, vars, fileVars
<1>3. ASSUME NEW at \in {"unreadable", "untokened"},
             Goes(j, [job[j] EXCEPT !.at = at])
      PROVE  JobInv'
  <2>1. [job[j] EXCEPT !.at = at] = [job[j] EXCEPT !.at = at, !.broke = FALSE]
    BY <1>1 DEF State
  <2> QED BY <1>1, <1>2, <1>3, <2>1, RejectedMoves DEF Rejected
<1>4. ASSUME NEW h \in Hash, job[j].jars > 0, job[j].token # NoToken,
             Goes(j, [job[j] EXCEPT !.at = "asked", !.hash = h])
      PROVE  JobInv'
  <2> DEFINE s == [job[j] EXCEPT !.at = "asked", !.hash = h]
  <2>1. /\ s.at = "asked" /\ s.jars = job[j].jars /\ s.jar = job[j].jar
        /\ s.hash = h /\ s.given = job[j].given /\ s.broke = job[j].broke
        /\ s.token = job[j].token /\ s \in State
    BY <1>1 DEF State
  <2>2. h # NoHash /\ job[j].jar <= job[j].jars
    BY <1>1, <1>4, JobAssumption DEF Checking, State
  <2> HIDE DEF s
  <2>3. Checking(j, s)
    BY <1>1, <1>4, <2>1, <2>2 DEF Checking
  <2>4. InOrder(j, s)
    BY <1>1, <2>1, JobAssumption DEF InOrder, Of
  <2>5. SoFarOk(j, s)
    BY <1>1, <2>1 DEF SoFarOk, Of
  <2> QED BY <1>2, <1>4, <2>1, <2>3, <2>4, <2>5, SubmissionMoves DEF s
<1> QED BY <1>3, <1>4 DEF HashJar, LacksToken

\* The client may fail at any time; without a route only for what is no name of
\* a directory.
LEMMA FailsInv ==
  ASSUME JobInv, Observe, NEW j \in Job, NoRoute(j) \/ IOException(j)
  PROVE  JobInv'
<1>1. PICK broke \in BOOLEAN :
        Fails(j, broke) /\ (broke \/ ~Routed(j))
  BY DEF NoRoute, IOException
<1>2. /\ job[j].at = "asked" /\ job[j].hash # NoHash
      /\ job[j].given = job[j].token
      /\ Goes(j, [job[j] EXCEPT !.at = "nok", !.broke = broke])
  BY <1>1, JobHas DEF Fails, Checking
<1>3. ~Routed(j) => job[j].given \notin Dir
  BY <1>2, JobAssumption DEF Routed
<1>4. ChallengeInv' /\ UNCHANGED <<made, request>>
  <2>1. UNCHANGED <<fileVars, server, request>> /\ FilesInv
    BY <1>1 DEF Fails, JobInv, ChallengeInv
  <2>2. FilesInv'
    BY <2>1 DEF FilesInv, fileVars, Present
  <2> QED BY <2>1, <2>2, RequestsStay DEF JobInv, fileVars
<1>5. "nok" \in Rejected
  BY DEF Rejected
<1> QED BY <1>1, <1>2, <1>3, <1>4, <1>5, RejectedMoves

LEMMA ResponseInv ==
  ASSUME JobInv, Observe, NEW j \in Job, Response(j)
  PROVE  JobInv'
<1> DEFINE answer == request[Asked(j)].at
<1>1. /\ job[j] \in State /\ Checking(j, job[j]) /\ InOrder(j, job[j])
      /\ SoFarOk(j, job[j]) /\ job[j].at = "asked" /\ job[j].hash # NoHash
      /\ job[j].jar <= job[j].jars /\ answer \in Answers
      /\ job[j].given \in Dir /\ ~job[j].broke
  BY JobHas, MayAsk DEF Response, Checking
<1>2. ChallengeInv' /\ UNCHANGED <<made, request>>
  <2>1. UNCHANGED <<fileVars, server, request>> /\ FilesInv
    BY DEF Response, JobInv, ChallengeInv
  <2>2. FilesInv'
    BY <2>1 DEF FilesInv, fileVars, Present
  <2> QED BY <2>1, <2>2, RequestsStay DEF JobInv, fileVars
<1>3. CASE answer # "ok"
  <2>1. Goes(j, [job[j] EXCEPT !.at = "nok"])
    BY <1>3 DEF Response, Trusted
  <2>2. [job[j] EXCEPT !.at = "nok"] =
          [job[j] EXCEPT !.at = "nok", !.broke = FALSE]
    BY <1>1 DEF State
  <2>3. answer \in {"unknown", "nok"} /\ "nok" \in Rejected
    BY <1>1, <1>3 DEF Answers, Rejected
  <2> QED BY <1>1, <1>2, <2>1, <2>2, <2>3, RejectedMoves
<1>4. CASE answer = "ok" /\ LastJar(j)
  <2> DEFINE s == [job[j] EXCEPT !.at = "admitted", !.token = EmptyToken]
  <2>1. Goes(j, s) /\ job[j].jar = job[j].jars
    BY <1>4 DEF Response, Trusted, Cleared, LastJar
  <2>2. /\ s.at = "admitted" /\ s.jars = job[j].jars /\ s.jar = job[j].jar
        /\ s.hash = job[j].hash /\ s.given = job[j].given
        /\ s.broke = job[j].broke /\ s \in State
    BY <1>1 DEF State, Token
  <2> HIDE DEF s
  <2>3. Of(j, s, s.jar, s.hash) = Asked(j)
    BY <2>2 DEF Of, Asked
  <2>4. Checking(j, s)
    BY <1>1, <1>4, <2>1, <2>2, <2>3 DEF Checking
  <2>5. InOrder(j, s) /\ SoFarOk(j, s)
    BY <1>1, <2>2 DEF InOrder, SoFarOk, Of
  <2> QED BY <1>2, <2>1, <2>2, <2>4, <2>5, SubmissionMoves
<1>5. CASE answer = "ok" /\ ~LastJar(j)
  <2> DEFINE s == [job[j] EXCEPT !.at = "loop", !.jar = @ + 1,
                                 !.hash = NoHash]
  <2>1. Goes(j, s) /\ job[j].jar # job[j].jars
    BY <1>5 DEF Response, Trusted, Cleared, LastJar
  <2>2. /\ s.at = "loop" /\ s.jars = job[j].jars /\ s.jar = job[j].jar + 1
        /\ s.hash = NoHash /\ s.given = job[j].given /\ s.broke = job[j].broke
        /\ s.token = job[j].token /\ s \in State
    <3>1. job[j].jar + 1 \in Nat \ {0}
      BY <1>1 DEF State
    <3> QED BY <1>1, <3>1 DEF State
  <2>3. /\ job[j].jar \in Nat \ {0} /\ job[j].jars \in Nat
        /\ job[j].jar + 1 <= job[j].jars
    <3>1. job[j].jar \in Nat \ {0} /\ job[j].jars \in 0..MaxJars
      BY <1>1 DEF State
    <3>2. job[j].jars \in Nat
      BY <3>1, JobAssumption
    <3> QED BY <1>1, <2>1, <3>1, <3>2
  <2> HIDE DEF s
  <2>4. Checking(j, s)
    BY <1>1, <2>2, <2>3 DEF Checking
  <2>5. InOrder(j, s)
    BY <1>1, <2>2, <2>3 DEF InOrder, Of
  <2>6. SoFarOk(j, s)
    <3>1. job[j].hash \in Hash
      BY <1>1, ItsChallenge
    <3>2. ASSUME NEW i \in 1..(s.jar - 1)
          PROVE  \E h \in Hash : request[Of(j, s, i, h)].at = "ok"
      <4>1. i = job[j].jar \/ i \in 1..(job[j].jar - 1)
        BY <2>2, <2>3
      <4>2. Of(j, s, job[j].jar, job[j].hash) = Asked(j)
        BY <2>2 DEF Of, Asked
      <4>3. \A h : Of(j, s, i, h) = Of(j, job[j], i, h)
        BY <2>2 DEF Of
      <4> QED BY <1>1, <1>5, <3>1, <4>1, <4>2, <4>3 DEF SoFarOk
    <3> QED BY <3>2 DEF SoFarOk
  <2> QED BY <1>2, <2>1, <2>2, <2>4, <2>5, <2>6, SubmissionMoves
<1> QED BY <1>3, <1>4, <1>5

LEMMA RestartInv ==
  ASSUME JobInv, Observe, Restart
  PROVE  JobInv'
<1>1. UNCHANGED <<fileVars, request, job>> /\ server' = "up" /\ FilesInv
  BY DEF Restart, JobInv, ChallengeInv
<1>2. FilesInv'
  BY <1>1 DEF FilesInv, fileVars, Present
<1>3. ChallengeInv'
  BY <1>1, <1>2, RequestsStay DEF JobInv, fileVars
<1>4. \A j \in Job : Checking(j, job[j])' /\ InOrder(j, job[j])'
                       /\ SoFarOk(j, job[j])'
  BY <1>1, JobHas DEF Checking, InOrder, SoFarOk, Of
<1>5. \A c \in Challenge : Decided(c)'
  BY <1>1 DEF JobInv, Decided, Known, fileVars
<1> QED BY <1>1, <1>3, <1>4, <1>5 DEF JobInv

LEMMA JobInitInv == JobInit => JobInv
<1> SUFFICES ASSUME JobInit PROVE JobInv
  OBVIOUS
<1>1. PICK jars \in [Job -> 0..MaxJars],
           given \in {f \in [Job -> Token] :
                        \A j \in Job : f[j] \in TokensOf[j]} :
        job = [j \in Job |-> Submission(jars[j], given[j])]
  BY DEF JobInit
<1>2. ChallengeInv
  BY InitInv DEF JobInit
<1>3. \A c \in Challenge : request[c].at = "new" /\ request[c].data = Absent
  BY DEF JobInit, Init, Fresh
<1>4. ASSUME NEW c \in Challenge PROVE Decided(c)
  <2>1. Absent # Sha1Of[c]
    BY ChallengeAssumption
  <2> QED BY <1>3, <2>1 DEF Decided, Accepted
<1>5. ASSUME NEW j \in Job
      PROVE  /\ job[j] \in State /\ job[j].at = "new" /\ job[j].jar = 1
             /\ job[j].hash = NoHash /\ job[j].given \in TokensOf[j]
             /\ job[j].token = job[j].given /\ ~job[j].broke
  BY <1>1 DEF Submission, State
<1>6. ASSUME NEW j \in Job
      PROVE  Checking(j, job[j]) /\ InOrder(j, job[j]) /\ SoFarOk(j, job[j])
  <2>1. Checking(j, job[j])
    BY <1>5 DEF Checking
  <2>2. InOrder(j, job[j])
    <3>1. ASSUME NEW i \in 1..MaxJars, NEW h \in Hash, job[j].given \in Dir
          PROVE  Of(j, job[j], i, h) \in Challenge
      <4>1. job[j].given \in TokensOf[j] \cap Dir
        BY <1>5, <3>1
      <4> QED BY <4>1, JobAssumption DEF Of
    <3> QED BY <1>3, <3>1 DEF InOrder
  <2>3. SoFarOk(j, job[j])
    BY <1>5 DEF SoFarOk
  <2> QED BY <2>1, <2>2, <2>3
<1>7. job \in [Job -> State]
  BY <1>1, <1>5
<1> QED BY <1>2, <1>4, <1>6, <1>7 DEF JobInv

LEMMA JobNextInv ==
  ASSUME JobInv, [JobNext]_jobVars
  PROVE  JobInv'
<1>1. CASE UNCHANGED jobVars
  <2>1. UNCHANGED <<made, request, job>> /\ ChallengeInv'
    BY <1>1, Unobserved DEF jobVars, vars, fileVars, JobInv
  <2>2. \A j \in Job : Checking(j, job[j])' /\ InOrder(j, job[j])'
                         /\ SoFarOk(j, job[j])'
    BY <2>1, JobHas DEF Checking, InOrder, SoFarOk, Of
  <2>3. \A c \in Challenge : Decided(c)'
    BY <2>1 DEF JobInv, Decided, Known
  <2> QED BY <2>1, <2>2, <2>3 DEF JobInv
<1>2. CASE JobNext
  BY <1>2, CheckJobSubmissionInv, HashJarInv, ChallengeServerInv,
     FailsInv, ResponseInv, RouteInv, RestartInv DEF JobNext
<1> QED BY <1>1, <1>2

LEMMA JobInvariant == JobSpec => []JobInv
BY JobInitInv, JobNextInv, PTL DEF JobSpec

-----------------------------------------------------------------------------
(* The wrapper and the route implement JobAdmission.                       *)

LEMMA Shown ==
  ASSUME NEW j \in Job
  PROVE  /\ Vouched[j] = VouchedFor(job[j]) /\ Jars[j] = job[j].jars
         /\ Stage[j] = StageOf(job[j]) /\ JarRead[j] = JarOf(j, job[j])
         /\ JarsCleared[j] = ClearedOf(j, job[j])
BY DEF Vouched, Jars, Stage, JarRead, JarsCleared

LEMMA Functions ==
  /\ JarRead = [k \in Job |-> JarRead[k]]
  /\ JarsCleared = [k \in Job |-> JarsCleared[k]]
  /\ Stage = [k \in Job |-> Stage[k]]
BY DEF JarRead, JarsCleared, Stage

\* The submission moves, the requests and the files do not.
LEMMA SubmissionShows ==
  ASSUME JobInv, NEW j \in Job, NEW s, Goes(j, s),
         s.jars = job[j].jars, s.given = job[j].given,
         UNCHANGED <<content, request>>
  PROVE  /\ UNCHANGED <<Vouched, Jars>>
         /\ Stage' = [Stage EXCEPT ![j] = StageOf(s)]
         /\ JarRead' = [JarRead EXCEPT ![j] = JarOf(j, s)]
         /\ JarsCleared' = [JarsCleared EXCEPT ![j] = ClearedOf(j, s)]
<1>1. job'[j] = s /\ \A k \in Job : k # j => job'[k] = job[k]
  BY DEF JobInv, Goes
<1>2. ASSUME NEW k \in Job
      PROVE  /\ StageOf(job'[k]) = IF k = j THEN StageOf(s) ELSE StageOf(job[k])
             /\ JarOf(k, job[k])' = IF k = j THEN JarOf(j, s)
                                             ELSE JarOf(k, job[k])
             /\ ClearedOf(k, job[k])' = IF k = j THEN ClearedOf(j, s)
                                                 ELSE ClearedOf(k, job[k])
             /\ VouchedFor(job[k])' = VouchedFor(job[k])
             /\ job'[k].jars = job[k].jars
  BY <1>1 DEF JarOf, ClearedOf, Matched, VouchedFor
<1>3. StageOf(s)' = StageOf(s)
  OBVIOUS
<1> QED BY <1>2 DEF Vouched, Jars, Stage, JarRead, JarsCleared

\* It is rejected, whatever its jar.
LEMMA Rejects ==
  ASSUME JobInv, NEW j \in Job, NEW s, Goes(j, s),
         job[j].at \in {"new", "loop", "asked"}, s.at \in Rejected,
         s.jars = job[j].jars, s.given = job[j].given,
         UNCHANGED <<content, request>>
  PROVE  Admission!AdmissionNext
<1>1. StageOf(s) = "rejected" /\ Stage[j] \in {"new", "checking"}
  BY Shown DEF StageOf, Rejected
<1>2. JarOf(j, s) = NoHash /\ ClearedOf(j, s) = 0
  BY DEF JarOf, ClearedOf
<1>3. Admission!Reject(j)
  BY <1>1, <1>2, SubmissionShows DEF Admission!Reject
<1> QED BY <1>3 DEF Admission!AdmissionNext

LEMMA CheckJobSubmissionShows ==
  ASSUME JobInv, NEW j \in Job, CheckJobSubmission(j)
  PROVE  Admission!AdmissionNext
<1>1. PICK at \in {"loop", "refused"} :
        job[j].at = "new" /\ Goes(j, [job[j] EXCEPT !.at = at])
  BY DEF CheckJobSubmission
<1> DEFINE s == [job[j] EXCEPT !.at = at]
<1>2. /\ s.at = at /\ s.jars = job[j].jars /\ s.jar = job[j].jar
      /\ s.hash = job[j].hash /\ s.given = job[j].given
  BY JobHas DEF State
<1>3. UNCHANGED <<content, request>> /\ Goes(j, s)
  BY <1>1 DEF CheckJobSubmission, vars, fileVars
<1> HIDE DEF s
<1>4. CASE at = "refused"
  BY <1>1, <1>2, <1>3, <1>4, Rejects DEF Rejected
<1>5. CASE at = "loop"
  <2>1. Stage[j] = "new" /\ StageOf(s) = "checking"
    BY <1>1, <1>2, <1>5, Shown DEF StageOf, Rejected
  <2>2. JarOf(j, s) = JarRead[j] /\ ClearedOf(j, s) = JarsCleared[j]
    BY <1>1, <1>2, <1>5, Shown DEF JarOf, ClearedOf, Matched, Rejected
  <2>3. Admission!Begin(j)
    BY <1>2, <1>3, <2>1, <2>2, Functions, SubmissionShows DEF Admission!Begin
  <2> QED BY <2>3 DEF Admission!AdmissionNext
<1> QED BY <1>4, <1>5

LEMMA HashJarShows ==
  ASSUME JobInv, NEW j \in Job, HashJar(j)
  PROVE  Admission!AdmissionNext
<1>1. /\ job[j] \in State /\ Checking(j, job[j]) /\ InOrder(j, job[j])
      /\ job[j].at = "loop" /\ job[j].hash = NoHash
      /\ UNCHANGED <<content, request>>
  BY JobHas DEF HashJar, Checking, vars, fileVars
<1>2. ASSUME NEW at \in {"unreadable", "untokened"},
             Goes(j, [job[j] EXCEPT !.at = at])
      PROVE  Admission!AdmissionNext
  <2> DEFINE s == [job[j] EXCEPT !.at = at]
  <2>1. /\ s.at = at /\ s.jars = job[j].jars /\ s.jar = job[j].jar
        /\ s.hash = job[j].hash /\ s.given = job[j].given
    BY <1>1 DEF State
  <2> HIDE DEF s
  <2> QED BY <1>1, <1>2, <2>1, Rejects DEF Rejected, s
<1>3. ASSUME NEW h \in Hash, job[j].jars > 0,
             Goes(j, [job[j] EXCEPT !.at = "asked", !.hash = h])
      PROVE  Admission!AdmissionNext
  <2> DEFINE s == [job[j] EXCEPT !.at = "asked", !.hash = h]
  <2>1. /\ s.at = "asked" /\ s.jars = job[j].jars /\ s.jar = job[j].jar
        /\ s.hash = h /\ s.given = job[j].given
    BY <1>1 DEF State
  <2>2. /\ h # NoHash /\ job[j].jar <= job[j].jars
        /\ job[j].jar \in Nat \ {0} /\ job[j].jars \in 0..MaxJars
        /\ MaxJars \in Nat
    BY <1>1, <1>3, JobAssumption DEF Checking, State
  <2> HIDE DEF s
  <2>3. ~Matched(j, s)
    <3>1. ASSUME s.given \in Dir, NEW c, c = Of(j, job[j], job[j].jar, h)
          PROVE  request[c].data # h
      <4>1. job[j].jar \in 1..MaxJars
        BY <2>2
      <4>2. c \in Challenge /\ Sha1Of[c] = h
        BY <2>1, <3>1, <4>1, ItsChallenges
      <4>3. request[c].at = "new"
        BY <1>1, <2>1, <2>2, <3>1, <4>1 DEF InOrder
      <4> QED BY <4>2, <4>3 DEF JobInv, Decided
    <3> QED BY <2>1, <3>1 DEF Matched, Of
  <2>4. Stage[j] = "checking" /\ StageOf(s) = "checking"
    BY <1>1, <2>1, Shown DEF StageOf, Rejected
  <2>5. /\ JarRead[j] = NoHash /\ JarOf(j, s) = h
        /\ JarsCleared[j] = job[j].jar - 1 /\ ClearedOf(j, s) = job[j].jar - 1
    BY <1>1, <2>1, <2>3, Shown DEF JarOf, ClearedOf, Matched, Rejected
  <2>6. Jars[j] = job[j].jars /\ JarsCleared[j] < Jars[j]
    BY <2>2, <2>5, Shown
  <2>7. /\ UNCHANGED <<Vouched, Jars, Stage, JarsCleared>>
        /\ JarRead' = [JarRead EXCEPT ![j] = h]
    <3>1. Goes(j, s)
      BY <1>3 DEF s
    <3> QED BY <1>1, <2>1, <2>4, <2>5, <3>1, Functions, SubmissionShows
  <2>8. Admission!Read(j)
    BY <2>4, <2>5, <2>6, <2>7 DEF Admission!Read
  <2> QED BY <2>8 DEF Admission!AdmissionNext
<1> QED BY <1>2, <1>3 DEF HashJar

LEMMA FailsShows ==
  ASSUME JobInv, NEW j \in Job, NoRoute(j) \/ IOException(j)
  PROVE  Admission!AdmissionNext
<1>1. PICK broke \in BOOLEAN : Fails(j, broke)
  BY DEF NoRoute, IOException
<1> DEFINE s == [job[j] EXCEPT !.at = "nok", !.broke = broke]
<1>2. /\ job[j] \in State /\ job[j].at = "asked" /\ Goes(j, s)
      /\ UNCHANGED <<content, request>>
  BY <1>1, JobHas DEF Fails, fileVars
<1>3. s.at = "nok" /\ s.jars = job[j].jars /\ s.given = job[j].given
  BY <1>2 DEF State
<1> HIDE DEF s
<1> QED BY <1>2, <1>3, Rejects DEF Rejected

\* The jar is cleared when its file is read; the arrival of OK admits the job or
\* is no step of it.
LEMMA ResponseShows ==
  ASSUME JobInv, NEW j \in Job, Response(j)
  PROVE  Admission!AdmissionNext
           \/ UNCHANGED <<Jars, Vouched, Stage, JarRead, JarsCleared>>
<1> DEFINE answer == request[Asked(j)].at
<1>1. /\ job[j] \in State /\ Checking(j, job[j]) /\ job[j].at = "asked"
      /\ job[j].hash # NoHash /\ UNCHANGED <<content, request>>
      /\ job[j].jar \in Nat \ {0} /\ job[j].jar <= job[j].jars
      /\ job[j].given \in Dir
  BY JobHas, MayAsk DEF Response, fileVars, Checking, State
<1>2. CASE answer # "ok"
  <2> DEFINE s == [job[j] EXCEPT !.at = "nok"]
  <2>1. Goes(j, s)
    BY <1>2 DEF Response, Trusted
  <2>2. s.at \in Rejected /\ s.jars = job[j].jars /\ s.given = job[j].given
    BY <1>1 DEF State, Rejected
  <2> HIDE DEF s
  <2> QED BY <1>1, <2>1, <2>2, Rejects
<1>3. ASSUME answer = "ok"
      PROVE  /\ Matched(j, job[j])
             /\ Stage[j] = "checking" /\ JarRead[j] = NoHash
             /\ JarsCleared[j] = job[j].jar /\ Jars[j] = job[j].jars
  <2>1. Asked(j) \in Challenge /\ Sha1Of[Asked(j)] = job[j].hash
    BY <1>1, ItsChallenge
  <2>2. request[Asked(j)].data = job[j].hash
    BY <1>3, <2>1 DEF JobInv, Decided
  <2>3. Matched(j, job[j])
    BY <1>1, <2>2 DEF Matched, Asked
  <2> QED BY <1>1, <2>3, Shown DEF StageOf, JarOf, ClearedOf, Rejected
<1>4. CASE answer = "ok" /\ LastJar(j)
  <2> DEFINE s == [job[j] EXCEPT !.at = "admitted", !.token = EmptyToken]
  <2>1. Goes(j, s) /\ job[j].jar = job[j].jars
    BY <1>4 DEF Response, Trusted, Cleared, LastJar
  <2>2. /\ s.at = "admitted" /\ s.jars = job[j].jars /\ s.jar = job[j].jar
        /\ s.hash = job[j].hash /\ s.given = job[j].given
    BY <1>1 DEF State
  <2> HIDE DEF s
  <2>3. Matched(j, s)
    BY <1>3, <1>4, <2>2 DEF Matched
  <2>4. /\ StageOf(s) = "admitted" /\ JarOf(j, s) = JarRead[j]
        /\ ClearedOf(j, s) = JarsCleared[j]
    BY <1>3, <1>4, <2>2, <2>3 DEF StageOf, JarOf, ClearedOf, Rejected
  <2>5. /\ UNCHANGED <<Vouched, Jars, JarRead, JarsCleared>>
        /\ Stage' = [Stage EXCEPT ![j] = "admitted"]
    BY <1>1, <2>1, <2>2, <2>4, Functions, SubmissionShows
  <2>6. Jars[j] > 0 /\ JarsCleared[j] = Jars[j]
    BY <1>1, <1>3, <1>4, <2>1
  <2>7. Admission!Admit(j)
    BY <1>3, <1>4, <2>5, <2>6 DEF Admission!Admit
  <2> QED BY <2>7 DEF Admission!AdmissionNext
<1>5. CASE answer = "ok" /\ ~LastJar(j)
  <2> DEFINE s == [job[j] EXCEPT !.at = "loop", !.jar = @ + 1,
                                 !.hash = NoHash]
  <2>1. Goes(j, s)
    BY <1>5 DEF Response, Trusted, Cleared
  <2>2. /\ s.at = "loop" /\ s.jars = job[j].jars /\ s.jar = job[j].jar + 1
        /\ s.hash = NoHash /\ s.given = job[j].given
    BY <1>1 DEF State
  <2> HIDE DEF s
  <2>3. StageOf(s) = "checking" /\ JarOf(j, s) = NoHash
        /\ ClearedOf(j, s) = s.jar - 1
    BY <2>2 DEF StageOf, JarOf, ClearedOf, Matched, Rejected
  <2>4. s.jar - 1 = job[j].jar
    BY <1>1, <2>2
  <2> QED BY <1>1, <1>3, <1>5, <2>1, <2>2, <2>3, <2>4, Functions,
             SubmissionShows
<1> QED BY <1>2, <1>4, <1>5

\* Whether the requests show the same of a submission that is not rejected.
SameMatch(j) ==
  job[j].at \in Rejected \/ (Matched(j, job[j])' <=> Matched(j, job[j]))

\* The requests move, the submissions do not: the jar of one of them is cleared,
\* while there are files that vouch for it, or what vouches changes.
LEMMA RequestsShow ==
  ASSUME JobInv, UNCHANGED job
  PROVE  /\ UNCHANGED <<Jars, Stage>>
         /\ Vouched' \in [Job -> SUBSET Hash]
         /\ \A j \in Job : SameMatch(j) =>
              JarRead'[j] = JarRead[j] /\ JarsCleared'[j] = JarsCleared[j]
BY DEF Jars, Stage, StageOf, Vouched, VouchedFor, JarRead, JarsCleared, JarOf,
       ClearedOf, SameMatch

\* No file with the hash of a jar is read.
LEMMA NobodyMatches ==
  ASSUME JobInv, UNCHANGED job, \A j \in Job : SameMatch(j)
  PROVE  Admission!AdmissionNext
<1>1. /\ JarRead' = [k \in Job |-> JarRead'[k]]
      /\ JarsCleared' = [k \in Job |-> JarsCleared'[k]]
  BY DEF JarRead, JarsCleared
<1>2. /\ \A k \in Job : JarRead'[k] = JarRead[k]
      /\ \A k \in Job : JarsCleared'[k] = JarsCleared[k]
  BY RequestsShow
<1>3. UNCHANGED <<JarRead, JarsCleared>>
  BY <1>1, <1>2, Functions
<1>4. Admission!VouchedChange
  BY <1>3, RequestsShow DEF Admission!VouchedChange
<1> QED BY <1>4 DEF Admission!AdmissionNext

\* A callback of the route: it may have read the jar of one submission, which
\* then still waits, and leaves the files as they are.
LEMMA CallbackShows ==
  ASSUME JobInv, NEW c \in Challenge, Callback(c), UNCHANGED job
  PROVE  Admission!AdmissionNext
<1>1. PICK s : request' = [request EXCEPT ![c] = s] /\ Onward(c, request[c], s)
  BY CallbackMoves DEF JobInv
<1>2. /\ request'[c] = s /\ UNCHANGED content
      /\ \A e \in Challenge : e # c => request'[e] = request[e]
      /\ Decided(c)
  BY <1>1, CallbackMoves DEF JobInv, ChallengeInv, fileVars
<1>3. ASSUME NEW k \in Job, ~SameMatch(k)
      PROVE  /\ job[k].hash # NoHash /\ job[k].given \in Dir /\ c = Asked(k)
             /\ job[k].at \notin Rejected
             /\ request[c].data # request'[c].data
             /\ ~Matched(k, job[k]) <=> Matched(k, job[k])'
  <2>1. job'[k] = job[k] /\ job[k].hash # NoHash /\ job[k].given \in Dir
        /\ job[k].at \notin Rejected
    BY <1>3 DEF SameMatch, Matched
  <2>2. /\ Asked(k) \in Challenge
        /\ Asked(k) = <<k, job[k].given, job[k].jar, job[k].hash>>
    BY <2>1, ItsChallenge DEF Asked
  <2>3. request'[Asked(k)].data # request[Asked(k)].data
    BY <1>3, <2>1, <2>2 DEF SameMatch, Matched
  <2> QED BY <1>2, <1>3, <2>1, <2>2, <2>3 DEF SameMatch
<1>4. CASE \A j \in Job : SameMatch(j)
  BY <1>4, NobodyMatches
<1>5. ASSUME NEW j \in Job, ~SameMatch(j)
      PROVE  Admission!AdmissionNext
  <2>1. /\ job[j].hash # NoHash /\ job[j].given \in Dir /\ c = Asked(j)
        /\ job[j].at \notin Rejected /\ request[c].data # request'[c].data
    BY <1>3, <1>5
  <2>2. \A k \in Job : k # j => SameMatch(k)
    BY <1>3, <2>1 DEF Asked
  <2>3. /\ job[j].hash \in Hash /\ job[j].jar \in Nat
        /\ Sha1Of[c] = job[j].hash /\ SandboxOf[c] = job[j].given
    BY <2>1, ItsChallenge
  <2>4. /\ request[c].at = "read" /\ request[c].data # Sha1Of[c]
        /\ s.data = Sha1Of[c] => Vouching(c) # {}
    BY <1>1, <1>2, <2>1 DEF Onward, Decided
  <2>5. ~Matched(j, job[j]) /\ Matched(j, job[j])' /\ Vouching(c) # {}
    <3>1. ~Matched(j, job[j])
      BY <2>1, <2>3, <2>4 DEF Matched, Asked
    <3>2. Matched(j, job[j])'
      BY <1>3, <1>5, <3>1
    <3>3. request'[c].data = Sha1Of[c]
      BY <2>1, <2>3, <3>2 DEF Matched, Asked
    <3> QED BY <1>2, <2>4, <3>1, <3>2, <3>3
  <2>6. job[j].at = "asked"
    <3>1. Of(j, job[j], job[j].jar, job[j].hash) = c
      BY <2>1 DEF Of, Asked
    <3> QED BY <2>1, <2>4, <3>1, JobHas DEF Checking, State
  <2>7. Stage[j] = "checking" /\ JarRead[j] = job[j].hash
        /\ JarsCleared[j] = job[j].jar - 1
    BY <2>1, <2>5, <2>6, Shown DEF StageOf, JarOf, ClearedOf
  <2>8. JarRead[j] \in Vouched[j]
    <3>1. PICK f \in Jar : /\ Within(f, SandboxOf[c]) \/ Within(f, WhitelistDir)
                           /\ content[f] = Sha1Of[c]
      BY <2>5 DEF Vouching
    <3> QED BY <2>3, <2>7, <3>1, Shown DEF VouchedFor
  <2>9. JarRead'[j] = NoHash /\ JarsCleared'[j] = JarsCleared[j] + 1
    <3>1. JarRead'[j] = NoHash /\ JarsCleared'[j] = job[j].jar
      BY <2>1, <2>5 DEF JarRead, JarsCleared, JarOf, ClearedOf
    <3> QED BY <2>3, <2>7, <3>1
  <2>10. /\ JarRead' = [JarRead EXCEPT ![j] = NoHash]
         /\ JarsCleared' = [JarsCleared EXCEPT ![j] = @ + 1]
    <3>1. /\ JarRead' = [k \in Job |-> JarRead'[k]]
          /\ JarsCleared' = [k \in Job |-> JarsCleared'[k]]
      BY DEF JarRead, JarsCleared
    <3>2. \A k \in Job : k # j => /\ JarRead'[k] = JarRead[k]
                                  /\ JarsCleared'[k] = JarsCleared[k]
      BY <2>2, RequestsShow
    <3> QED BY <2>9, <3>1, <3>2, Functions
  <2>11. UNCHANGED <<Vouched, Jars, Stage>>
    <3>1. \A k \in Job : VouchedFor(job[k])' = VouchedFor(job[k])
      BY <1>2 DEF VouchedFor
    <3> QED BY <3>1, RequestsShow DEF Vouched
  <2>12. Admission!Clear(j)
    BY <2>7, <2>8, <2>10, <2>11 DEF Admission!Clear
  <2> QED BY <2>12 DEF Admission!AdmissionNext
<1> QED BY <1>4, <1>5

\* Whatever else happens to the requests, the server and the files, no file is
\* read.
LEMMA OthersShow ==
  ASSUME JobInv, UNCHANGED job,
         Exit \/ FilesChange \/ Restart \/ (\E j \in Job : ChallengeServer(j))
  PROVE  Admission!AdmissionNext
<1>1. ASSUME NEW c \in Challenge PROVE request'[c].data = request[c].data
  <2>1. CASE Exit
    BY <2>1 DEF Exit, Fresh
  <2>2. CASE FilesChange
    BY <2>2 DEF FilesChange, MakeSandbox, MakeDir, RemoveDir, Write, RemoveFile
  <2>3. CASE Restart
    BY <2>3 DEF Restart
  <2>4. ASSUME NEW j \in Job, ChallengeServer(j)
        PROVE  request'[c].data = request[c].data
    <3>1. PICK e : e = Asked(j)
      OBVIOUS
    <3> QED BY <2>4, <3>1, ChallengeArrives
  <2> QED BY <2>1, <2>2, <2>3, <2>4
<1>2. ASSUME NEW k \in Job PROVE SameMatch(k)
  <2>1. CASE job[k].hash = NoHash \/ job[k].given \notin Dir
    BY <2>1 DEF SameMatch, Matched
  <2>2. CASE job[k].hash # NoHash /\ job[k].given \in Dir
    <3>1. Asked(k) \in Challenge
      BY <2>2, ItsChallenge
    <3>2. request'[Asked(k)].data = request[Asked(k)].data
      BY <1>1, <3>1
    <3> QED BY <3>2 DEF SameMatch, Matched, Asked
  <2> QED BY <2>1, <2>2
<1> QED BY <1>2, NobodyMatches

LEMMA AdmissionStep ==
  ASSUME JobInv, [JobNext]_jobVars
  PROVE  [Admission!AdmissionNext]_(Admission!admissionVars)
<1>1. CASE UNCHANGED jobVars
  BY <1>1 DEF jobVars, vars, fileVars, Vouched, VouchedFor, Jars, Stage,
              StageOf, JarRead, JarOf, JarsCleared, ClearedOf, Matched,
              Admission!admissionVars
<1>2. CASE \E j \in Job : \/ CheckJobSubmission(j) \/ HashJar(j)
                          \/ NoRoute(j) \/ IOException(j)
  BY <1>2, CheckJobSubmissionShows, HashJarShows, FailsShows
<1>3. CASE \E j \in Job : Response(j)
  BY <1>3, ResponseShows DEF Admission!admissionVars
<1>4. CASE \E j \in Job : ChallengeServer(j)
  BY <1>4, OthersShow DEF ChallengeServer
<1>5. CASE (\E c \in Challenge : Callback(c)) /\ UNCHANGED job
  BY <1>5, CallbackShows
<1>6. CASE (Exit \/ FilesChange \/ Restart) /\ UNCHANGED job
  BY <1>6, OthersShow
<1> QED BY <1>1, <1>2, <1>3, <1>4, <1>5, <1>6 DEF JobNext, Restart

LEMMA AdmissionStart == JobInit => Admission!AdmissionInit
<1> SUFFICES ASSUME JobInit PROVE Admission!AdmissionInit
  OBVIOUS
<1>1. ASSUME NEW j \in Job
      PROVE  /\ job[j].at = "new" /\ job[j].jar = 1 /\ job[j].hash = NoHash
             /\ job[j].jars \in Nat
  <2>1. PICK jars \in [Job -> 0..MaxJars], given \in [Job -> Token] :
          job = [k \in Job |-> Submission(jars[k], given[k])]
    BY DEF JobInit
  <2>2. jars[j] \in Nat
    BY JobAssumption
  <2> QED BY <2>1, <2>2 DEF Submission
<1>2. ASSUME NEW j \in Job
      PROVE  /\ StageOf(job[j]) = "new" /\ JarOf(j, job[j]) = NoHash
             /\ ClearedOf(j, job[j]) = 0
  BY <1>1 DEF StageOf, JarOf, ClearedOf, Matched, Rejected
<1>3. Jars \in [Job -> Nat] /\ Vouched \in [Job -> SUBSET Hash]
  BY <1>1 DEF Jars, Vouched, VouchedFor
<1> QED BY <1>2, <1>3 DEF Stage, JarRead, JarsCleared, Admission!AdmissionInit

-----------------------------------------------------------------------------
(* The theorems.                                                           *)

LEMMA JobInvImplies ==
  ASSUME JobInv
  PROVE  JobTypeOK /\ AdmittedIsAccountable /\ RejectionIsExplained
<1>1. JobTypeOK
  BY DEF JobInv, JobTypeOK, State
<1>2. AnswerIsAudited /\ NokIsJustified
  BY InvImplies DEF JobInv
<1>3. ASSUME NEW c \in Challenge, request[c].at = "ok"
      PROVE  request[c].records # <<>>
               /\ request[c].records[Len(request[c].records)] = 2
  <2>1. request[c].records # <<>> /\ request[c].records \in Seq({1, 2, 3})
    BY <1>2, <1>3, RequestsHave DEF AnswerIsAudited, JobInv, Request
  <2>2. Len(request[c].records) \in DOMAIN request[c].records
    BY <2>1
  <2> QED BY <1>2, <1>3, <2>1, <2>2 DEF AnswerIsAudited, Answers
<1>4. ASSUME NEW j \in Job, job[j].at = "admitted"
      PROVE  /\ job[j].given \in Dir
             /\ job[j].given \in Sandbox => job[j].given \in made
             /\ \A i \in 1..job[j].jars : i \in 1..MaxJars /\
                  \E h \in Hash : request[Of(j, job[j], i, h)].at = "ok"
  <2>1. /\ job[j].given \in Dir /\ job[j].hash # NoHash
        /\ job[j].jar = job[j].jars
        /\ request[Of(j, job[j], job[j].jar, job[j].hash)].at = "ok"
    BY <1>4, JobHas DEF Checking
  <2>2. /\ job[j].hash \in Hash /\ job[j].jar \in 1..MaxJars
        /\ Asked(j) \in Challenge /\ request[Asked(j)].at = "ok"
        /\ SandboxOf[Asked(j)] = job[j].given
    BY <2>1, ItsChallenge
  <2>3. job[j].given \in Sandbox => job[j].given \in made
    BY <2>2 DEF JobInv, Decided, Accepted, Known
  <2>4. ASSUME NEW i \in 1..job[j].jars
        PROVE  i \in 1..MaxJars /\
                 \E h \in Hash : request[Of(j, job[j], i, h)].at = "ok"
    <3>1. i = job[j].jar \/ i \in 1..(job[j].jar - 1)
      BY <2>1, <2>2, JobAssumption
    <3>2. CASE i = job[j].jar
      BY <2>1, <2>2, <3>2
    <3>3. CASE i \in 1..(job[j].jar - 1)
      BY <3>3, JobHas DEF SoFarOk
    <3> QED BY <3>1, <3>2, <3>3
  <2> QED BY <2>1, <2>3, <2>4
<1>5. AdmittedIsAccountable
  <2>1. ASSUME NEW j \in Job, job[j].at = "admitted", NEW i \in 1..job[j].jars
        PROVE  \E h \in Hash :
                 LET r == request[<<j, job[j].given, i, h>>]
                 IN /\ r.at = "ok" /\ r.records # <<>>
                    /\ r.records[Len(r.records)] = 2
    <3>1. PICK h \in Hash : request[Of(j, job[j], i, h)].at = "ok"
      BY <1>4, <2>1
    <3>2. PICK c : c = Of(j, job[j], i, h)
      OBVIOUS
    <3>3. c \in Challenge
      BY <1>4, <2>1, <3>2, ItsChallenges
    <3> QED BY <1>3, <3>1, <3>2, <3>3 DEF Of
  <2>2. \A d \in Dir : d \notin {NoToken, EmptyToken}
    BY JobAssumption
  <2> QED BY <1>4, <2>1, <2>2 DEF AdmittedIsAccountable
<1>6. RejectionIsExplained
  <2>1. ASSUME NEW j \in Job, job[j].at = "nok", job[j].given \in Dir
        PROVE  /\ Asked(j) \in Challenge
               /\ job[j].broke \/ request[Asked(j)].at \in {"unknown", "nok"}
    BY <2>1, JobHas, ItsChallenge DEF Checking
  <2> QED BY <1>2, <2>1 DEF NokIsJustified, RejectionIsExplained
<1> QED BY <1>1, <1>5, <1>6

\* The submissions are well typed.
THEOREM JobTypeCorrect == JobSpec => []JobTypeOK
BY JobInvariant, JobInvImplies, PTL

\* A job is only admitted with a token, which was that of a recipe if it is the
\* name of a sandbox, and with a record of an OK for each of its jars, given to
\* the log under that token, however often the server ended in between.
THEOREM AdmittedWithToken == JobSpec => []AdmittedIsAccountable
BY JobInvariant, JobInvImplies, PTL

\* A job with a token whose check failed met an IOException, or the server did
\* not know the token, found no jar that had been there all the time, or could
\* not look at a directory.
THEOREM FailureExplained == JobSpec => []RejectionIsExplained
BY JobInvariant, JobInvImplies, PTL

\* The wrapper and the challenge route implement JobAdmission: every step of
\* theirs is a step of it, or none.
THEOREM SubmissionImplementsAdmission == JobSpec => Admission!AdmissionSafety
<1>1. JobInv /\ [JobNext]_jobVars =>
        [Admission!AdmissionNext]_(Admission!admissionVars)
  BY AdmissionStep
<1> QED BY <1>1, AdmissionStart, JobInvariant, PTL
        DEF JobSpec, Admission!AdmissionSafety

=============================================================================

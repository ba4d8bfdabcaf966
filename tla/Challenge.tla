------------------------------ MODULE Challenge ------------------------------
(***************************************************************************)
(* GET /challenge/<user>/<token>/<jarname>/<sha1>, routes/challenge.js:    *)
(* does a jar with this SHA1 lie in the sandbox <user>-<token> or among    *)
(* the whitelisted jars?                                                   *)
(*                                                                         *)
(* The route walks both directories, one callback per readdir and stat and *)
(* many of them outstanding, then hashes the jars one by one.  Meanwhile   *)
(* svn, recipes and people change the files and rimraf removes sandboxes   *)
(* file by file, and any call of fs may fail, whatever it is asked about   *)
(* (EACCES, EMFILE, EIO).  A callback that meets what it does not expect   *)
(* throws, which ends the server.                                          *)
(*                                                                         *)
(* A call of stat or readdir and its callback are one step, made when the  *)
(* disk is looked at: the callback touches the request only.  The answer   *)
(* after readFile is about a file, which may be gone by then, so that call *)
(* and its callback are two.                                               *)
(***************************************************************************)
EXTENDS Naturals, Sequences, FiniteSets

CONSTANTS
  Challenge,     \* the requests
  Sha1Of,        \* the hash a request asks for
  SandboxOf,     \* the directory <user>-<token> a request names
  Sandbox,       \* the directories that are sandboxes of recipes
  Dir, Jar,      \* the directories and the files named *.jar there may be
  Parent,        \* the directory each of them lies in
  NoDir,         \* parent of the sandboxes, the whitelist and other roots
  WhitelistDir,
  Hash,          \* what a file may hash to, incomplete contents included
  Absent,        \* no such file
  Undefined,     \* JavaScript's undefined, where a path is expected
  MaxWrites      \* bound: files written by svn, recipes and people

\* User and token are any strings, so that a request may name a directory that
\* is no sandbox.  What has two names counts as two directories.
ASSUME ChallengeAssumption ==
  /\ Parent \in [Dir \cup Jar -> Dir \cup {NoDir}]
  /\ Dir \cap Jar = {}
  /\ NoDir \notin Dir
  /\ WhitelistDir \in Dir
  /\ Parent[WhitelistDir] = NoDir
  /\ Sha1Of \in [Challenge -> Hash]
  /\ SandboxOf \in [Challenge -> {d \in Dir : Parent[d] = NoDir}]
  /\ \A c \in Challenge : SandboxOf[c] # WhitelistDir
  /\ Sandbox \subseteq {d \in Dir : Parent[d] = NoDir} \ {WhitelistDir}
  /\ Absent \notin Hash
  /\ Undefined \notin Jar
  /\ MaxWrites \in Nat

\* A disk has finitely many files, and no directory lies within itself: from
\* any set of directories one leads out.
ASSUME LayoutAssumption ==
  /\ IsFiniteSet(Dir \cup Jar)
  /\ \A S \in (SUBSET Dir) \ {{}} : \E d \in S : Parent[d] \notin S

VARIABLES
  dirs,      \* the directories there are
  content,   \* what each jar hashes to
  made,      \* the sandboxes that have been made; a token is used once
  writes,    \* how often a file was written
  server,    \* the process of the audit server
  request,   \* the state of each request
  steady,    \* observed: matching jars in place ever since the request came
  ever       \* observed: matching jars in place at some time since

fileVars == <<dirs, content, made, writes>>
observed == <<steady, ever>>
vars == <<fileVars, server, request, observed>>

Node == Dir \cup Jar

\* A directory and those above it, up to a root.
Path[d \in Dir] ==
  {d} \cup (IF Parent[d] = NoDir THEN {} ELSE Path[Parent[d]])

Within(n, root) == n = root \/ (Parent[n] # NoDir /\ root \in Path[Parent[n]])

Entries(d) == {n \in Node : /\ Parent[n] = d
                            /\ n \in Jar => content[n] # Absent
                            /\ n \in Dir => n \in dirs}

Answers == {"ok", "nok", "unknown"}
Open == {"stat", "walk", "read", "hash", "tick", "thrown"}

\* `pending` and `results` are those of the call of walk for each directory;
\* `reading` and `stating` the calls of readdir and stat that have not returned;
\* `data` is what readFile read.  `failed` is observed: a call about a directory
\* failed in a way that passes for its absence.
Request == [at : {"new", "reset"} \cup Open \cup Answers,
            reading : SUBSET Dir, stating : SUBSET Node,
            pending : [Dir -> Nat],
            results : [Dir -> SUBSET (Jar \cup {Undefined})],
            found : SUBSET (Jar \cup {Undefined}),
            location : Jar \cup {Undefined},
            data : Hash \cup {Absent},
            records : Seq({1, 2, 3}),
            failed : BOOLEAN]

ChallengeTypeOK ==
  /\ dirs \subseteq Dir
  /\ content \in [Jar -> Hash \cup {Absent}]
  /\ made \subseteq Sandbox
  /\ writes \in 0..MaxWrites
  /\ server \in {"up", "dying", "down"}
  /\ request \in [Challenge -> Request]
  /\ steady \in [Challenge -> SUBSET Jar]
  /\ ever \in [Challenge -> SUBSET Jar]

Fresh == [at |-> "new", reading |-> {}, stating |-> {},
          pending |-> [d \in Dir |-> 0], results |-> [d \in Dir |-> {}],
          found |-> {}, location |-> Undefined, data |-> Absent,
          records |-> <<>>, failed |-> FALSE]

-----------------------------------------------------------------------------
(* The callbacks of one request, as operators on its state.                *)

Log(r, sequence) == [r EXCEPT !.records = Append(@, sequence)]

\* Slip: the answer is given without its record.
ReplyOkUnlogged(r) == [r EXCEPT !.at = "ok"]
ReplyOk(r) == [Log(r, 2) EXCEPT !.at = "ok"]
ReplyNok(r, answer) == [Log(r, 2) EXCEPT !.at = answer]

\* Slip in handleFiles: the first mismatch is the answer.
HandleFilesOnce(r, files) ==
  IF files = {}
  THEN {ReplyNok(Log(r, 3), "nok")}
  ELSE {[Log(r, 3) EXCEPT !.at = IF f = Undefined THEN "thrown" ELSE "read",
                          !.location = f,
                          !.found = {}] : f \in files}

\* handleFiles: the next file is taken off the list and its hashing started.
\* An undefined entry makes readFile, or the hash of its result, throw.
HandleFiles(r, files) ==
  IF files = {}
  THEN {ReplyNok(Log(r, 3), "nok")}
  ELSE {[Log(r, 3) EXCEPT !.at = IF f = Undefined THEN "thrown" ELSE "read",
                          !.location = f,
                          !.found = files \ {f}] : f \in files}

\* The callback of the walk of a sandbox (addWhitelistFiles) or of the
\* whitelist (handleFiles); the list of files stays empty on an error.
Walked(r, root, results) ==
  IF root = WhitelistDir
  THEN HandleFiles(r, r.found \cup results)
  ELSE {[r EXCEPT !.found = @ \cup results, !.reading = @ \cup {WhitelistDir}]}

\* Slip: nobody is told.
WalkFailedSilently(r, root) == {r}

\* readdir failed for the sandbox or for the whitelist, which is the end in
\* either case: jars that the walk of the sandbox found are not looked at.
WalkFailed(r, root) ==
  LET next == [r EXCEPT !.failed = TRUE]
  IN IF root = WhitelistDir THEN {ReplyNok(Log(next, 3), "nok")}
                            ELSE {ReplyNok(next, "nok")}

\* An entry of d is done and adds `files`.  Where it was the last one, d is
\* done and is an entry of its parent that adds all results of d, and so on.
Arrive(r, d, files) ==
  LET closing == {e \in Path[d] : \A x \in Path[d] :
                                    e \in Path[x] => r.pending[x] = 1}
      told == {d} \cup ({Parent[e] : e \in closing} \ {NoDir})
      below(e) == {x \in closing : e \in Path[x] /\ x # e}
      results == [e \in Dir |->
                    IF e \in told
                    THEN r.results[e] \cup files
                           \cup UNION {r.results[x] : x \in below(e)}
                    ELSE r.results[e]]
      next == [r EXCEPT !.results = results,
                        !.pending = [e \in Dir |->
                          IF e \in told THEN r.pending[e] - 1
                                        ELSE r.pending[e]]]
      root == {e \in closing : Parent[e] = NoDir}
  IN IF root = {} THEN {next}
     ELSE UNION {Walked(next, e, results[e]) : e \in root}

\* walk(d, done) has nothing more to wait for.
Done(r, d) == IF Parent[d] = NoDir THEN Walked(r, d, {})
                                   ELSE Arrive(r, Parent[d], {})

\* readdir failed; a nested walk passes no results on, and concat(undefined)
\* makes that one undefined entry.
Failed(r, d) == IF Parent[d] = NoDir THEN WalkFailed(r, d)
                                     ELSE Arrive(r, Parent[d], {Undefined})

-----------------------------------------------------------------------------
(* The actions of the route.                                               *)

Serving == server \in {"up", "dying"}

\* The request of c is in one of the states `next`; a state that has thrown
\* ends the server after a grace period (lib/logging).
Becomes(c, next) ==
  \E r \in next :
    /\ request' = [request EXCEPT ![c] = r]
    /\ server' = IF r.at = "thrown" THEN "dying" ELSE server
    /\ UNCHANGED fileVars

Ask(c) ==
  /\ Serving
  /\ request[c].at = "new"
  /\ Becomes(c, {[Log(request[c], 1) EXCEPT !.at = "stat"]})

\* Slip: whose sandbox it is does not matter.
SearchedEverywhere(c) == Sandbox \cap dirs
Searched(c) == {SandboxOf[c]}

\* fs.stat of the sandbox: without it, user or token are not known.
SandboxStat(c) ==
  LET r == request[c] IN
  /\ Serving
  /\ r.at = "stat"
  /\ \/ Becomes(c, {ReplyNok(r, "unknown")})
     \/ /\ SandboxOf[c] \in dirs
        /\ Becomes(c, {[r EXCEPT !.at = "walk", !.reading = Searched(c)]})

\* Slip: only files are counted.
PendingFiles(d) == Cardinality(Entries(d) \cap Jar)
Pending(d) == Cardinality(Entries(d))

Readdir(c, d) ==
  LET r == [request[c] EXCEPT !.reading = @ \ {d}] IN
  /\ Serving
  /\ d \in request[c].reading
  /\ \/ Becomes(c, Failed(r, d))
     \/ /\ d \in dirs
        /\ Becomes(c, IF Entries(d) = {} THEN Done(r, d)
                      ELSE {[r EXCEPT !.pending = [@ EXCEPT ![d] = Pending(d)],
                                      !.stating = @ \cup Entries(d)]})

\* fs.stat of an entry: a directory is walked; anything else, also what is
\* gone or cannot be asked about, is a result if its name says so (no name of
\* a directory does).
EntryStat(c, n) ==
  LET r == [request[c] EXCEPT !.stating = @ \ {n}] IN
  /\ Serving
  /\ n \in request[c].stating
  /\ \/ /\ n \in dirs
        /\ Becomes(c, {[r EXCEPT !.reading = @ \cup {n}]})
     \/ Becomes(c, Arrive([r EXCEPT !.failed = @ \/ n \in dirs],
                          Parent[n], {n} \cap Jar))

\* fs.readFile reads the file, or fails.  An open file keeps its contents: svn
\* replaces files, and what is written in place has passed through `content`.
ReadFile(c) ==
  LET r == request[c] IN
  /\ Serving
  /\ r.at = "read"
  /\ Becomes(c, {[r EXCEPT !.at = "hash", !.data = data] :
                   data \in {content[r.location], Absent}})

\* The callback of readFile.  Without data hash.update throws.
Sha1Ready(c) ==
  LET r == request[c] IN
  /\ Serving
  /\ r.at = "hash"
  /\ Becomes(c, CASE r.data = Absent    -> {[r EXCEPT !.at = "thrown"]}
                  [] r.data = Sha1Of[c] -> {ReplyOk(r)}
                  [] OTHER -> IF r.found = {} THEN {ReplyNok(r, "nok")}
                              ELSE {[r EXCEPT !.at = "tick"]})

\* process.nextTick(handleFiles)
NextTick(c) ==
  /\ Serving
  /\ request[c].at = "tick"
  /\ Becomes(c, HandleFiles(request[c], request[c].found))

Callback(c) ==
  \/ SandboxStat(c) \/ ReadFile(c) \/ Sha1Ready(c) \/ NextTick(c)
  \/ \E d \in Dir : Readdir(c, d)
  \/ \E n \in Node : EntryStat(c, n)

\* The server exits, after an exception or because it is stopped.
Exit ==
  /\ Serving
  /\ server' = "down"
  /\ request' = [c \in Challenge |->
                   IF request[c].at \in Open
                   THEN [Fresh EXCEPT !.at = "reset",
                                      !.data = request[c].data,
                                      !.records = request[c].records]
                   ELSE request[c]]
  /\ UNCHANGED fileVars

-----------------------------------------------------------------------------
(* What happens to the files.  svn, recipes and what they leave running,   *)
(* the administrator and, in a sandbox that is cleaned up, rimraf: any of  *)
(* them may write and remove what it likes.                                *)

\* lib/sandbox build; a name is used once.
MakeSandbox(s) ==
  /\ s \notin made
  /\ made' = made \cup {s}
  /\ dirs' = dirs \cup {s}
  /\ UNCHANGED <<content, writes, server, request>>

\* Nobody else makes a sandbox, though a recipe may make its own again.
MakeDir(d) ==
  /\ d \notin dirs
  /\ Parent[d] \in dirs \cup {NoDir}
  /\ d \in Sandbox => d \in made
  /\ dirs' = dirs \cup {d}
  /\ UNCHANGED <<content, made, writes, server, request>>

RemoveDir(d) ==
  /\ d \in dirs
  /\ Entries(d) = {}
  /\ dirs' = dirs \ {d}
  /\ UNCHANGED <<content, made, writes, server, request>>

Write(f) ==
  /\ writes < MaxWrites
  /\ Parent[f] \in dirs
  /\ \E h \in Hash : content' = [content EXCEPT ![f] = h]
  /\ writes' = writes + 1
  /\ UNCHANGED <<dirs, made, server, request>>

RemoveFile(f) ==
  /\ content[f] # Absent
  /\ content' = [content EXCEPT ![f] = Absent]
  /\ UNCHANGED <<dirs, made, writes, server, request>>

FilesChange ==
  \/ \E s \in Sandbox : MakeSandbox(s)
  \/ \E d \in Dir : MakeDir(d) \/ RemoveDir(d)
  \/ \E f \in Jar : Write(f) \/ RemoveFile(f)

-----------------------------------------------------------------------------

\* The jars that vouch for the request.
Vouching(c) ==
  {f \in Jar : /\ Within(f, SandboxOf[c]) \/ Within(f, WhitelistDir)
               /\ content[f] = Sha1Of[c]}

Init ==
  /\ made = {} /\ writes = 0
  /\ dirs = {WhitelistDir}
  /\ content \in {f \in [Jar -> Hash \cup {Absent}] :
                    \A j \in Jar : Parent[j] # WhitelistDir => f[j] = Absent}
  /\ server = "up"
  /\ request = [c \in Challenge |-> Fresh]
  /\ steady = [c \in Challenge |-> {}]
  /\ ever = steady

\* The request of c is received.
Arrives(c) == request[c].at = "new" /\ request'[c].at # "new"

\* What was in place all the time, and at some time, from the arrival of a
\* request to its answer.
Observe ==
  /\ steady' = [c \in Challenge |->
       CASE Arrives(c) -> Vouching(c)'
         [] request[c].at \in Open \cup {"reset"} -> steady[c] \cap Vouching(c)'
         [] OTHER -> steady[c]]
  /\ ever' = [c \in Challenge |->
       CASE Arrives(c) -> Vouching(c)'
         [] request[c].at \in Open \cup {"reset"} -> ever[c] \cup Vouching(c)'
         [] OTHER -> ever[c]]

Next ==
  /\ \/ \E c \in Challenge : Ask(c) \/ Callback(c)
     \/ Exit
     \/ FilesChange
  /\ Observe

\* The event loop runs every callback whose event has happened.
Spec == /\ Init /\ [][Next]_vars
        /\ \A c \in Challenge : WF_vars(Callback(c) /\ Observe)
        /\ WF_vars(server = "dying" /\ Exit /\ Observe)

-----------------------------------------------------------------------------
(* What a challenge promises the task scheduler.                           *)

\* OK is said of a jar only if, at some moment after the request came, it lay
\* in the sandbox of that user and token or in the whitelist, in no other
\* sandbox, and had the hash; it may be gone when OK is said
\* (challenge.js:56-144).
OkIsVouched ==
  \A c \in Challenge :
    request[c].at = "ok" => request[c].location \in ever[c]

\* No false alarm: a jar that stays in place from the arrival of the request
\* to its answer is found, wherever it lies and whatever else changes, unless
\* the sandbox or the whitelist cannot be listed or a directory that is there
\* passes for a file (challenge.js:87-134).
NokIsJustified ==
  \A c \in Challenge :
    request[c].at = "nok" /\ ~request[c].failed => steady[c] = {}

\* When the files are hashed the walk is over: `done` was called once, after
\* the last outstanding call and not before (challenge.js:111-134).
WalkIsOver ==
  \A c \in Challenge :
    request[c].at \in {"read", "hash", "tick"} \cup Answers =>
      request[c].reading = {} /\ request[c].stating = {}

\* Every answer has one record with the result, its last one, after one for
\* the request; a request without an answer has none (challenge.js:31-41,
\* 76-85,154-186).
AnswerIsAudited ==
  \A c \in Challenge :
    LET records == request[c].records
    IN /\ request[c].at # "new" => records # <<>> /\ records[1] = 1
       /\ \A i \in DOMAIN records :
            records[i] = 2 <=> i = Len(records) /\ request[c].at \in Answers

\* A challenge is answered, or its connection reset by the end of the server.
EveryChallengeAnswered ==
  \A c \in Challenge :
    request[c].at \in Open ~> request[c].at \in Answers \cup {"reset"}

\* "whitelisted jars (i.e. trusted jars, always OK to schedule)",
\* audit-server.js:25: once the token is accepted a whitelisted jar is OK.
WhitelistedIsOk ==
  \A c \in Challenge :
    request[c].at = "nok" =>
      \A f \in steady[c] : ~Within(f, WhitelistDir)

=============================================================================

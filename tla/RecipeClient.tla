---------------------------- MODULE RecipeClient ----------------------------
(***************************************************************************)
(* nodejs-client/run-recipe.js, from its first check to its exit code,     *)
(* with ConfigEnhancer as one of its links, and the part of the server's   *)
(* route that it talks to: how the request is read and verified            *)
(* (routes/runrecipe.js), which revision is checked out                    *)
(* (lib/sandbox/sandbox.js), and how the response ends.                    *)
(***************************************************************************)
EXTENDS ConfigEnhancer

CONSTANTS
  MaxRevision,  \* bound: the revisions of the repository
  NoRevision

ASSUME ClientAssumption ==
  /\ MaxRevision \in Nat
  /\ NoRevision \notin 0..MaxRevision

VARIABLES
  link,      \* the link of the chain of callbacks the client is in
  code,      \* what the shell sees of its exit status
  working,   \* the revision of the user's working copy
  head,      \* the latest revision of the repository
  query,     \* the parameters in the signed part of the URL
  run,       \* the request at the server
  revision   \* the revision in the sandbox of the run

clientVars == <<enhancerVars, link, code, working, head, query, run, revision>>
repository == <<working, head>>

Revision == 0..MaxRevision
Check == [filename |-> "svndirectory", svndirectory |-> "key",
          key |-> "hadoopConfDir", hadoopConfDir |-> "user", user |-> "config"]

\* `headers` says whether the response has begun.
Run == [at : {"none", "posted", "refused", "checkout", "running", "finished",
              "lost"},
        status : {200, 400, 404}, headers : BOOLEAN]

ClientTypeOK ==
  /\ EnhancerTypeOK
  /\ link \in DOMAIN Check \cup {"config", "hconf", "url", "rev", "sign",
                                 "response", "end"}
  /\ code \in 0..255
  /\ head \in Revision /\ working \in 0..head
  /\ query \in [{} -> Revision] \cup [{"rev"} -> Revision]
  /\ run \in Run
  /\ revision \in Revision \cup {NoRevision}

ClientInit ==
  /\ EnhancerInit
  /\ link = "filename" /\ code = 0
  /\ head \in Revision /\ working \in 0..head
  /\ query = <<>>
  /\ run = [at |-> "none", status |-> 200, headers |-> FALSE]
  /\ revision = NoRevision

\* Slip: the status is taken for the exit code.
ExitFull(status) == link' = "end" /\ code' = status

\* process.exit(status): the shell sees its last eight bits.
Exit(status) == link' = "end" /\ code' = status % 256
Goes(next) == link' = next /\ UNCHANGED code

\* checkFileName to checkAuditserverUser, one after the other.
CheckInput ==
  /\ link \in DOMAIN Check
  /\ Goes(Check[link]) \/ Exit(1)
  /\ UNCHANGED <<enhancerVars, repository, query, run, revision>>

Enhance ==
  /\ link = "config"
  /\ EnhancerNext
  /\ UNCHANGED <<link, code, repository, query, run, revision>>

Parsed == at = "done"

ConfigReady ==
  /\ link = "config"
  /\ \/ Parsed /\ Goes("hconf")
     \/ at = "failed" /\ Exit(1)
     \/ at = "silent" /\ Exit(0)
  /\ UNCHANGED <<enhancerVars, repository, query, run, revision>>

\* jsonify: there may be no site file; one that does not parse throws.
Jsonify ==
  /\ link = "hconf"
  /\ Goes("url") \/ Exit(1)
  /\ UNCHANGED <<enhancerVars, repository, query, run, revision>>

GetUrl ==
  /\ link = "url"
  /\ Goes("rev") \/ Exit(1)
  /\ UNCHANGED <<enhancerVars, repository, query, run, revision>>

GetRevision ==
  /\ link = "rev"
  /\ \/ Goes("sign") /\ query' = [rev |-> working]
     \/ Exit(1) /\ UNCHANGED query
  /\ UNCHANGED <<enhancerVars, repository, run, revision>>

\* The private key is read, recipe.result written and the request posted; the
\* key may be gone by now, the file not writable, the server not there.
SignAndPost ==
  /\ link = "sign"
  /\ \/ Exit(1) /\ UNCHANGED run
     \/ Goes("response") /\ run' = [run EXCEPT !.at = "posted"]
  /\ UNCHANGED <<enhancerVars, repository, query, revision>>

\* Slip: nobody listens for the end of a connection.
NothingHeard == FALSE
BrokenOff == run.at = "lost"

\* The last callbacks: the end of a response, also of one that broke off, or the
\* error of a request that got none or whose connection was reset, which nothing
\* catches.
Finish ==
  /\ link = "response"
  /\ \/ run.at \in {"finished", "refused"} /\ Exit(run.status)
     \/ BrokenOff /\ (Exit(1) \/ (run.headers /\ Exit(run.status)))
  /\ UNCHANGED <<enhancerVars, repository, query, run, revision>>

ClientStep ==
  \/ CheckInput \/ ConfigReady \/ Jsonify \/ GetUrl \/ GetRevision
  \/ SignAndPost \/ Finish

-----------------------------------------------------------------------------
(* The server's side.                                                      *)

\* Slip: the request is refused, and run all the same.
Refuses == {"checkout"}
Refused == {"refused"}

\* Any request may be refused, also one with a character on the border of two
\* chunks, which are decoded one by one.
Verify ==
  /\ run.at = "posted"
  /\ \/ \E status \in {400, 404}, next \in Refused :
          run' = [at |-> next, headers |-> TRUE, status |-> status]
     \/ run' = [run EXCEPT !.at = "checkout"]
  /\ UNCHANGED <<enhancerVars, link, code, repository, query, revision>>

\* req.query['revision'], and the latest revision if there is none.
SvnRevision == IF "revision" \in DOMAIN query THEN query["revision"] ELSE head

Checkout ==
  /\ run.at = "checkout"
  /\ run' = [run EXCEPT !.at = "running"]
  /\ revision' = SvnRevision
  /\ UNCHANGED <<enhancerVars, link, code, repository, query>>

\* The first output, or '\000', sends the headers.
Output ==
  /\ run.at \in {"checkout", "running"}
  /\ run' = [run EXCEPT !.headers = TRUE]
  /\ UNCHANGED <<enhancerVars, link, code, repository, query, revision>>

\* REQUEST_END; with an error the server stops instead, as it may at any time.
RequestEnd ==
  /\ \/ run.at = "running"
        /\ run' = [run EXCEPT !.at = "finished", !.headers = TRUE]
     \/ run.at \in {"posted", "checkout", "running"}
        /\ run' = [run EXCEPT !.at = "lost"]
  /\ UNCHANGED <<enhancerVars, link, code, repository, query, revision>>

ServerStep == Verify \/ Checkout \/ RequestEnd

\* Somebody commits; the user updates the working copy.
Repository ==
  /\ \/ head < MaxRevision /\ head' = head + 1 /\ UNCHANGED working
     \/ working' = head /\ UNCHANGED head
  /\ UNCHANGED <<enhancerVars, link, code, query, run, revision>>

ClientNext == ClientStep \/ Enhance \/ ServerStep \/ Output \/ Repository

\* Both processes run, and recipes end; the user need not answer a prompt.
ClientSpec ==
  /\ ClientInit /\ [][ClientNext]_clientVars
  /\ WF_clientVars(ClientStep) /\ WF_clientVars(ServerStep)
  /\ WF_clientVars(link = "config" /\ (Parse \/ EnhanceConfig) /\ Enhance)
  /\ WF_clientVars(NothingLeft /\ ProcessEnds /\ Enhance)

-----------------------------------------------------------------------------

\* The exit code tells what became of the request: 0 that none was sent, 1 that
\* none was sent or that its connection broke, 144 and 148 (of 400 and 404) that
\* the server refused it, 200 that the run ended or that the response broke off
\* after its beginning (run-recipe.js:30-228).
CodeTellsOutcome ==
  link = "end" =>
    CASE code = 0 -> run.at = "none"
      [] code = 1 -> run.at \in {"none", "lost"}
      [] code \in {144, 148} -> run.at = "refused"
      [] OTHER -> code = 200 /\ run.at \in {"finished", "lost"} /\ run.headers

\* What is sent has all its questions answered, in whatever order the prompts
\* came and returned, and nothing else replaced; and it was signed with a
\* revision the working copy has had (config.js:37-111, run-recipe.js:143-196).
SentIsComplete ==
  run.at # "none" => NoQuestionLeft /\ query["rev"] <= working

\* The client ends, unless it waits for its user for good: in a prompt, or after
\* one in a $(-option) that has no callback (run-recipe.js:28-244).
ClientEnds ==
  <>[](link = "end" \/ (link = "config" /\ at \in {"prompt", "stuck"}))

\* "The dir containing the svn repo and revision.", run-recipe.js:17: the
\* revision that was signed is the one that is run.
RanRequestedRevision ==
  run.at \in {"running", "finished"} => revision = query["rev"]

=============================================================================

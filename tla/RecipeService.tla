---------------------------- MODULE RecipeService ----------------------------
(***************************************************************************)
(* What POST /recipe/<recipe>/<user>/run promises its clients, without     *)
(* processes, messages, tables or callbacks.  For each signature there is  *)
(* at most one run.  A request that is accepted starts it or joins it,     *)
(* sees every chunk of its output from then on, and is answered together   *)
(* with all others that follow the run, once it has finished.  A failure   *)
(* of the service ends every run and loses every request it has taken in.  *)
(***************************************************************************)
EXTENDS Sequences

CONSTANTS Client, Digest, DigestOf, Chunk, NoRun

VARIABLES
  status,  \* of each request
  flight,  \* the request that started the run of a signature, if it is on
  got      \* the output a request has received

serviceVars == <<status, flight, got>>

ServiceInit ==
  /\ status = [c \in Client |-> "asking"]
  /\ flight = [d \in Digest |-> NoRun]
  /\ got = [c \in Client |-> <<>>]

Followers(d) == {c \in Client : status[c] = "attached" /\ DigestOf[c] = d}

Start(c) ==
  /\ status[c] = "asking"
  /\ flight[DigestOf[c]] = NoRun
  /\ status' = [status EXCEPT ![c] = "attached"]
  /\ flight' = [flight EXCEPT ![DigestOf[c]] = c]
  /\ UNCHANGED got

Join(c) ==
  /\ status[c] = "asking"
  /\ flight[DigestOf[c]] # NoRun
  /\ status' = [status EXCEPT ![c] = "attached"]
  /\ UNCHANGED <<flight, got>>

Reject(c) ==
  /\ status[c] = "asking"
  /\ status' = [status EXCEPT ![c] = "refused"]
  /\ UNCHANGED <<flight, got>>

Emit(d) ==
  /\ flight[d] # NoRun
  /\ \E n \in Chunk :
       got' = [c \in Client |-> IF c \in Followers(d)
                                THEN got[c] \o <<n>> ELSE got[c]]
  /\ UNCHANGED <<status, flight>>

Finish(d) ==
  /\ flight[d] # NoRun
  /\ status' = [c \in Client |-> IF c \in Followers(d)
                                 THEN "answered" ELSE status[c]]
  /\ flight' = [flight EXCEPT ![d] = NoRun]
  /\ UNCHANGED got

Fail ==
  /\ \E early \in SUBSET {c \in Client : status[c] = "asking"} :
       status' = [c \in Client |->
                    IF c \in early \/ status[c] = "attached"
                    THEN "lost" ELSE status[c]]
  /\ flight' = [d \in Digest |-> NoRun]
  /\ UNCHANGED got

ServiceNext ==
  \/ \E c \in Client : Start(c) \/ Join(c) \/ Reject(c)
  \/ \E d \in Digest : Emit(d) \/ Finish(d)
  \/ Fail

\* A run that is on finishes, or the service fails.
ServiceFairness ==
  \A d \in Digest :
    WF_serviceVars(Finish(d) \/ (flight[d] # NoRun /\ Fail))

ServiceSpec == ServiceInit /\ [][ServiceNext]_serviceVars /\ ServiceFairness

ServiceSafety == ServiceInit /\ [][ServiceNext]_serviceVars
=============================================================================

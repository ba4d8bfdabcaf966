--------------------------- MODULE MCJobSubmission ---------------------------
(***************************************************************************)
(* Instances of JobSubmission for TLC: the sandbox of a recipe, another    *)
(* directory that user and token may name, and the whitelist.              *)
(***************************************************************************)
EXTENDS JobSubmission, TLC

CONSTANTS box, elsewhere, white, job1

ParentOf == (box :> NoDir) @@ (elsewhere :> NoDir) @@ (white :> NoDir)
              @@ ("top" :> box) @@ ("listed" :> white)

AnyToken == [j \in Job |-> Token]
Challenges == Job \X (Token \cap Dir) \X (1..MaxJars) \X Hash
HashIn == [c \in Challenge |-> c[4]]
TokenIn == [c \in Challenge |-> c[2]]
=============================================================================

----------------------------- MODULE MCChallenge -----------------------------
(***************************************************************************)
(* Instances of Challenge for TLC: the layout of the directories.          *)
(***************************************************************************)
EXTENDS Challenge, TLC

CONSTANTS q1, box, other, checkout, white

\* One jar at the top of the sandbox, one in a checkout below it, one in the
\* whitelist and one in the sandbox of somebody else.
ParentOf == (box :> NoDir) @@ (other :> NoDir) @@ (white :> NoDir)
              @@ (checkout :> box)
              @@ ("top" :> box) @@ ("deep" :> checkout) @@ ("listed" :> white)
              @@ ("foreign" :> other)
Layout(nodes) == [n \in nodes |-> ParentOf[n]]
Parents == Layout(Dir \cup Jar)

AskForGood == [q \in Challenge |-> "good"]
AskBox == [q \in Challenge |-> box]
=============================================================================

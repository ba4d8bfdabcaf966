---------------------------- MODULE MCAuditServer ----------------------------
(***************************************************************************)
(* Instances of AuditServer for TLC: which request carries which signature,*)
(* and whose key verifies it.                                              *)
(***************************************************************************)
EXTENDS AuditServer, TLC

CONSTANTS c1, c2, c3, alice, bob

Processes == User \X (0..MaxRestarts)

\* Two requests with one signature, a third with another.
DigestsOfThree == (c1 :> "d1") @@ (c2 :> "d1") @@ (c3 :> "d2")
DigestsOfTwo == (c1 :> "d1") @@ (c2 :> "d1")

\* Both signatures are alice's, or one each.
OneSigner == [d \in Digest |-> alice]
TwoSigners == [d \in Digest |-> IF d = "d1" THEN alice ELSE bob]
=============================================================================

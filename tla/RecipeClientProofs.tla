------------------------- MODULE RecipeClientProofs -------------------------
(***************************************************************************)
(* Theorems about RecipeClient, for every set of configurations and any    *)
(* number of revisions: what the exit code tells, and that a request is    *)
(* only sent when all questions of its configuration have been answered,   *)
(* each asked once.                                                        *)
(***************************************************************************)
EXTENDS RecipeClient, SequenceTheorems, WellFoundedInduction, TLAPS

\* How far the request is decides its status and whether its response has
\* begun.
ResponseAgrees ==
  /\ run \in Run
  /\ run.at \in {"none", "posted"} => ~run.headers
  /\ run.at = "refused" => run.headers /\ run.status \in {400, 404}
  /\ run.at = "finished" => run.headers
  /\ run.at # "refused" => run.status = 200

\* The request is posted by the last link but one.
PostedLast ==
  /\ link = "response" => run.at # "none"
  /\ link \notin {"response", "end"} => run.at = "none"

CodeInv == ResponseAgrees /\ PostedLast /\ CodeTellsOutcome

\* Nothing is posted to begin with.
LEMMA InitCode == ClientInit => CodeInv
  BY DEF ClientInit, CodeInv, ResponseAgrees, PostedLast, CodeTellsOutcome, Run

\* A link before the request goes on to the next, or gives up with 1 or 0.
LEMMA ChainStep ==
  ASSUME CodeInv, CheckInput \/ ConfigReady \/ Jsonify \/ GetUrl \/ GetRevision
  PROVE  CodeInv'
<1>1. UNCHANGED run /\ link \notin {"response", "end"}
  BY DEF CheckInput, ConfigReady, Jsonify, GetUrl, GetRevision, Check
<1>2. \/ link' \notin {"response", "end"}
      \/ link' = "end" /\ code' \in {1 % 256, 0 % 256}
  BY DEF CheckInput, ConfigReady, Jsonify, GetUrl, GetRevision, Check, Goes,
         Exit
<1>3. 1 % 256 = 1 /\ 0 % 256 = 0
  OBVIOUS
<1> QED
  BY <1>1, <1>2, <1>3
  DEF CodeInv, ResponseAgrees, PostedLast, CodeTellsOutcome

\* The request is posted, or the client gives up before.
LEMMA PostStep ==
  ASSUME CodeInv, SignAndPost
  PROVE  CodeInv'
<1>1. 1 % 256 = 1
  OBVIOUS
<1>2. CASE link' = "end"
  <2>1. code' = 1 /\ UNCHANGED run /\ run.at = "none"
    BY <1>1, <1>2 DEF SignAndPost, Goes, Exit, CodeInv, PostedLast
  <2> QED
    BY <1>2, <2>1 DEF CodeInv, ResponseAgrees, PostedLast, CodeTellsOutcome
<1>3. CASE link' = "response"
  <2>1. run' = [run EXCEPT !.at = "posted"] /\ run.at = "none"
    BY <1>3 DEF SignAndPost, Goes, Exit, CodeInv, PostedLast
  <2> QED
    BY <1>3, <2>1
    DEF CodeInv, ResponseAgrees, PostedLast, CodeTellsOutcome, Run
<1> QED
  BY <1>2, <1>3 DEF SignAndPost, Goes, Exit

\* The exit code is the low byte of the status, or 1 for a broken connection.
LEMMA FinishStep ==
  ASSUME CodeInv, Finish
  PROVE  CodeInv'
<1>1. /\ 1 % 256 = 1 /\ 200 % 256 = 200
      /\ 400 % 256 = 144 /\ 404 % 256 = 148
  OBVIOUS
<1>2. UNCHANGED run /\ link' = "end"
  BY DEF Finish, Exit
<1>3. \/ run.at \in {"finished", "refused"} /\ code' = run.status % 256
      \/ /\ run.at = "lost"
         /\ code' = 1 \/ (run.headers /\ code' = run.status % 256)
  BY <1>1 DEF Finish, Exit, BrokenOff
<1> QED
  BY <1>1, <1>2, <1>3
  DEF CodeInv, ResponseAgrees, PostedLast, CodeTellsOutcome, Run

\* The server only changes requests that are under way.
LEMMA ServerSideStep ==
  ASSUME CodeInv, ServerStep \/ Output
  PROVE  CodeInv'
<1>1. UNCHANGED <<link, code>>
  BY DEF ServerStep, Verify, Checkout, RequestEnd, Output
<1> USE DEF CodeInv, ResponseAgrees, Run
<1>2. run.at \in {"posted", "checkout", "running"}
  BY DEF ServerStep, Verify, Checkout, RequestEnd, Output
<1>3. ResponseAgrees' /\ run'.at # "none"
  <2>1. CASE Verify
    <3>1. CASE run' = [run EXCEPT !.at = "checkout"]
      BY <1>2, <3>1
    <3>2. CASE \E status \in {400, 404} :
                 run' = [at |-> "refused", headers |-> TRUE, status |-> status]
      BY <3>2
    <3> QED
      BY <2>1, <3>1, <3>2 DEF Verify, Refused
  <2>2. CASE Checkout
    BY <2>2 DEF Checkout
  <2>3. CASE RequestEnd
    <3>1. CASE run' = [run EXCEPT !.at = "finished", !.headers = TRUE]
      BY <1>2, <3>1
    <3>2. CASE run' = [run EXCEPT !.at = "lost"]
      BY <1>2, <3>2
    <3> QED
      BY <2>3, <3>1, <3>2 DEF RequestEnd
  <2>4. CASE Output
    BY <2>4 DEF Output
  <2> QED
    BY <2>1, <2>2, <2>3, <2>4 DEF ServerStep
<1>4. link = "response"
  <2>1. link # "end"
    BY <1>2 DEF CodeInv, CodeTellsOutcome
  <2> QED
    BY <1>2, <2>1 DEF CodeInv, PostedLast
<1> QED
  BY <1>1, <1>2, <1>3, <1>4 DEF CodeInv, PostedLast, CodeTellsOutcome

\* Every step keeps the invariant.
LEMMA NextCode == CodeInv /\ [ClientNext]_clientVars => CodeInv'
<1> SUFFICES ASSUME CodeInv, [ClientNext]_clientVars PROVE CodeInv'
  OBVIOUS
<1>1. CASE UNCHANGED <<link, code, run>>
  BY <1>1 DEF CodeInv, ResponseAgrees, PostedLast, CodeTellsOutcome
<1>2. CASE Enhance \/ Repository \/ UNCHANGED clientVars
  BY <1>1, <1>2 DEF Enhance, Repository, clientVars
<1> QED
  BY <1>2, ChainStep, PostStep, FinishStep, ServerSideStep
  DEF ClientNext, ClientStep

\* The exit code of the client tells what became of its request, for every
\* configuration and whatever fails (run-recipe.js:30-206,225-244).
THEOREM ExitCodeTells == ClientSpec => []CodeTellsOutcome
<1>1. CodeInv => CodeTellsOutcome
  BY DEF CodeInv
<1> QED
  BY <1>1, InitCode, NextCode, PTL DEF ClientSpec

-----------------------------------------------------------------------------
(* The configuration: trees of values.                                      *)

\* A set of numbers has a least one.
LEMMA LeastExists ==
  ASSUME NEW S \in SUBSET Nat, S # {}
  PROVE  \E n \in S : \A m \in S : n <= m
<1> DEFINE R == {p \in Nat \X Nat : p[1] < p[2]}
<1>1. IsWellFoundedOn(R, Nat)
  BY NatLessThanWellFounded DEF OpToRel
<1>2. \A m, n \in Nat : m < n => <<m, n>> \in R
  OBVIOUS
<1> HIDE DEF R
<1>3. PICK n \in S : \A m \in S : ~ (<<m, n>> \in R)
  BY <1>1, WFMin
<1>4. \A m \in S : ~(m < n)
  BY <1>2, <1>3
<1> QED
  BY <1>4

\* A bounded set of numbers has a greatest one.
LEMMA GreatestExists ==
  ASSUME NEW N \in Nat, NEW S \in SUBSET (0..N), S # {}
  PROVE  \E n \in S : \A m \in S : m <= n
<1> DEFINE U == {u \in 0..N : \A m \in S : m <= u}
<1>1. U \in SUBSET Nat /\ N \in U
  OBVIOUS
<1>2. PICK u \in U : \A v \in U : u <= v
  BY <1>1, LeastExists
<1>3. u \in S
  <2>1. SUFFICES ASSUME u \notin S PROVE FALSE
    OBVIOUS
  <2>2. u \in Nat /\ \A m \in S : m \in Nat /\ m <= u /\ m # u
    BY <2>1
  <2>3. \A m \in S : m <= u - 1 /\ 0 <= u - 1
    <3> HIDE DEF U
    <3> QED BY <2>2
  <2>4. 0 <= u - 1 /\ u <= N
    <3>1. u \in 0..N
      BY <1>2
    <3>2. PICK m \in S : TRUE
      OBVIOUS
    <3> HIDE DEF U
    <3> QED BY <2>3, <3>1, <3>2
  <2>5. u - 1 \in 0..N
    <3> HIDE DEF U
    <3> QED BY <2>2, <2>4
  <2> QED
    BY <2>3, <2>5, <1>2
<1> QED
  BY <1>3

\* First and Last find what they look for.
LEMMA Ordered ==
  ASSUME NEW S \in SUBSET Node, S # {}
  PROVE  First(S) \in S /\ Last(S) \in S
<1>1. Size \in Nat /\ S \in SUBSET (0..Size) /\ S \in SUBSET Nat
  BY EnhancerAssumption DEF Node
<1>2. \E n \in S : \A m \in S : m <= n
  BY <1>1, GreatestExists
<1>3. \E n \in S : \A m \in S : n <= m
  BY <1>1, LeastExists
<1> QED
  BY <1>2, <1>3 DEF First, Last

\* What a value of an array begins (or ends) with can be followed down to a
\* value that is no array with values: the recursion has a solution.
LEMMA Followed ==
  ASSUME NEW A \in SUBSET Node, NEW next \in [A -> Node],
         NEW out \in [Node -> Nat]
  PROVE  \E f : f = [n \in Node |-> IF n \in A THEN f[next[n]] ELSE out[n]]
<1> DEFINE Closed(S) == \A m \in S : m \in A => next[m] \in S
           Reach == [n \in Node |-> {m \in Node : \A S \in SUBSET Node :
                                       n \in S /\ Closed(S) => m \in S}]
           Exits == [n \in Node |-> {out[m] : m \in Reach[n] \ A}]
           f == [n \in Node |-> IF n \in A THEN CHOOSE v : v \in Exits[n]
                                ELSE out[n]]
           g == [n \in Node |-> IF n \in A THEN f[next[n]] ELSE out[n]]
<1>1. ASSUME NEW n \in Node, n \in A PROVE Exits[n] = Exits[next[n]]
  <2> DEFINE p == next[n]
  <2>1. p \in Node /\ n \in Reach[n]
    BY <1>1
  <2>2. ASSUME NEW e \in Reach[p] PROVE e \in Reach[n]
    BY <1>1, <2>1
  <2>3. ASSUME NEW e \in Reach[n], e # n PROVE e \in Reach[p]
    <3>1. ASSUME NEW S \in SUBSET Node, p \in S, Closed(S) PROVE e \in S
      <4>1. Closed(S \cup {n}) /\ S \cup {n} \in SUBSET Node
        BY <3>1
      <4> QED BY <4>1, <2>3
    <3> QED BY <3>1, <2>1
  <2>4. Reach[n] \ A = Reach[p] \ A
    BY <1>1, <2>2, <2>3
  <2> HIDE DEF Reach
  <2> QED
    BY <2>1, <2>4
<1>2. ASSUME NEW n \in Node, n \notin A PROVE Exits[n] = {out[n]}
  <2>1. {n} \in SUBSET Node /\ Closed({n})
    BY <1>2
  <2>2. Reach[n] = {n}
    BY <2>1
  <2> HIDE DEF Reach
  <2> QED
    BY <1>2, <2>2
<1> HIDE DEF Exits
<1>3. \A n \in Node : f[n] = CHOOSE v : v \in Exits[n]
  BY <1>2
<1>4. ASSUME NEW n \in Node PROVE f[n] = g[n]
  <2>1. CASE n \in A
    <3>1. next[n] \in Node
      BY <2>1
    <3> QED
      BY <1>1, <1>3, <2>1, <3>1
  <2> QED
    BY <2>1
<1>5. f = g
  BY <1>4
<1> QED
  BY <1>5

\* A text begins and ends with itself.
LEMMA TextEnds ==
  ASSUME tree \in Trees
  PROVE  \A n \in Node : tree.kind[n] \in Leaf => Begins[n] = n /\ Ends[n] = n
<1> DEFINE A == {n \in Node : tree.kind[n] = "array" /\ Children(n) # {}}
           out == [n \in Node |-> IF tree.kind[n] \in Leaf THEN n ELSE 0]
           firsts == [n \in A |-> First(Children(n))]
           lasts == [n \in A |-> Last(Children(n))]
           B(f) == [n \in Node |-> IF n \in A THEN f[firsts[n]] ELSE out[n]]
           E(f) == [n \in Node |-> IF n \in A THEN f[lasts[n]] ELSE out[n]]
<1>1. A \in SUBSET Node /\ out \in [Node -> Nat]
  BY EnhancerAssumption DEF Node
<1>2. firsts \in [A -> Node] /\ lasts \in [A -> Node]
  <2>1. \A n \in A : Children(n) \in SUBSET Node /\ Children(n) # {}
    BY DEF Children
  <2> HIDE DEF A
  <2> QED
    BY <2>1, Ordered
<1>3. \E f : f = B(f)
  <2> HIDE DEF A, firsts, out
  <2> QED BY <1>1, <1>2, Followed
<1>4. \E f : f = E(f)
  <2> HIDE DEF A, lasts, out
  <2> QED BY <1>1, <1>2, Followed
<1>5. Begins = CHOOSE f : f = B(f)
  <2> DEFINE C(f, n) ==
        CASE tree.kind[n] = "array" /\ Children(n) # {} -> f[First(Children(n))]
          [] tree.kind[n] \in Leaf -> n
          [] OTHER -> 0
  <2>1. ASSUME NEW f, NEW n \in Node
        PROVE  C(f, n) = IF n \in A THEN f[firsts[n]] ELSE out[n]
    <3>1. n \in A => tree.kind[n] \notin Leaf
      BY DEF Leaf
    <3>2. n \in A <=> tree.kind[n] = "array" /\ Children(n) # {}
      OBVIOUS
    <3>3. n \in A => firsts[n] = First(Children(n))
      OBVIOUS
    <3>4. out[n] = IF tree.kind[n] \in Leaf THEN n ELSE 0
      OBVIOUS
    <3> HIDE DEF A, firsts, out
    <3> QED
      BY <3>1, <3>2, <3>3, <3>4
  <2>2. \A f : B(f) = [n \in Node |-> C(f, n)]
    <3> HIDE DEF A, firsts, out, C
    <3> QED
      BY <2>1
  <2> HIDE DEF B
  <2> QED
    BY <2>2 DEF Begins
<1>6. Ends = CHOOSE f : f = E(f)
  <2> DEFINE C(f, n) ==
        CASE tree.kind[n] = "array" /\ Children(n) # {} -> f[Last(Children(n))]
          [] tree.kind[n] \in Leaf -> n
          [] OTHER -> 0
  <2>1. ASSUME NEW f, NEW n \in Node
        PROVE  C(f, n) = IF n \in A THEN f[lasts[n]] ELSE out[n]
    <3>1. n \in A => tree.kind[n] \notin Leaf
      BY DEF Leaf
    <3>2. n \in A <=> tree.kind[n] = "array" /\ Children(n) # {}
      OBVIOUS
    <3>3. n \in A => lasts[n] = Last(Children(n))
      OBVIOUS
    <3>4. out[n] = IF tree.kind[n] \in Leaf THEN n ELSE 0
      OBVIOUS
    <3> HIDE DEF A, lasts, out
    <3> QED
      BY <3>1, <3>2, <3>3, <3>4
  <2>2. \A f : E(f) = [n \in Node |-> C(f, n)]
    <3> HIDE DEF A, lasts, out, C
    <3> QED
      BY <2>1
  <2> HIDE DEF E
  <2> QED
    BY <2>2 DEF Ends
<1>7. Begins = B(Begins) /\ Ends = E(Ends)
  <2> HIDE DEF B, E
  <2> QED BY <1>3, <1>4, <1>5, <1>6
<1>8. ASSUME NEW n \in Node, tree.kind[n] \in Leaf
      PROVE  B(Begins)[n] = n /\ E(Ends)[n] = n
  <2>1. n \notin A
    BY <1>8 DEF Leaf
  <2> HIDE DEF A
  <2> QED
    BY <1>8, <2>1
<1> HIDE DEF B, E
<1> QED
  BY <1>7, <1>8

\* What a value lies in: the recursion has a solution.
LEMMA AboveEquation ==
  ASSUME tree \in Trees
  PROVE  \A n \in Node :
           Above[n] = IF n = Root THEN {}
                      ELSE {tree.parent[n]} \cup Above[tree.parent[n]]
<1> DEFINE up(n) == tree.parent[n]
           Closed(S) == \A e \in S : e # Root => up(e) \in S
           Path == [n \in Node |-> {e \in Node : \A S \in SUBSET Node :
                                       n \in S /\ Closed(S) => e \in S}]
           G == [n \in Node |-> IF n = Root THEN {} ELSE Path[up(n)]]
           Step(f) == [n \in Node |-> IF n = Root THEN {}
                                      ELSE {up(n)} \cup f[up(n)]]
<1>1. \A n \in Node \ {Root} : up(n) \in Node
  BY EnhancerAssumption DEF Node
<1> HIDE DEF up
<1>2. ASSUME NEW p \in Node, p = Root PROVE Path[p] = {p}
  <2>1. {p} \in SUBSET Node /\ Closed({p})
    BY <1>2
  <2> QED
    BY <2>1
<1>3. ASSUME NEW p \in Node, p # Root PROVE Path[p] = {p} \cup Path[up(p)]
  <2>1. up(p) \in Node /\ p \in Path[p]
    BY <1>1, <1>3
  <2>2. ASSUME NEW e \in Path[up(p)] PROVE e \in Path[p]
    BY <1>3, <2>1
  <2>3. ASSUME NEW e \in Path[p], e # p PROVE e \in Path[up(p)]
    <3>1. ASSUME NEW S \in SUBSET Node, up(p) \in S, Closed(S) PROVE e \in S
      <4>1. Closed(S \cup {p}) /\ S \cup {p} \in SUBSET Node
        BY <3>1
      <4> QED BY <4>1, <2>3
    <3> QED BY <3>1, <2>1
  <2> QED
    BY <2>1, <2>2, <2>3
<1> HIDE DEF Path
<1>4. G = Step(G)
  <2>1. \A n \in Node : G[n] = IF n = Root THEN {} ELSE {up(n)} \cup G[up(n)]
    BY <1>1, <1>2, <1>3
  <2> QED
    BY <2>1
<1>5. Above = CHOOSE f : f = Step(f)
  BY DEF Above, up
<1>6. Above = Step(Above)
  <2> HIDE DEF G, Step
  <2> QED BY <1>4, <1>5
<1>7. ASSUME NEW n \in Node
      PROVE  Step(Above)[n] = IF n = Root THEN {} ELSE {up(n)} \cup Above[up(n)]
  OBVIOUS
<1> QED
  <2> HIDE DEF Step
  <2> QED BY <1>6, <1>7 DEF up

\* A value comes after those that it lies in.
LEMMA AboveComesBefore ==
  ASSUME tree \in Trees
  PROVE  \A n \in Node : Above[n] \subseteq Node /\ \A m \in Above[n] : m < n
<1> DEFINE Good(n) == Above[n] \subseteq Node /\ \A m \in Above[n] : m < n
           Bad == {n \in Node : ~Good(n)}
<1>1. Bad \in SUBSET Nat
  BY EnhancerAssumption DEF Node
<1>2. ASSUME Bad # {} PROVE FALSE
  <2>1. PICK n \in Bad : \A m \in Bad : n <= m
    BY <1>1, <1>2, LeastExists
  <2>2. n # Root
    BY <2>1, AboveEquation
  <2> DEFINE p == tree.parent[n]
  <2>3. p \in Node /\ p < n /\ n \in Nat /\ p \in Nat
    BY <2>1, <2>2, EnhancerAssumption DEF Node
  <2>4. Good(p)
    BY <2>1, <2>3
  <2>5. Above[n] = {p} \cup Above[p]
    BY <2>1, <2>2, AboveEquation
  <2>6. \A m \in Above[p] : m \in Node /\ m < p /\ m \in Nat
    BY <2>4, EnhancerAssumption DEF Node
  <2>7. Good(n)
    <3> HIDE DEF p
    <3> QED
      BY <2>3, <2>5, <2>6
  <2> QED
    BY <2>1, <2>7
<1> QED
  BY <1>2

\* What a value lies in lies in what the latter lies in.
LEMMA AboveTransitive ==
  ASSUME tree \in Trees
  PROVE  \A n \in Node : \A m \in Above[n] : Above[m] \subseteq Above[n]
<1> DEFINE Good(n) == \A m \in Above[n] : Above[m] \subseteq Above[n]
           Bad == {n \in Node : ~Good(n)}
<1>1. Bad \in SUBSET Nat
  BY EnhancerAssumption DEF Node
<1>2. ASSUME Bad # {} PROVE FALSE
  <2>1. PICK n \in Bad : \A m \in Bad : n <= m
    BY <1>1, <1>2, LeastExists
  <2>2. n # Root
    BY <2>1, AboveEquation
  <2> DEFINE p == tree.parent[n]
  <2>3. p \in Node /\ p < n /\ n \in Nat /\ p \in Nat
    BY <2>1, <2>2, EnhancerAssumption DEF Node
  <2>4. Good(p)
    BY <2>1, <2>3
  <2>5. Above[n] = {p} \cup Above[p]
    BY <2>1, <2>2, AboveEquation
  <2> QED
    BY <2>1, <2>4, <2>5
<1> QED
  BY <1>2

\* What a value lies in is an object or array, and one of the values of that is
\* on the way to it.
LEMMA AboveLeadsDown ==
  ASSUME tree \in Trees
  PROVE  \A n \in Node : \A k \in Above[n] :
           /\ tree.kind[k] \in {"object", "array"}
           /\ \E c \in Children(k) : c = n \/ c \in Above[n]
<1> DEFINE Good(n) == \A k \in Above[n] :
             \E c \in Children(k) : c = n \/ c \in Above[n]
           Bad == {n \in Node : ~Good(n)}
<1>1. Bad \in SUBSET Nat
  BY EnhancerAssumption DEF Node
<1>2. ASSUME Bad # {} PROVE FALSE
  <2>1. PICK n \in Bad : \A m \in Bad : n <= m
    BY <1>1, <1>2, LeastExists
  <2>2. n # Root
    BY <2>1, AboveEquation
  <2> DEFINE p == tree.parent[n]
  <2>3. p \in Node /\ p < n /\ n \in Nat /\ p \in Nat
    BY <2>1, <2>2, EnhancerAssumption DEF Node
  <2>4. Good(p)
    BY <2>1, <2>3
  <2>5. Above[n] = {p} \cup Above[p]
    BY <2>1, <2>2, AboveEquation
  <2>6. n \in Children(p)
    BY <2>1 DEF Children
  <2> QED
    BY <2>1, <2>4, <2>5, <2>6
<1>3. ASSUME NEW n \in Node, NEW c \in Children(n)
      PROVE  tree.kind[n] \in {"object", "array"}
  <2>1. c \in Node /\ tree.parent[c] = n /\ n # 0
    BY EnhancerAssumption DEF Children, Node
  <2>2. c # Root
    BY <2>1, EnhancerAssumption
  <2> QED
    BY <2>1, <2>2, EnhancerAssumption
<1>4. \A n \in Node : Above[n] \subseteq Node
  BY AboveComesBefore
<1> QED
  BY <1>2, <1>3, <1>4

\* The values of an object lie in what it lies in, and in itself.
LEMMA ChildIsBelow ==
  ASSUME tree \in Trees, NEW n \in Node, NEW c \in Children(n)
  PROVE  /\ c \in Node /\ n < c
         /\ Above[c] = {n} \cup Above[n]
<1>1. c \in Node /\ tree.parent[c] = n /\ n \in Nat /\ c # Root /\ n < c
  BY EnhancerAssumption DEF Children, Node, Root
<1> QED
  BY <1>1, AboveEquation

\* All values lie in the configuration.
LEMMA RootAboveAll ==
  ASSUME tree \in Trees
  PROVE  \A n \in Node \ {Root} : Root \in Above[n]
<1> DEFINE Bad == {n \in Node \ {Root} : Root \notin Above[n]}
<1>1. Bad \in SUBSET Nat
  BY EnhancerAssumption DEF Node
<1>2. ASSUME Bad # {} PROVE FALSE
  <2>1. PICK n \in Bad : \A m \in Bad : n <= m
    BY <1>1, <1>2, LeastExists
  <2> DEFINE p == tree.parent[n]
  <2>2. p \in Node /\ p < n /\ n \in Nat /\ p \in Nat
    BY <2>1, EnhancerAssumption DEF Node
  <2>3. p = Root \/ Root \in Above[p]
    BY <2>1, <2>2
  <2>4. Above[n] = {p} \cup Above[p]
    BY <2>1, AboveEquation
  <2> QED
    BY <2>1, <2>3, <2>4
<1> QED
  BY <1>2

\* As long as the configuration stays the same, so does all that is derived
\* from it.
LEMMA SameTree ==
  ASSUME UNCHANGED tree
  PROVE  /\ Above' = Above /\ Begins' = Begins /\ Ends' = Ends
         /\ \A n : Children(n)' = Children(n)
         /\ \A n : Question(n)' <=> Question(n)
<1>1. \A n : Children(n)' = Children(n)
  BY DEF Children
<1>2. Above' = Above
  BY DEF Above
<1>3. Begins' = Begins
  BY <1>1 DEF Begins
<1>4. Ends' = Ends
  BY <1>1 DEF Ends
<1> QED
  BY <1>1, <1>2, <1>3, <1>4 DEF Question
-----------------------------------------------------------------------------
(* The walk: what is left to do, and how each turn changes it.             *)

Inside(n) == {n} \cup Above[n]

\* The values that are still to be looked at.
Waiting == UNION {stack[i].keys : i \in 1..Len(stack)}

\* The objects on the stack lie in one another, and none of them is looked at
\* again.
StackInv ==
  /\ \A i \in 1..Len(stack) : stack[i].keys \subseteq Children(stack[i].node)
  /\ \A i, j \in 1..Len(stack) : i < j => stack[i].node < stack[j].node
  /\ \A i, j \in 1..Len(stack) :
       i <= j => stack[i].keys \cap Inside(stack[j].node) = {}

StackElement == [node : Node, keys : SUBSET Node]

\* What becomes of the stack.
LEMMA StackChanges ==
  ASSUME stack \in Seq(StackElement), stack # <<>>, NEW k \in Node
  PROVE  LET n == Len(stack)
             s == KeyPopped(k) IN
    /\ n \in Nat \ {0}
    /\ Pop \in Seq(StackElement) /\ Len(Pop) = n - 1
    /\ \A i \in 1..(n - 1) : Pop[i] = stack[i]
    /\ s \in Seq(StackElement) /\ Len(s) = n
    /\ \A i \in 1..n : /\ s[i].node = stack[i].node
                       /\ i # n => s[i] = stack[i]
    /\ s[n].keys = stack[n].keys \ {k}
    /\ \A e \in StackElement :
         /\ s \o <<e>> \in Seq(StackElement) /\ Len(s \o <<e>>) = n + 1
         /\ \A i \in 1..n : (s \o <<e>>)[i] = s[i]
         /\ (s \o <<e>>)[n + 1] = e
<1> DEFINE n == Len(stack)
           top == [stack[n] EXCEPT !.keys = @ \ {k}]
           s == Pop \o <<top>>
<1>1. n \in Nat \ {0} /\ stack[n] \in StackElement
  OBVIOUS
<1>2. /\ Pop \in Seq(StackElement) /\ Len(Pop) = n - 1
      /\ \A i \in 1..(n - 1) : Pop[i] = stack[i]
  <2>1. n - 1 <= n /\ n - 1 - 1 + 1 = n - 1
    BY <1>1
  <2> QED
    BY <1>1, <2>1, SubSeqProperties, Z3 DEF Pop
<1>3. /\ top \in StackElement
      /\ top.node = stack[n].node /\ top.keys = stack[n].keys \ {k}
  BY <1>1 DEF StackElement
<1>4. KeyPopped(k) = s
  BY DEF KeyPopped, Top
<1>5. /\ s \in Seq(StackElement) /\ Len(s) = n
      /\ \A i \in 1..(n - 1) : s[i] = stack[i]
      /\ s[n] = top
  <2> HIDE DEF top
  <2> QED
    BY <1>1, <1>2, <1>3
<1>6. /\ \A i \in 1..n : s[i].node = stack[i].node
      /\ s[n].keys = stack[n].keys \ {k}
  <2> HIDE DEF top, s
  <2> QED
    BY <1>1, <1>3, <1>5
<1>7. ASSUME NEW e \in StackElement
      PROVE  /\ s \o <<e>> \in Seq(StackElement) /\ Len(s \o <<e>>) = n + 1
             /\ \A i \in 1..n : (s \o <<e>>)[i] = s[i]
             /\ (s \o <<e>>)[n + 1] = e
  <2> HIDE DEF s
  <2> QED
    BY <1>1, <1>5
<1> HIDE DEF top, s
<1> QED
  BY <1>1, <1>2, <1>4, <1>5, <1>6, <1>7

\* The elements of the stack.
LEMMA Elements ==
  ASSUME stack \in Seq(StackElement)
  PROVE  /\ Len(stack) \in Nat
         /\ \A i \in 1..Len(stack) : /\ stack[i].node \in Node
                                     /\ stack[i].keys \in SUBSET Node
         /\ stack # <<>> => Len(stack) \in 1..Len(stack)
<1>1. /\ Len(stack) \in Nat
      /\ \A i \in 1..Len(stack) : stack[i] \in StackElement
      /\ stack # <<>> => Len(stack) \in 1..Len(stack)
  OBVIOUS
<1> QED
  BY <1>1 DEF StackElement

\* The key whose turn it is lies in no other one, and no other one in it.
LEMMA KeyIsApart ==
  ASSUME tree \in Trees, stack \in Seq(StackElement), StackInv, stack # <<>>,
         NEW k \in Top.keys
  PROVE  LET n == Len(stack) IN
         /\ k \in Node /\ k \in Waiting
         /\ Above[k] = Inside(stack[n].node) /\ stack[n].node < k
         /\ \A i \in 1..n : \A w \in stack[i].keys :
              /\ w \in Node
              /\ w \notin Above[k] /\ k \notin Above[w]
              /\ i # n => w # k
<1> DEFINE n == Len(stack)
           p == stack[n].node
<1>1. n \in 1..Len(stack) /\ p \in Node /\ k \in stack[n].keys
  BY Elements DEF Top
<1>2. k \in Children(p)
  BY <1>1 DEF StackInv
<1>3. k \in Node /\ p < k /\ Above[k] = Inside(p)
  BY <1>1, <1>2, ChildIsBelow DEF Inside
<1>4. k \in Waiting
  BY <1>1 DEF Waiting
<1>5. ASSUME NEW i \in 1..n, NEW w \in stack[i].keys
      PROVE  /\ w \in Node
             /\ w \notin Above[k] /\ k \notin Above[w]
             /\ i # n => w # k
  <2> DEFINE q == stack[i].node
  <2>1. q \in Node /\ w \in Children(q) /\ w \notin Inside(p)
    BY <1>1, Elements DEF StackInv
  <2>2. i < n => q < p
    BY <1>1 DEF StackInv
  <2>3. p \in Nat /\ q \in Nat /\ k \in Nat /\ q <= p
    BY <1>1, <1>3, <2>1, <2>2, EnhancerAssumption DEF Node
  <2>4. w \in Node /\ Above[w] = Inside(q)
    BY <2>1, ChildIsBelow DEF Inside
  <2>5. k \notin Inside(q)
    <3>1. \A m \in Above[q] : m \in Node /\ m < q /\ m \in Nat
      BY <2>1, AboveComesBefore, EnhancerAssumption DEF Node
    <3> HIDE DEF p, q
    <3> QED
      BY <1>3, <2>3, <3>1 DEF Inside
  <2>6. i # n => w # k
    <3>1. i # n => i < n
      OBVIOUS
    <3>2. tree.parent[w] = q /\ tree.parent[k] = p
      BY <1>2, <2>1 DEF Children
    <3> HIDE DEF p, q
    <3> QED
      BY <2>2, <2>3, <3>1, <3>2
  <2> HIDE DEF p, q
  <2> QED
    BY <1>3, <2>1, <2>4, <2>5, <2>6
<1> HIDE DEF p
<1> QED
  BY <1>3, <1>4, <1>5 DEF p

\* A turn that only takes its key from the stack.
LEMMA TakesKey ==
  ASSUME tree \in Trees, UNCHANGED tree, stack \in Seq(StackElement), StackInv,
         stack # <<>>, NEW k \in Top.keys, stack' = KeyPopped(k)
  PROVE  /\ stack' \in Seq(StackElement) /\ StackInv'
         /\ Waiting' = Waiting \ {k}
         /\ \A w \in Waiting' : w # k /\ w \notin Above[k] /\ k \notin Above[w]
<1> DEFINE n == Len(stack)
           s == KeyPopped(k)
<1>1. k \in Node
  BY KeyIsApart
<1>2. /\ n \in Nat \ {0} /\ s \in Seq(StackElement) /\ Len(s) = n
      /\ \A i \in 1..n : /\ s[i].node = stack[i].node
                         /\ i # n => s[i] = stack[i]
      /\ s[n].keys = stack[n].keys \ {k}
  BY <1>1, StackChanges
<1>3. \A i \in 1..n : s[i].keys = stack[i].keys \ {k}
  <2>1. \A i \in 1..n : i # n => k \notin stack[i].keys
    BY KeyIsApart
  <2> HIDE DEF s
  <2> QED
    BY <1>2, <2>1
<1>4. stack' = s
  OBVIOUS
<1> HIDE DEF s
<1>5. Waiting' = Waiting \ {k}
  <2>1. Waiting' = UNION {s[i].keys : i \in 1..n}
    BY <1>2, <1>4 DEF Waiting
  <2>2. \A w : w \in Waiting' <=> \E i \in 1..n : w \in s[i].keys
    BY <2>1
  <2>3. \A w : w \in Waiting <=> \E i \in 1..n : w \in stack[i].keys
    BY DEF Waiting
  <2> QED
    BY <2>2, <2>3, <1>3
<1>6. StackInv'
  <2>1. /\ \A i \in 1..n : s[i].keys \subseteq Children(s[i].node)
        /\ \A i, j \in 1..n : i < j => s[i].node < s[j].node
        /\ \A i, j \in 1..n : i <= j => s[i].keys \cap Inside(s[j].node) = {}
    BY <1>2, <1>3 DEF StackInv
  <2> QED
    BY <1>2, <1>4, <2>1, SameTree DEF StackInv, Inside
<1>7. ASSUME NEW w \in Waiting, w # k
      PROVE  w \notin Above[k] /\ k \notin Above[w]
  <2>1. PICK i \in 1..n : w \in stack[i].keys
    BY DEF Waiting
  <2> QED
    BY <2>1, KeyIsApart
<1> QED
  BY <1>2, <1>4, <1>5, <1>6, <1>7

\* A turn that goes on with the values of its key.
LEMMA Descends ==
  ASSUME tree \in Trees, UNCHANGED tree, stack \in Seq(StackElement), StackInv,
         stack # <<>>, NEW k \in Top.keys,
         stack' = KeyPopped(k) \o <<Element(k)>>
  PROVE  /\ stack' \in Seq(StackElement) /\ StackInv'
         /\ Waiting' = (Waiting \ {k}) \cup Children(k)
<1> DEFINE n == Len(stack)
           s == KeyPopped(k)
           e == Element(k)
           t == s \o <<e>>
<1>1. k \in Node
  BY KeyIsApart
<1>2. e \in StackElement /\ e.node = k /\ e.keys = Children(k)
  BY <1>1 DEF Element, StackElement, Children
<1>3. /\ n \in Nat \ {0} /\ Len(s) = n
      /\ \A i \in 1..n : /\ s[i].node = stack[i].node
                         /\ i # n => s[i] = stack[i]
      /\ s[n].keys = stack[n].keys \ {k}
  BY <1>1, StackChanges
<1>4. /\ t \in Seq(StackElement) /\ Len(t) = n + 1
      /\ \A i \in 1..n : t[i] = s[i]
      /\ t[n + 1] = e
  <2> HIDE DEF e
  <2> QED
    BY <1>1, <1>2, StackChanges
<1>5. \A i \in 1..n : s[i].keys = stack[i].keys \ {k}
  <2>1. \A i \in 1..n : i # n => k \notin stack[i].keys
    BY KeyIsApart
  <2> HIDE DEF s
  <2> QED
    BY <1>3, <2>1
<1>6. stack' = t
  OBVIOUS
<1> HIDE DEF s, e, t
<1>7. /\ \A i \in 1..n : /\ t[i].node = stack[i].node
                         /\ t[i].keys = stack[i].keys \ {k}
      /\ t[n + 1].node = k /\ t[n + 1].keys = Children(k)
      /\ \A i \in 1..(n + 1) : i \in 1..n \/ i = n + 1
  BY <1>2, <1>3, <1>4, <1>5
<1>8. Waiting' = (Waiting \ {k}) \cup Children(k)
  <2>1. Waiting' = UNION {t[i].keys : i \in 1..(n + 1)}
    BY <1>4, <1>6 DEF Waiting
  <2>2. n + 1 \in 1..(n + 1) /\ \A i \in 1..n : i \in 1..(n + 1)
    BY <1>3
  <2>3. \A w : w \in Waiting' <=> \E i \in 1..(n + 1) : w \in t[i].keys
    BY <2>1
  <2>4. \A w : w \in Waiting <=> \E i \in 1..n : w \in stack[i].keys
    BY DEF Waiting
  <2>5. \A w : w \in Waiting' <=>
          \/ w \in Children(k)
          \/ \E i \in 1..n : w \in stack[i].keys \ {k}
    BY <2>2, <2>3, <1>7
  <2> QED
    BY <2>4, <2>5
<1>9. \A i \in 1..n : stack[i].node < k /\ i < n + 1
  <2>1. stack[n].node < k
    BY KeyIsApart
  <2>2. \A i \in 1..n : stack[i].node \in Nat /\ k \in Nat
    BY <1>1, Elements, EnhancerAssumption DEF Node
  <2>3. \A i \in 1..n : i # n => stack[i].node < stack[n].node
    BY <1>3 DEF StackInv
  <2> QED
    BY <1>3, <2>1, <2>2, <2>3
<1>10. \A i \in 1..n : (stack[i].keys \ {k}) \cap Inside(k) = {}
  BY KeyIsApart DEF Inside
<1>11. Children(k) \cap Inside(k) = {}
  <2>1. ASSUME NEW c \in Children(k) PROVE c \notin Inside(k)
    <3>1. k \in Nat /\ c \in Nat /\ k < c
      BY <1>1, ChildIsBelow, EnhancerAssumption DEF Node
    <3>2. \A m \in Above[k] : m \in Nat /\ m < k
      BY <1>1, AboveComesBefore, EnhancerAssumption DEF Node
    <3> QED
      BY <3>1, <3>2 DEF Inside
  <2> QED
    BY <2>1
<1>12. StackInv'
  <2>1. \A i \in 1..(n + 1) : t[i].keys \subseteq Children(t[i].node)
    BY <1>7 DEF StackInv
  <2>2. ASSUME NEW i \in 1..(n + 1), NEW j \in 1..(n + 1), i < j
        PROVE  t[i].node < t[j].node
    <3>1. i \in 1..n
      BY <1>3, <2>2
    <3> QED
      BY <2>2, <3>1, <1>7, <1>9 DEF StackInv
  <2>3. ASSUME NEW i \in 1..(n + 1), NEW j \in 1..(n + 1), i <= j
        PROVE  t[i].keys \cap Inside(t[j].node) = {}
    <3>1. CASE i \in 1..n /\ j \in 1..n
      BY <2>3, <3>1, <1>7 DEF StackInv
    <3>2. CASE i \in 1..n /\ j = n + 1
      BY <3>2, <1>7, <1>10
    <3>3. CASE i = n + 1
      <4>1. j = n + 1
        BY <1>3, <2>3, <3>3
      <4> QED
        BY <3>3, <4>1, <1>7, <1>11
    <3> QED
      BY <3>1, <3>2, <3>3, <1>7
  <2> QED
    BY <1>4, <1>6, <2>1, <2>2, <2>3, SameTree DEF StackInv, Inside
<1> QED
  BY <1>4, <1>6, <1>8, <1>12

\* A turn that leaves an object whose values are done.
LEMMA LeavesObject ==
  ASSUME tree \in Trees, UNCHANGED tree, stack \in Seq(StackElement), StackInv,
         stack # <<>>, Top.keys = {}, stack' = Pop
  PROVE  /\ stack' \in Seq(StackElement) /\ StackInv'
         /\ Waiting' = Waiting
<1> DEFINE n == Len(stack)
<1>1. Root \in Node
  BY EnhancerAssumption DEF Node, Root
<1>2. /\ n \in Nat \ {0}
      /\ Pop \in Seq(StackElement) /\ Len(Pop) = n - 1
      /\ \A i \in 1..(n - 1) : Pop[i] = stack[i]
  BY <1>1, StackChanges
<1>3. \A i \in 1..n : i \in 1..(n - 1) \/ (i = n /\ stack[i].keys = {})
  BY <1>2 DEF Top
<1>4. 1..(n - 1) \subseteq 1..n
  BY <1>2
<1>5. Waiting' = Waiting
  <2>1. Waiting' = UNION {stack[i].keys : i \in 1..(n - 1)}
    BY <1>2 DEF Waiting
  <2> QED
    BY <2>1, <1>3, <1>4 DEF Waiting
<1>6. StackInv'
  BY <1>2, <1>4, SameTree DEF StackInv, Inside
<1> QED
  BY <1>2, <1>5, <1>6

\* Each question that was asked is none any more that waits, lies in none that
\* waits, and no value in it waits.
AskedInv ==
  /\ \A i \in 1..Len(asked) : /\ Question(asked[i])
                              /\ \A w \in Waiting : /\ asked[i] \notin Inside(w)
                                                    /\ w \notin Above[asked[i]]
  /\ at = "prompt" => asked # <<>>
  /\ at = "read" => asked = <<>>

\* Whatever is marked has been replaced, itself or with what it lies in; or
\* that waits for its turn or for an answer.
Handled(n) ==
  \E m \in Inside(n) : \/ value[m] # "same"
                       \/ m \in Waiting
                       \/ at = "prompt" /\ m = asked[Len(asked)]

LeftInv ==
  /\ at \in {"enhance", "prompt", "done"} =>
       \A n \in Node : tree.kind[n] \in Whole => Handled(n)
  /\ at \in {"read", "done"} => stack = <<>>
  /\ \A n \in Node :
       /\ value[n] = "answer" => Question(n)
       /\ value[n] = "contents" => tree.kind[Begins[n]] = "file"

WalkInv == EnhancerTypeOK /\ StackInv /\ AskedInv /\ AskedOnce /\ LeftInv

\* Nothing is walked through to begin with.
LEMMA InitWalk == EnhancerInit => WalkInv
<1> SUFFICES ASSUME EnhancerInit PROVE WalkInv
  OBVIOUS
<1> USE DEF EnhancerInit
<1>1. EnhancerTypeOK
  <2>1. stack \in Seq(StackElement) /\ asked \in Seq(Node)
    OBVIOUS
  <2>2. value \in [Node -> {"same", "answer", "contents"}]
    OBVIOUS
  <2> QED
    BY <2>1, <2>2 DEF EnhancerTypeOK, StackElement
<1>2. StackInv
  BY DEF StackInv
<1>3. AskedInv /\ AskedOnce
  BY DEF AskedInv, AskedOnce
<1>4. LeftInv
  BY DEF LeftInv
<1> QED
  BY <1>1, <1>2, <1>3, <1>4 DEF WalkInv

\* The walk starts at the root, with everything ahead.
LEMMA ParseStep == WalkInv /\ Parse => WalkInv'
<1> SUFFICES ASSUME WalkInv, Parse PROVE WalkInv'
  OBVIOUS
<1> USE DEF WalkInv
<1>1. /\ UNCHANGED <<tree, value, asked, resumed>>
      /\ tree \in Trees /\ stack = <<>>
  BY DEF Parse, EnhancerTypeOK, LeftInv
<1>2. CASE UNCHANGED stack /\ at' \in {"failed", "done"}
  <2>1. EnhancerTypeOK'
    BY <1>1, <1>2 DEF EnhancerTypeOK
  <2>2. StackInv' /\ AskedOnce' /\ AskedInv'
    BY <1>1, <1>2, SameTree DEF StackInv, AskedOnce, AskedInv, Inside, Waiting
  <2>3. at' = "done" => \A n \in Node : tree.kind[n] \notin Whole
    BY <1>2 DEF Parse
  <2>4. LeftInv'
    BY <1>1, <1>2, <2>3, SameTree DEF LeftInv
  <2> QED
    BY <2>1, <2>2, <2>4
<1>3. CASE /\ at' = "enhance" /\ stack' = <<Element(Root)>>
           /\ tree.kind[Root] \in {"object", "array"}
  <2>1. /\ Root \in Node
        /\ Element(Root) \in StackElement
        /\ Element(Root).node = Root /\ Element(Root).keys = Children(Root)
    BY EnhancerAssumption DEF Node, Root, Element, StackElement, Children
  <2> HIDE DEF Element
  <2>2. /\ stack' \in Seq(StackElement) /\ Len(stack') = 1
        /\ stack'[1].node = Root /\ stack'[1].keys = Children(Root)
    BY <1>3, <2>1
  <2>3. EnhancerTypeOK'
    BY <1>1, <1>3, <2>2 DEF EnhancerTypeOK, StackElement
  <2>4. Waiting' = Children(Root)
    <3>1. 1..1 = {1}
      OBVIOUS
    <3> QED
      BY <2>2, <3>1 DEF Waiting
  <2>5. Above[Root] = {}
    BY <1>1, <2>1, AboveEquation
  <2>6. StackInv'
    <3>1. \A i \in 1..1 : i = 1
      OBVIOUS
    <3>2. \A c \in Children(Root) : c # Root
      BY <1>1, <2>1, ChildIsBelow, EnhancerAssumption DEF Node, Root
    <3> QED
      BY <1>1, <2>2, <2>5, <3>1, <3>2, SameTree DEF StackInv, Inside
  <2>7. AskedOnce'
    BY <1>1, SameTree DEF AskedOnce
  <2>8. AskedInv'
    <3>1. asked' = <<>>
      BY <1>1 DEF Parse, AskedInv
    <3> QED
      BY <1>3, <3>1 DEF AskedInv
  <2>9. LeftInv'
    <3>1. ASSUME NEW n \in Node, tree.kind[n] \in Whole
          PROVE  \E c \in Children(Root) : c \in Inside(n)
      <4>1. n # Root
        BY <1>3, <3>1 DEF Whole
      <4> QED
        BY <1>1, <4>1, RootAboveAll, AboveLeadsDown DEF Inside
    <3>2. \A n \in Node : tree.kind[n] \in Whole => Handled(n)'
      BY <1>1, <2>4, <3>1, SameTree DEF Handled, Inside
    <3> QED
      BY <1>1, <1>3, <3>2, SameTree DEF LeftInv
  <2> QED
    BY <2>3, <2>6, <2>7, <2>8, <2>9
<1> QED
  BY <1>2, <1>3 DEF Parse

\* The process may end in a prompt, or where no callback comes.
LEMMA EndsStep == WalkInv /\ ProcessEnds => WalkInv'
<1> SUFFICES ASSUME WalkInv, ProcessEnds PROVE WalkInv'
  OBVIOUS
<1> USE DEF WalkInv
<1>1. /\ UNCHANGED <<tree, stack, value, asked, resumed>>
      /\ at' = "silent"
  BY DEF ProcessEnds
<1>2. EnhancerTypeOK' /\ StackInv'
  BY <1>1, SameTree DEF EnhancerTypeOK, StackInv, Inside
<1>3. AskedInv' /\ AskedOnce'
  BY <1>1, SameTree DEF AskedInv, AskedOnce, Waiting, Inside
<1>4. LeftInv'
  BY <1>1, SameTree DEF LeftInv
<1> QED
  BY <1>2, <1>3, <1>4

\* The answer replaces the question that was asked last.
LEMMA AnswerStep == WalkInv /\ Answer => WalkInv'
<1> SUFFICES ASSUME WalkInv, Answer PROVE WalkInv'
  OBVIOUS
<1> USE DEF WalkInv
<1> DEFINE q == asked[Len(asked)]
<1>1. /\ UNCHANGED <<tree, stack, asked, resumed>> /\ tree \in Trees
      /\ at = "prompt" /\ at' = "enhance"
      /\ value' = [value EXCEPT ![q] = "answer"]
  BY DEF Answer, EnhancerTypeOK
<1>2. asked \in Seq(Node) /\ asked # <<>>
  BY <1>1 DEF AskedInv, EnhancerTypeOK
<1>3. q \in Node /\ Question(q)
  <2>1. Len(asked) \in 1..Len(asked)
    BY <1>2
  <2> QED
    BY <1>2, <2>1 DEF AskedInv
<1> HIDE DEF q
<1>4. /\ value' \in [Node -> {"same", "answer", "contents"}]
      /\ value'[q] = "answer"
      /\ \A n \in Node : n # q => value'[n] = value[n]
  BY <1>1, <1>3 DEF EnhancerTypeOK
<1>5. EnhancerTypeOK' /\ StackInv'
  BY <1>1, <1>4, SameTree DEF EnhancerTypeOK, StackInv, Inside
<1>6. AskedInv' /\ AskedOnce'
  BY <1>1, <1>2, SameTree DEF AskedInv, AskedOnce, Waiting, Inside
<1>7. LeftInv'
  <2>1. ASSUME NEW n \in Node, tree.kind[n] \in Whole PROVE Handled(n)'
    <3>1. PICK m \in Inside(n) : \/ value[m] # "same" \/ m \in Waiting \/ m = q
      BY <1>1, <2>1 DEF LeftInv, Handled, q
    <3>2. m \in Node
      BY <1>1, <2>1, AboveComesBefore DEF Inside
    <3>3. value'[m] # "same" \/ m \in Waiting'
      BY <1>1, <1>4, <3>1, <3>2 DEF Waiting
    <3> QED
      BY <1>1, <3>3, SameTree DEF Handled, Inside
  <2>2. \A n \in Node :
          /\ value'[n] = "answer" => Question(n)'
          /\ value'[n] = "contents" => tree'.kind[Begins'[n]] = "file"
    BY <1>1, <1>3, <1>4, SameTree DEF LeftInv
  <2> QED
    BY <1>1, <2>1, <2>2 DEF LeftInv
<1> QED
  BY <1>5, <1>6, <1>7

\* Nothing is left in the object on top, or on the stack.
LEMMA PoppedStep == WalkInv /\ EnhanceConfig /\ Popped
                      /\ (stack = <<>> \/ Top.keys = {}) => WalkInv'
<1> SUFFICES ASSUME WalkInv, EnhanceConfig, Popped,
                    stack = <<>> \/ Top.keys = {}
             PROVE  WalkInv'
  OBVIOUS
<1> USE DEF WalkInv
<1>1. /\ UNCHANGED <<tree, value, asked>> /\ tree \in Trees
      /\ at = "enhance" /\ at' \in {"enhance", "done"}
      /\ resumed' \in BOOLEAN
      /\ stack \in Seq(StackElement)
  BY DEF Popped, EnhanceConfig, EnhancerTypeOK, StackElement
<1>2. /\ stack' \in Seq(StackElement) /\ StackInv' /\ Waiting' = Waiting
      /\ at' = "done" => stack' = <<>>
  <2>1. CASE stack = <<>>
    BY <1>1, <2>1, SameTree DEF Popped, StackInv, Inside, Waiting
  <2>2. CASE stack # <<>>
    BY <1>1, <2>2, LeavesObject DEF Popped
  <2> QED
    BY <2>1, <2>2
<1>3. EnhancerTypeOK'
  BY <1>1, <1>2 DEF EnhancerTypeOK, StackElement
<1>4. AskedInv' /\ AskedOnce'
  BY <1>1, <1>2, SameTree DEF AskedInv, AskedOnce, Inside
<1>5. LeftInv'
  <2>1. \A n \in Node : tree.kind[n] \in Whole => Handled(n)'
    BY <1>1, <1>2, SameTree DEF LeftInv, Handled, Inside
  <2> QED
    BY <1>1, <1>2, <2>1, SameTree DEF LeftInv
<1> QED
  BY <1>2, <1>3, <1>4, <1>5

\* The key is no question: the walk goes on in it, or leaves it as it is.
LEMMA DescendStep ==
  ASSUME WalkInv, at = "enhance", stack # <<>>, NEW k \in Top.keys,
         UNCHANGED tree, ~Question(k), Descend(k)
  PROVE  WalkInv'
<1> USE DEF WalkInv
<1>1. /\ UNCHANGED <<tree, value, asked, resumed>> /\ tree \in Trees
      /\ at' \in {"enhance", "failed"}
      /\ stack \in Seq(StackElement)
  BY DEF Descend, EnhancerTypeOK, StackElement
<1>2. k \in Node /\ k \in Waiting
  BY <1>1, KeyIsApart
<1>3. AskedOnce'
  BY <1>1, SameTree DEF AskedOnce
<1>4. CASE at' = "failed" /\ UNCHANGED stack
  <2>1. EnhancerTypeOK' /\ StackInv'
    BY <1>1, <1>4, SameTree DEF EnhancerTypeOK, StackInv, Inside
  <2>2. AskedInv' /\ LeftInv'
    BY <1>1, <1>4, SameTree DEF AskedInv, LeftInv, Waiting, Inside
  <2> QED
    BY <1>3, <2>1, <2>2
<1>5. CASE /\ tree.kind[k] \in {"object", "array"} /\ at' = at
           /\ stack' = KeyPopped(k) \o <<Element(k)>>
  <2>1. /\ stack' \in Seq(StackElement) /\ StackInv'
        /\ Waiting' = (Waiting \ {k}) \cup Children(k)
    BY <1>1, <1>5, Descends
  <2>2. EnhancerTypeOK'
    BY <1>1, <2>1 DEF EnhancerTypeOK, StackElement
  <2>3. AskedInv'
    <3>1. ASSUME NEW i \in 1..Len(asked), NEW c \in Children(k)
          PROVE  asked[i] \notin Inside(c) /\ c \notin Above[asked[i]]
      <4>1. asked[i] \in Node
        BY DEF EnhancerTypeOK
      <4>2. asked[i] \notin Inside(k) /\ k \notin Above[asked[i]]
        BY <1>2 DEF AskedInv
      <4>3. Above[c] = Inside(k)
        BY <1>1, <1>2, ChildIsBelow DEF Inside
      <4>4. asked[i] # c
        BY <4>2, <4>3 DEF Inside
      <4>5. c \notin Above[asked[i]]
        BY <1>1, <4>1, <4>2, <4>3, AboveTransitive DEF Inside
      <4> QED
        BY <4>2, <4>3, <4>4, <4>5 DEF Inside
    <3>2. ASSUME NEW i \in 1..Len(asked), NEW w \in Waiting'
          PROVE  asked[i] \notin Inside(w) /\ w \notin Above[asked[i]]
      BY <2>1, <3>1 DEF AskedInv
    <3> QED
      BY <1>1, <1>5, <3>2, SameTree DEF AskedInv, Inside
  <2>4. ASSUME NEW n \in Node, tree.kind[n] \in Whole PROVE Handled(n)'
    <3>1. PICK m \in Inside(n) : value[m] # "same" \/ m \in Waiting
      BY <1>5, <2>4 DEF LeftInv, Handled
    <3>2. CASE m = k
      <4>1. k \in Above[n]
        BY <1>5, <2>4, <3>1, <3>2 DEF Inside, Whole
      <4>2. \E c \in Children(k) : c \in Inside(n)
        BY <1>1, <4>1, AboveLeadsDown DEF Inside
      <4> QED
        BY <1>1, <2>1, <4>2, SameTree DEF Handled, Inside
    <3>3. CASE m # k
      BY <1>1, <2>1, <3>1, <3>3, SameTree DEF Handled, Inside
    <3> QED
      BY <3>2, <3>3
  <2>5. LeftInv'
    BY <1>1, <1>5, <2>4, SameTree DEF LeftInv
  <2> QED
    BY <1>3, <2>1, <2>2, <2>3, <2>5
<1>6. CASE tree.kind[k] \in Leaf /\ at' = at /\ stack' = KeyPopped(k)
  <2>1. /\ stack' \in Seq(StackElement) /\ StackInv'
        /\ Waiting' = Waiting \ {k}
    BY <1>1, <1>6, TakesKey
  <2>2. EnhancerTypeOK'
    BY <1>1, <1>6, <2>1 DEF EnhancerTypeOK, StackElement
  <2>3. AskedInv'
    BY <1>1, <1>6, <2>1, SameTree DEF AskedInv, Inside
  <2>4. ASSUME NEW n \in Node, tree.kind[n] \in Whole PROVE Handled(n)'
    <3>1. PICK m \in Inside(n) : value[m] # "same" \/ m \in Waiting
      BY <1>6, <2>4 DEF LeftInv, Handled
    <3>2. k \notin Above[n]
      BY <1>1, <1>6, <2>4, AboveLeadsDown DEF Leaf
    <3>3. k # n
      <4>1. tree.kind[k] \in Whole => Question(k)
        <5>1. Begins[k] = k /\ Ends[k] = k /\ k # 0
          BY <1>1, <1>2, <1>6, TextEnds, EnhancerAssumption DEF Node
        <5> QED
          BY <5>1 DEF Question
      <4> QED
        BY <2>4, <4>1
    <3> QED
      BY <1>1, <2>1, <3>1, <3>2, <3>3, SameTree DEF Handled, Inside
  <2>5. LeftInv'
    BY <1>1, <1>6, <2>4, SameTree DEF LeftInv
  <2> QED
    BY <1>3, <2>1, <2>2, <2>3, <2>5
<1> QED
  BY <1>4, <1>5, <1>6 DEF Descend

\* The key is one: it is replaced, asked about, or ends the walk.
LEMMA ReplaceStep ==
  ASSUME WalkInv, at = "enhance", stack # <<>>, NEW k \in Top.keys,
         UNCHANGED tree, Question(k), Replace(k, tree.kind[Begins[k]])
  PROVE  WalkInv'
<1> USE DEF WalkInv
<1>1. /\ stack' = KeyPopped(k) /\ tree \in Trees
      /\ stack \in Seq(StackElement) /\ asked \in Seq(Node)
      /\ value \in [Node -> {"same", "answer", "contents"}]
  BY DEF Replace, EnhancerTypeOK, StackElement
<1>2. k \in Node /\ k \in Waiting
  BY <1>1, KeyIsApart
<1>3. /\ stack' \in Seq(StackElement) /\ StackInv'
      /\ Waiting' = Waiting \ {k}
      /\ \A w \in Waiting' : w # k /\ w \notin Above[k] /\ k \notin Above[w]
  BY <1>1, TakesKey

\* As before, but for the key.
<1>4. ASSUME NEW n \in Node, tree.kind[n] \in Whole
      PROVE  \E m \in Inside(n) :
               m \in Node /\ (value[m] # "same" \/ m \in Waiting' \/ m = k)
  <2>1. PICK m \in Inside(n) : value[m] # "same" \/ m \in Waiting
    BY <1>4 DEF LeftInv, Handled
  <2>2. m \in Node
    BY <1>1, <1>4, AboveComesBefore DEF Inside
  <2> QED
    BY <1>3, <2>1, <2>2
<1>5. CASE at' \in {"stuck", "failed"} /\ UNCHANGED <<value, asked, resumed>>
  <2>1. EnhancerTypeOK'
    BY <1>3, <1>5 DEF EnhancerTypeOK, StackElement
  <2>2. AskedInv' /\ AskedOnce'
    BY <1>3, <1>5, SameTree DEF AskedInv, AskedOnce, Inside
  <2>3. LeftInv'
    BY <1>5, SameTree DEF LeftInv
  <2> QED
    BY <1>3, <2>1, <2>2, <2>3
<1>6. CASE /\ tree.kind[Begins[k]] = "file" /\ at' = at
           /\ value' = [value EXCEPT ![k] = "contents"]
           /\ UNCHANGED <<asked, resumed>>
  <2>1. /\ value' \in [Node -> {"same", "answer", "contents"}]
        /\ value'[k] = "contents"
        /\ \A n \in Node : n # k => value'[n] = value[n]
    BY <1>1, <1>2, <1>6
  <2>2. EnhancerTypeOK'
    BY <1>3, <1>6, <2>1 DEF EnhancerTypeOK, StackElement
  <2>3. AskedInv' /\ AskedOnce'
    BY <1>3, <1>6, SameTree DEF AskedInv, AskedOnce, Inside
  <2>4. ASSUME NEW n \in Node, tree.kind[n] \in Whole PROVE Handled(n)'
    <3>1. PICK m \in Inside(n) :
            m \in Node /\ (value[m] # "same" \/ m \in Waiting' \/ m = k)
      BY <1>4, <2>4
    <3>2. value'[m] # "same" \/ m \in Waiting'
      BY <2>1, <3>1
    <3> QED
      BY <3>2, SameTree DEF Handled, Inside
  <2>5. \A n \in Node :
          /\ value'[n] = "answer" => Question(n)'
          /\ value'[n] = "contents" => tree'.kind[Begins'[n]] = "file"
    BY <1>6, <2>1, SameTree DEF LeftInv
  <2>6. LeftInv'
    BY <1>6, <2>4, <2>5 DEF LeftInv
  <2> QED
    BY <1>3, <2>2, <2>3, <2>6
<1>7. CASE /\ at' = "prompt" /\ resumed' = TRUE
           /\ asked' = Append(asked, k) /\ UNCHANGED value
  <2>1. /\ asked' \in Seq(Node) /\ asked' # <<>>
        /\ Len(asked') = Len(asked) + 1 /\ Len(asked) \in Nat
        /\ asked'[Len(asked')] = k
        /\ \A i \in 1..Len(asked) : asked'[i] = asked[i]
    BY <1>1, <1>2, <1>7
  <2>2. \A i \in 1..Len(asked') : i \in 1..Len(asked) \/ i = Len(asked')
    BY <2>1
  <2>3. EnhancerTypeOK'
    BY <1>3, <1>7, <2>1 DEF EnhancerTypeOK, StackElement
  <2>4. AskedInv'
    <3>1. ASSUME NEW i \in 1..Len(asked') PROVE Question(asked'[i])
      BY <2>1, <2>2 DEF AskedInv
    <3>2. ASSUME NEW i \in 1..Len(asked'), NEW w \in Waiting'
          PROVE  asked'[i] \notin Inside(w) /\ w \notin Above[asked'[i]]
      <4>1. CASE i \in 1..Len(asked)
        BY <1>3, <2>1, <4>1 DEF AskedInv
      <4>2. CASE i = Len(asked')
        BY <1>3, <2>1, <4>2 DEF Inside
      <4> QED
        BY <2>2, <4>1, <4>2
    <3> QED
      BY <1>7, <2>1, <3>1, <3>2, SameTree DEF AskedInv, Inside
  <2>5. AskedOnce'
    <3>1. ASSUME NEW i \in 1..Len(asked'), NEW j \in 1..Len(asked'), i < j
          PROVE  asked'[i] # asked'[j] /\ asked'[i] \notin Above[asked'[j]]
      <4>1. i \in 1..Len(asked)
        BY <2>1, <2>2, <3>1
      <4>2. CASE j \in 1..Len(asked)
        BY <1>1, <2>1, <3>1, <4>1, <4>2 DEF AskedOnce
      <4>3. CASE j = Len(asked')
        <5>1. asked[i] \notin Inside(k)
          BY <1>2, <4>1 DEF AskedInv
        <5> QED
          BY <2>1, <4>1, <4>3, <5>1 DEF Inside
      <4> QED
        BY <2>2, <4>2, <4>3
    <3>2. DOMAIN asked' = 1..Len(asked')
      BY <2>1
    <3> QED
      BY <3>1, <3>2, SameTree DEF AskedOnce
  <2>6. ASSUME NEW n \in Node, tree.kind[n] \in Whole PROVE Handled(n)'
    <3>1. PICK m \in Inside(n) : value[m] # "same" \/ m \in Waiting' \/ m = k
      BY <1>4, <2>6
    <3> QED
      BY <1>7, <2>1, <3>1, SameTree DEF Handled, Inside
  <2>7. LeftInv'
    BY <1>7, <2>6, SameTree DEF LeftInv
  <2> QED
    BY <1>3, <2>3, <2>4, <2>5, <2>7
<1> QED
  BY <1>5, <1>6, <1>7 DEF Replace

\* A turn of the walk.
LEMMA EnhanceStep == WalkInv /\ EnhanceConfig => WalkInv'
<1> SUFFICES ASSUME WalkInv, EnhanceConfig PROVE WalkInv'
  OBVIOUS
<1>1. CASE stack = <<>> \/ Top.keys = {}
  BY <1>1, PoppedStep DEF EnhanceConfig
<1>2. CASE stack # <<>> /\ Top.keys # {}
  <2> DEFINE k == Last(Top.keys)
  <2>1. Top.keys \in SUBSET Node
    <3>1. stack \in Seq(StackElement)
      BY DEF WalkInv, EnhancerTypeOK, StackElement
    <3> QED
      BY <1>2, <3>1, Elements DEF Top
  <2>2. k \in Top.keys
    BY <1>2, <2>1, Ordered
  <2>3. /\ at = "enhance" /\ UNCHANGED tree
        /\ IF Question(k) THEN Replace(k, tree.kind[Begins[k]]) ELSE Descend(k)
    BY <1>2 DEF EnhanceConfig
  <2> HIDE DEF k
  <2> QED
    BY <1>2, <2>2, <2>3, ReplaceStep, DescendStep
<1> QED
  BY <1>1, <1>2

\* Every step of the enhancer keeps the invariant.
LEMMA NextWalk == WalkInv /\ [EnhancerNext]_enhancerVars => WalkInv'
<1>1. ASSUME WalkInv, UNCHANGED enhancerVars PROVE WalkInv'
  <2>1. UNCHANGED <<tree, at, stack, value, asked, resumed>>
    BY <1>1 DEF enhancerVars
  <2>2. EnhancerTypeOK' /\ StackInv'
    BY <1>1, <2>1, SameTree DEF WalkInv, EnhancerTypeOK, StackInv, Inside
  <2>3. AskedInv' /\ AskedOnce'
    BY <1>1, <2>1, SameTree DEF WalkInv, AskedInv, AskedOnce, Waiting, Inside
  <2>4. LeftInv'
    BY <1>1, <2>1, SameTree
    DEF WalkInv, LeftInv, Handled, Waiting, Inside
  <2> QED
    BY <2>2, <2>3, <2>4 DEF WalkInv
<1> QED
  BY <1>1, ParseStep, EnhanceStep, AnswerStep, EndsStep DEF EnhancerNext
-----------------------------------------------------------------------------
(* The client as a whole.                                                  *)

\* A request is signed and sent after the walk, with a revision of the working
\* copy.
SentInv ==
  /\ link \in {"hconf", "url", "rev", "sign", "response"} \/ run.at # "none" =>
       at = "done"
  /\ link \in {"sign", "response"} \/ run.at # "none" =>
       query \in [{"rev"} -> 0..working]

ClientInv == WalkInv /\ CodeInv /\ ClientTypeOK /\ SentInv

\* Nothing is signed to begin with.
LEMMA InitClient == ClientInit => ClientInv
<1> SUFFICES ASSUME ClientInit PROVE ClientInv
  OBVIOUS
<1> USE DEF ClientInit
<1>1. WalkInv /\ CodeInv
  BY InitWalk, InitCode
<1>2. query \in [{} -> Revision]
  OBVIOUS
<1>3. ClientTypeOK
  <2>1. link \in DOMAIN Check
    BY DEF Check
  <2> QED
    BY <1>1, <1>2, <2>1 DEF ClientTypeOK, WalkInv, CodeInv,
                            ResponseAgrees
<1>4. SentInv
  BY DEF SentInv
<1> QED
  BY <1>1, <1>3, <1>4 DEF ClientInv

\* The links of the chain, with what they leave alone.
LEMMA LinksStep ==
  ASSUME ClientInv, ClientStep
  PROVE  /\ UNCHANGED <<enhancerVars, repository, revision>>
         /\ link' \in DOMAIN Check \cup {"config", "hconf", "url", "rev",
                                         "sign", "response", "end"}
         /\ code' \in 0..255
         /\ query' = query \/ (link = "rev" /\ query' = [rev |-> working])
         /\ SentInv'
<1> USE DEF ClientInv, CodeInv, ResponseAgrees, Run
<1>1. code \in 0..255 /\ 0 % 256 \in 0..255 /\ 1 % 256 \in 0..255
      /\ \A s \in {200, 400, 404} : s % 256 \in 0..255
  BY DEF ClientTypeOK
<1>2. /\ DOMAIN Check = {"filename", "svndirectory", "key", "hadoopConfDir",
                          "user"}
      /\ \A c \in DOMAIN Check :
           Check[c] \in {"svndirectory", "key", "hadoopConfDir", "user",
                         "config"}
  BY DEF Check
<1>3. CASE CheckInput \/ ConfigReady \/ Jsonify \/ GetUrl
  <2>1. /\ UNCHANGED <<enhancerVars, repository, query, run, revision>>
        /\ link' \in (DOMAIN Check \cup {"config", "hconf", "url", "rev",
                                         "end"})
        /\ code' \in 0..255
        /\ link' \in {"hconf", "url", "rev"} => at = "done"
    <3>1. CASE CheckInput
      BY <1>1, <1>2, <3>1 DEF CheckInput, Goes, Exit
    <3>2. CASE ConfigReady
      BY <1>1, <3>2 DEF ConfigReady, Goes, Exit, Parsed
    <3>3. CASE Jsonify \/ GetUrl
      BY <1>1, <3>3 DEF Jsonify, GetUrl, Goes, Exit, SentInv
    <3> QED
      BY <1>3, <3>1, <3>2, <3>3
  <2> QED
    BY <1>2, <2>1 DEF SentInv, enhancerVars, repository
<1>4. CASE GetRevision
  <2>1. /\ UNCHANGED <<enhancerVars, repository, run, revision>>
        /\ link = "rev" /\ at = "done"
        /\ \/ link' = "sign" /\ query' = [rev |-> working]
           \/ link' = "end" /\ query' = query
        /\ code' \in 0..255
    BY <1>1, <1>4 DEF GetRevision, Goes, Exit, SentInv
  <2>2. working \in 0..working
    BY DEF ClientTypeOK, Revision
  <2>3. [rev |-> working] \in [{"rev"} -> 0..working]
    BY <2>2
  <2>4. run.at = "none"
    BY <2>1 DEF PostedLast
  <2> QED
    BY <2>1, <2>3, <2>4 DEF SentInv, enhancerVars, repository
<1>5. CASE SignAndPost
  <2>1. /\ UNCHANGED <<enhancerVars, repository, query, revision>>
        /\ link = "sign" /\ link' \in {"response", "end"}
        /\ code' \in 0..255
    BY <1>1, <1>5 DEF SignAndPost, Goes, Exit
  <2> QED
    BY <2>1 DEF SentInv, enhancerVars, repository
<1>6. CASE Finish
  <2>1. /\ UNCHANGED <<enhancerVars, repository, query, run, revision>>
        /\ link' = "end"
        /\ code' \in 0..255
    BY <1>1, <1>6 DEF Finish, Exit
  <2> QED
    BY <2>1 DEF SentInv, enhancerVars, repository
<1> QED
  BY <1>3, <1>4, <1>5, <1>6 DEF ClientStep

\* Which revision the server takes is none of the request's doing.
LEMMA TakesHead ==
  ASSUME ClientTypeOK
  PROVE  SvnRevision \in Revision
<1>1. "revision" \notin DOMAIN query
  BY DEF ClientTypeOK
<1> QED
  BY <1>1 DEF ClientTypeOK, SvnRevision

\* Every step of the client, the server and the repository keeps the
\* invariant.
LEMMA NextClient == ClientInv /\ [ClientNext]_clientVars => ClientInv'
<1> SUFFICES ASSUME ClientInv, [ClientNext]_clientVars PROVE ClientInv'
  OBVIOUS
<1> USE DEF ClientInv
<1>1. CodeInv'
  BY NextCode
<1>2. WalkInv'
  <2>1. [EnhancerNext]_enhancerVars
    BY LinksStep
    DEF ClientNext, clientVars, Enhance, ServerStep, Verify, Checkout,
        RequestEnd, Output, Repository
  <2> QED
    BY <2>1, NextWalk
<1>3. EnhancerTypeOK' /\ run' \in Run
  BY <1>1, <1>2 DEF WalkInv, CodeInv, ResponseAgrees
<1>4. CASE ClientStep
  <2>1. query' \in [{} -> Revision] \cup [{"rev"} -> Revision]
    <3>1. working \in Revision
      BY ClientAssumption DEF ClientTypeOK, Revision
    <3>2. [rev |-> working] \in [{"rev"} -> Revision]
      BY <3>1
    <3> QED
      BY <1>4, <3>2, LinksStep DEF ClientTypeOK
  <2>2. UNCHANGED <<repository, revision>>
    BY <1>4, LinksStep
  <2> QED
    BY <1>1, <1>2, <1>3, <1>4, <2>1, <2>2, LinksStep
    DEF ClientTypeOK, repository
<1>5. CASE Enhance
  <2>1. /\ link = "config" /\ at # "done"
        /\ UNCHANGED <<link, code, working, head, query, run, revision>>
    BY <1>5
    DEF Enhance, EnhancerNext, Parse, EnhanceConfig, Answer, ProcessEnds,
        repository
  <2> QED
    BY <1>1, <1>2, <1>3, <2>1 DEF ClientTypeOK, SentInv
<1>6. CASE ServerStep \/ Output
  <2>1. /\ UNCHANGED <<enhancerVars, link, code, working, head, query>>
        /\ revision' \in {revision, SvnRevision}
        /\ run.at # "none"
    BY <1>6
    DEF ServerStep, Verify, Checkout, RequestEnd, Output, repository
  <2> QED
    BY <1>1, <1>2, <1>3, <2>1, TakesHead DEF ClientTypeOK, SentInv, enhancerVars
<1>7. CASE Repository
  <2>1. /\ UNCHANGED <<enhancerVars, link, code, query, run, revision>>
        /\ head' \in Revision /\ working' \in 0..head' /\ working <= working'
    BY <1>7, ClientAssumption DEF Repository, ClientTypeOK, Revision
  <2>2. 0..working \subseteq 0..working'
    BY <2>1 DEF ClientTypeOK, Revision
  <2> QED
    BY <1>1, <1>2, <1>3, <2>1, <2>2 DEF ClientTypeOK, SentInv, enhancerVars
<1>8. CASE UNCHANGED clientVars
  BY <1>1, <1>2, <1>3, <1>8
  DEF ClientTypeOK, SentInv, clientVars, enhancerVars
<1> QED
  BY <1>4, <1>5, <1>6, <1>7, <1>8 DEF ClientNext

\* The invariant holds throughout.
LEMMA ClientInvariant == ClientSpec => []ClientInv
  BY InitClient, NextClient, PTL DEF ClientSpec

\* The client keeps its types, for every set of configurations.
THEOREM ClientTypeCorrect == ClientSpec => []ClientTypeOK
<1>1. ClientInv => ClientTypeOK
  BY DEF ClientInv
<1> QED
  BY <1>1, ClientInvariant, PTL

\* The user is asked each question once, and nothing about what an answer has
\* replaced already, for every configuration (config.js:74-103).
THEOREM QuestionsAskedOnce == ClientSpec => []AskedOnce
<1>1. ClientInv => AskedOnce
  BY DEF ClientInv, WalkInv
<1> QED
  BY <1>1, ClientInvariant, PTL

\* What is sent has all its questions answered, whatever the configuration and
\* the order of the prompts (config.js:37-111, run-recipe.js:143-196).
THEOREM SentWhenComplete == ClientSpec => []SentIsComplete
<1>1. ASSUME ClientInv PROVE SentIsComplete
  <2>1. SUFFICES ASSUME run.at # "none"
                 PROVE  NoQuestionLeft /\ query["rev"] <= working
    BY DEF SentIsComplete
  <2>2. at = "done" /\ query \in [{"rev"} -> 0..working]
    BY <1>1, <2>1 DEF ClientInv, SentInv
  <2>3. Waiting = {}
    BY <1>1, <2>2 DEF ClientInv, WalkInv, LeftInv, Waiting
  <2>4. ASSUME NEW n \in Node, tree.kind[n] \in Whole
        PROVE  value[n] # "same" \/ Taken(n)
    BY <1>1, <2>2, <2>3, <2>4
    DEF ClientInv, WalkInv, LeftInv, Handled, Inside, Taken
  <2>5. NoQuestionLeft
    BY <1>1, <2>4 DEF NoQuestionLeft, ClientInv, WalkInv, LeftInv
  <2> QED
    BY <2>2, <2>5
<1> QED
  BY <1>1, ClientInvariant, PTL
=============================================================================

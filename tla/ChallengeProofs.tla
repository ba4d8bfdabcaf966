--------------------------- MODULE ChallengeProofs ---------------------------
(***************************************************************************)
(* Theorems about Challenge, for any layout of the directories, any number *)
(* of challenges, and files that change in any way: the walk of a tree is  *)
(* over when its last call has returned, and not before; OK is only said   *)
(* of a jar that lay there; NOK only if no jar did all the time, or a      *)
(* directory could not be looked at; and each answer has its record.       *)
(***************************************************************************)
EXTENDS Challenge, FiniteSetTheorems, TLAPS

-----------------------------------------------------------------------------
(* The invariant: what is known of a request on its own.                   *)

\* The entries of d among `nodes`.
Below(nodes, d) == {n \in nodes : Parent[n] = d}

\* The nodes a call is outstanding for, or whose entries are waited for.
Live(r) == r.reading \cup r.stating \cup {d \in Dir : r.pending[d] > 0}

\* Nodes have one call each, and only entries are looked at by fs.stat.
Apart(r) ==
  /\ r.reading \cap r.stating = {}
  /\ \A d \in Dir \cap (r.reading \cup r.stating) : r.pending[d] = 0
  /\ \A n \in r.stating : Parent[n] # NoDir

\* `pending` counts the entries of a directory that are not done; `returning`
\* are those whose callback is running.
Counted(r, returning) ==
  \A d \in Dir :
    r.pending[d] = Cardinality(Below(Live(r) \cup returning, d))

\* One tree is walked at a time, and none but in the state for it.
Rooted(c, r) ==
  IF r.at = "walk"
  THEN \/ Below(Live(r), NoDir) = {SandboxOf[c]}
       \/ Below(Live(r), NoDir) = {WhitelistDir}
  ELSE Live(r) = {}

\* What a challenge may look at.
Sought(c) == {n \in Node : Within(n, SandboxOf[c]) \/ Within(n, WhitelistDir)}

Results(c) == (Sought(c) \cap Jar) \cup {Undefined}

\* Nothing else is walked, found or hashed.
Inside(c, r) ==
  /\ r.reading \cup r.stating \subseteq Sought(c)
  /\ \A d \in Dir : r.results[d] \subseteq Results(c)
  /\ r.found \subseteq Results(c)
  /\ r.at \in {"read", "hash"} => r.location \in Sought(c) \cap Jar

Audited(r) ==
  /\ r.at = "new" <=> r.records = <<>>
  /\ r.at # "new" => r.records[1] = 1
  /\ \A i \in DOMAIN r.records :
       r.records[i] = 2 <=> i = Len(r.records) /\ r.at \in Answers

RequestInv(c, r) ==
  /\ r \in Request
  /\ Apart(r) /\ Counted(r, {}) /\ Rooted(c, r)
  /\ Inside(c, r) /\ Audited(r)

-----------------------------------------------------------------------------
(* The invariant: the files, and what a request does not miss of them.     *)

Present(n) == n \in dirs \/ (n \in Jar /\ content[n] # Absent)

\* What is there lies in a directory that is there, and a sandbox that is
\* there was made.
FilesInv ==
  /\ dirs \subseteq Dir
  /\ content \in [Jar -> Hash \cup {Absent}]
  /\ made \subseteq Sandbox
  /\ writes \in 0..MaxWrites
  /\ server \in {"up", "dying", "down"}
  /\ \A n \in Node : Present(n) /\ Parent[n] # NoDir => Parent[n] \in dirs
  /\ dirs \cap Sandbox \subseteq made

\* The walk has yet to come to f, or carries it along.
Covered(r, f) ==
  \/ f \in r.stating
  \/ \E d \in Path[Parent[f]] : \/ d \in r.reading \cup r.stating
                                \/ r.pending[d] > 0 /\ f \in r.results[d]

\* A directory below a root could not be listed: the answer is not NOK, for
\* the undefined entry that stands for it makes the server throw.
Poisoned(r) ==
  \/ Undefined \in r.found
  \/ \E d \in Dir : r.pending[d] > 0 /\ Undefined \in r.results[d]

\* None of `jars` is missed.
Kept(c, r, jars) ==
  /\ r.at = "walk" =>
       \/ Poisoned(r)
       \/ \A f \in jars : \/ f \in r.found \/ Covered(r, f)
                           \/ /\ Within(f, WhitelistDir)
                              /\ WhitelistDir \notin Live(r)
  /\ r.at = "read" => Undefined \in r.found
                        \/ jars \subseteq r.found \cup {r.location}
  /\ r.at = "hash" => \/ r.data \in {Absent, Sha1Of[c]}
                      \/ Undefined \in r.found
                      \/ jars \subseteq r.found
  /\ r.at = "tick" => Undefined \in r.found \/ jars \subseteq r.found
  /\ r.at = "nok" => jars = {}

\* The jars a challenge must not miss when its state is r.
Owed(c, r) == IF r.failed THEN {} ELSE steady[c]
Due(c) == Owed(c, request[c])

\* The sandbox, if it is one, was made.
Known(c) == SandboxOf[c] \in Sandbox => SandboxOf[c] \in made

\* The file that has, or may turn out to have, the hash is one of `seen`.
Attested(c, r, seen) ==
  r.at = "ok" \/ (r.at = "hash" /\ r.data = Sha1Of[c]) => r.location \in seen

\* What is observed of the files agrees with them.
Watched(c) ==
  LET r == request[c] IN
  /\ r.at \notin Answers \cup {"new"} => steady[c] \subseteq Vouching(c)
  /\ r.at = "walk" => Known(c)
  /\ Attested(c, r, ever[c])

ChallengeInv ==
  /\ FilesInv
  /\ request \in [Challenge -> Request]
  /\ steady \in [Challenge -> SUBSET Jar]
  /\ ever \in [Challenge -> SUBSET Jar]
  /\ \A c \in Challenge : RequestInv(c, request[c])
  /\ \A c \in Challenge : Watched(c) /\ Kept(c, request[c], Due(c))

-----------------------------------------------------------------------------
(* Directories.                                                            *)

\* The recursive definition of Path has a solution: the directories that lie
\* in every set which has d and, with a directory, the one above it.
LEMMA PathDefined ==
  Path = [d \in Dir |->
            {d} \cup (IF Parent[d] = NoDir THEN {} ELSE Path[Parent[d]])]
<1> DEFINE Above(S) == \A e \in S : Parent[e] # NoDir => Parent[e] \in S
           G == [d \in Dir |-> {e \in Dir : \A S \in SUBSET Dir :
                                  d \in S /\ Above(S) => e \in S}]
           Step(f) == [d \in Dir |-> {d} \cup (IF Parent[d] = NoDir THEN {}
                                               ELSE f[Parent[d]])]
<1>1. ASSUME NEW d \in Dir PROVE G[d] = Step(G)[d]
  <2>1. CASE Parent[d] = NoDir
    <3>1. {d} \in SUBSET Dir /\ Above({d})
      BY <2>1
    <3> QED BY <3>1, <2>1
  <2>2. CASE Parent[d] # NoDir
    <3> DEFINE p == Parent[d]
    <3>1. p \in Dir
      BY <2>2, ChallengeAssumption
    <3>2. d \in G[d]
      OBVIOUS
    <3>3. ASSUME NEW e \in G[p] PROVE e \in G[d]
      BY <3>1, <2>2
    <3>4. ASSUME NEW e \in G[d], e # d PROVE e \in G[p]
      <4>1. ASSUME NEW S \in SUBSET Dir, p \in S, Above(S) PROVE e \in S
        <5>1. Above(S \cup {d}) /\ S \cup {d} \in SUBSET Dir
          BY <4>1
        <5> QED BY <5>1, <3>4
      <4> QED BY <4>1, <3>1
    <3>5. G[d] = {d} \cup G[p]
      BY <3>2, <3>3, <3>4
    <3> QED BY <3>5, <2>2
  <2> QED BY <2>1, <2>2
<1>2. G = Step(G)
  <2>1. G = [d \in Dir |-> G[d]] /\ Step(G) = [d \in Dir |-> Step(G)[d]]
    OBVIOUS
  <2> HIDE DEF G, Step
  <2> QED BY <1>1, <2>1
<1>3. Path = CHOOSE f : f = Step(f)
  BY DEF Path
<1> HIDE DEF G, Step
<1>4. Path = Step(Path)
  BY <1>2, <1>3
<1> QED BY <1>4 DEF Step

LEMMA PathEquation ==
  \A d \in Dir : /\ Parent[d] = NoDir => Path[d] = {d}
                 /\ Parent[d] # NoDir => /\ Parent[d] \in Dir
                                         /\ Path[d] = {d} \cup Path[Parent[d]]
<1> DEFINE Body(f) == [d \in Dir |->
             {d} \cup (IF Parent[d] = NoDir THEN {} ELSE f[Parent[d]])]
<1>1. Path = Body(Path)
  BY PathDefined
<1>2. ASSUME NEW d \in Dir
      PROVE  Path[d] = {d} \cup (IF Parent[d] = NoDir THEN {}
                                 ELSE Path[Parent[d]])
  <2>1. Body(Path)[d] = {d} \cup (IF Parent[d] = NoDir THEN {}
                                  ELSE Path[Parent[d]])
    OBVIOUS
  <2> HIDE DEF Body
  <2> QED BY <1>1, <2>1
<1> QED BY <1>2, ChallengeAssumption

\* From any set of directories one leads out.
LEMMA LeadsOut ==
  ASSUME NEW S \in SUBSET Dir, S # {}
  PROVE  \E d \in S : Parent[d] \notin S
BY LayoutAssumption

\* Path[d] consists of directories, d among them, and is closed upwards; it is
\* the least such set.
LEMMA PathCloses ==
  \A d \in Dir : /\ Path[d] \subseteq Dir
                 /\ d \in Path[d]
                 /\ \A e \in Path[d] :
                      Parent[e] # NoDir => Parent[e] \in Path[d]
<1> DEFINE Good(d) == /\ Path[d] \subseteq Dir
                      /\ \A e \in Path[d] :
                           Parent[e] # NoDir => Parent[e] \in Path[d]
           T == {d \in Dir : ~Good(d)}
<1>1. \A d \in Dir : d \in Path[d]
  BY PathEquation
<1>2. ASSUME T # {} PROVE FALSE
  <2>1. PICK d \in T : Parent[d] \notin T
    BY <1>2, LeadsOut
  <2>2. CASE Parent[d] = NoDir
    BY <2>1, <2>2, PathEquation
  <2>3. CASE Parent[d] # NoDir
    <3>1. Parent[d] \in Dir /\ Path[d] = {d} \cup Path[Parent[d]]
      BY <2>3, PathEquation
    <3>2. Good(Parent[d])
      BY <2>1, <3>1
    <3> QED BY <2>1, <3>1, <3>2, <1>1
  <2> QED BY <2>2, <2>3
<1> QED BY <1>1, <1>2

LEMMA PathLeast ==
  ASSUME NEW d \in Dir, NEW S, d \in S,
         \A e \in S : e \in Dir /\ Parent[e] # NoDir => Parent[e] \in S
  PROVE  Path[d] \subseteq S
<1> DEFINE T == {e \in Dir : e \in S /\ ~(Path[e] \subseteq S)}
<1>1. ASSUME T # {} PROVE FALSE
  <2>1. PICK e \in T : Parent[e] \notin T
    BY <1>1, LeadsOut
  <2> QED BY <2>1, PathEquation
<1> QED BY <1>1

\* What lies above a directory on the path of another lies on that path.
LEMMA PathTransitive ==
  \A d \in Dir : \A e \in Path[d] : Path[e] \subseteq Path[d]
<1> SUFFICES ASSUME NEW d \in Dir, NEW e \in Path[d]
             PROVE  Path[e] \subseteq Path[d]
  OBVIOUS
<1>1. e \in Dir /\ \A x \in Path[d] : Parent[x] # NoDir => Parent[x] \in Path[d]
  BY PathCloses
<1> QED BY <1>1, PathLeast

\* Every directory of a path but the first is above another one of it.
LEMMA PathSteps ==
  \A d \in Dir : \A e \in Path[d] : e = d \/ \E x \in Path[d] : Parent[x] = e
<1> SUFFICES ASSUME NEW d \in Dir
             PROVE  \A e \in Path[d] :
                      e = d \/ \E x \in Path[d] : Parent[x] = e
  OBVIOUS
<1> DEFINE S == {e \in Path[d] : e = d \/ \E x \in Path[d] : Parent[x] = e}
<1>1. d \in S /\ \A e \in S : Parent[e] # NoDir => Parent[e] \in S
  BY PathCloses
<1>2. Path[d] \subseteq S
  <2> HIDE DEF S
  <2> QED BY <1>1, PathLeast
<1> QED BY <1>2

\* A path does not come back.
LEMMA PathAcyclic ==
  \A d \in Dir : /\ Parent[d] # NoDir => d \notin Path[Parent[d]]
                 /\ \A e \in Path[d] : Parent[e] # d
<1>1. ASSUME NEW d \in Dir, Parent[d] # NoDir, d \in Path[Parent[d]]
      PROVE  FALSE
  <2> DEFINE p == Parent[d]
             T == {e \in Path[p] : d \in Path[e]}
  <2>1. p \in Dir /\ p \in T /\ T \in SUBSET Dir
    BY <1>1, PathEquation, PathCloses
  <2>2. PICK e \in T : Parent[e] \notin T
    BY <2>1, LeadsOut
  <2>3. e \in Dir /\ d \in Path[e]
    BY <2>1, <2>2
  <2>4. CASE e = d
    BY <2>1, <2>2, <2>4
  <2>5. CASE e # d
    <3>1. Parent[e] # NoDir /\ d \in Path[Parent[e]]
      BY <2>3, <2>5, PathEquation
    <3>2. Parent[e] \in Path[p]
      BY <2>1, <2>2, <3>1, PathCloses
    <3> QED BY <2>2, <3>1, <3>2
  <2> QED BY <2>4, <2>5
<1>2. ASSUME NEW d \in Dir, NEW e \in Path[d], Parent[e] = d
      PROVE  FALSE
  <2>1. d # NoDir /\ e \in Dir
    BY ChallengeAssumption, PathCloses
  <2>2. CASE e = d
    BY <1>1, <1>2, <2>1, <2>2, PathCloses
  <2>3. CASE e # d
    <3>1. Parent[d] \in Dir /\ e \in Path[Parent[d]] /\ Parent[d] # NoDir
      BY <2>3, PathEquation
    <3>2. d \in Path[Parent[d]]
      BY <3>1, <1>2, <2>1, PathCloses
    <3> QED BY <1>1, <3>1, <3>2
  <2> QED BY <2>2, <2>3
<1> QED BY <1>1, <1>2

\* A path is a chain: no two of its directories have one parent, and only one
\* has none.
LEMMA PathIsChain ==
  \A d \in Dir : \A x, y \in Path[d] : Parent[x] = Parent[y] => x = y
<1> DEFINE Chain(d) == \A x, y \in Path[d] : Parent[x] = Parent[y] => x = y
           T == {d \in Dir : ~Chain(d)}
<1>1. ASSUME T # {} PROVE FALSE
  <2>1. PICK d \in T : Parent[d] \notin T
    BY <1>1, LeadsOut
  <2>2. CASE Parent[d] = NoDir
    BY <2>1, <2>2, PathEquation
  <2>3. CASE Parent[d] # NoDir
    <3>1. Parent[d] \in Dir /\ Path[d] = {d} \cup Path[Parent[d]]
      BY <2>3, PathEquation
    <3>2. Chain(Parent[d])
      BY <2>1, <3>1
    <3>3. \A x \in Path[Parent[d]] : Parent[x] # Parent[d]
      BY <3>1, PathAcyclic
    <3> QED BY <2>1, <3>1, <3>2, <3>3
  <2> QED BY <2>2, <2>3
<1> QED BY <1>1

-----------------------------------------------------------------------------
(* The walk.                                                               *)

LEMMA NodesCount ==
  ASSUME NEW S \in SUBSET Node
  PROVE  /\ Cardinality(S) \in Nat
         /\ Cardinality(S) = 0 <=> S = {}
         /\ \A n \in S : Cardinality(S \ {n}) = Cardinality(S) - 1
<1>1. IsFiniteSet(S)
  BY LayoutAssumption, FS_Subset DEF Node
<1> QED BY <1>1, FS_CardinalityType, FS_EmptySet, FS_RemoveElement

\* The directories that are done when an entry of d is, those that are told,
\* and the state of the request after that.
Closing(r, d) == {e \in Path[d] : \A x \in Path[d] :
                                    e \in Path[x] => r.pending[x] = 1}

Told(r, d) == {d} \cup ({Parent[e] : e \in Closing(r, d)} \ {NoDir})

Merged(r, d, files) ==
  [e \in Dir |->
     IF e \in Told(r, d)
     THEN r.results[e] \cup files
            \cup UNION {r.results[x] : x \in {x \in Closing(r, d) :
                                                e \in Path[x] /\ x # e}}
     ELSE r.results[e]]

Moved(r, d, files) ==
  [r EXCEPT !.results = Merged(r, d, files),
            !.pending = [e \in Dir |-> IF e \in Told(r, d)
                                       THEN r.pending[e] - 1
                                       ELSE r.pending[e]]]

LEMMA ArriveIs ==
  ASSUME NEW r, NEW d, NEW files, NEW s \in Arrive(r, d, files)
  PROVE  \/ /\ \A e \in Closing(r, d) : Parent[e] # NoDir
            /\ s = Moved(r, d, files)
         \/ \E e \in Closing(r, d) :
              /\ Parent[e] = NoDir
              /\ s \in Walked(Moved(r, d, files), e, Merged(r, d, files)[e])
BY DEF Arrive, Closing, Told, Merged, Moved

\* A directory of the path is done if it waits for one more entry, and that is
\* the one which arrives or a directory that is done.
LEMMA ClosingIs ==
  ASSUME NEW r, NEW d \in Dir
  PROVE  /\ Closing(r, d) \subseteq Path[d]
         /\ Told(r, d) \subseteq Path[d]
         /\ \A e \in Closing(r, d) :
              /\ r.pending[e] = 1
              /\ e = d \/ \E x \in Closing(r, d) : Parent[x] = e
              /\ e \in Told(r, d)
         /\ \A e \in Told(r, d) : r.pending[e] = 1 => e \in Closing(r, d)
<1> DEFINE C == Closing(r, d)
<1>1. C \subseteq Path[d] /\ Path[d] \subseteq Dir /\ NoDir \notin Dir
  BY PathCloses, ChallengeAssumption DEF Closing
<1>2. Told(r, d) \subseteq Path[d]
  BY <1>1, PathCloses DEF Told
<1>3. \A e \in C : r.pending[e] = 1
  BY <1>1, PathCloses DEF Closing
<1>4. ASSUME NEW e \in C, e # d PROVE \E x \in C : Parent[x] = e
  <2>1. PICK x \in Path[d] : Parent[x] = e
    BY <1>1, <1>4, PathSteps
  <2>2. \A y \in Path[d] : x \in Path[y] => e \in Path[y]
    BY <1>1, <2>1, PathCloses
  <2> QED BY <2>1, <2>2 DEF Closing
<1>5. \A e \in C : e \in Told(r, d)
  BY <1>1, <1>4 DEF Told
<1>6. ASSUME NEW e \in Told(r, d), r.pending[e] = 1 PROVE e \in C
  <2>1. ASSUME NEW x \in Path[d], e \in Path[x] PROVE r.pending[x] = 1
    <3>1. CASE x = e
      BY <1>6, <3>1
    <3>2. CASE x # e
      <4>1. PICK y \in Path[x] : Parent[y] = e
        BY <1>1, <2>1, <3>2, PathSteps
      <4>2. y \in Path[d]
        BY <2>1, <4>1, PathTransitive
      <4>3. e # d
        BY <4>1, <4>2, PathAcyclic
      <4>4. PICK z \in C : Parent[z] = e
        BY <4>3 DEF Told
      <4>5. y = z
        BY <1>1, <4>1, <4>2, <4>4, PathIsChain
      <4> QED BY <2>1, <4>1, <4>4, <4>5 DEF Closing
    <3> QED BY <3>1, <3>2
  <2> QED BY <1>2, <2>1 DEF Closing
<1> QED BY <1>1, <1>2, <1>3, <1>4, <1>5, <1>6

\* When an entry arrives, exactly the directories that are done stop being
\* waited for, and the counts agree again.
LEMMA ArriveCounts ==
  ASSUME NEW r \in Request, NEW n \in Node, NEW d \in Dir, NEW files,
         Parent[n] = d, n \notin Live(r), Apart(r), Counted(r, {n})
  PROVE  /\ Live(Moved(r, d, files)) = Live(r) \ Closing(r, d)
         /\ Counted(Moved(r, d, files), {})
         /\ Apart(Moved(r, d, files))
         /\ Moved(r, d, files).pending \in [Dir -> Nat]
         /\ \A e \in Dir \ Closing(r, d) :
              e \in Told(r, d) \/ r.pending[e] > 0 =>
                Moved(r, d, files).pending[e] > 0
<1> DEFINE m == Moved(r, d, files)
           C == Closing(r, d)
           T == Told(r, d)
           before == Live(r) \cup {n}
<1>1. before \in SUBSET Node /\ r.pending \in [Dir -> Nat]
  BY DEF Live, Request, Node
<1>2. /\ m.reading = r.reading /\ m.stating = r.stating
      /\ m.pending = [e \in Dir |-> IF e \in T THEN r.pending[e] - 1
                                    ELSE r.pending[e]]
  BY DEF Moved, Request
<1>3. C \subseteq Path[d] /\ T \subseteq Path[d] /\ Path[d] \subseteq Dir
  BY ClosingIs, PathCloses
<1>4. C \subseteq Live(r) /\ NoDir \notin Dir
  BY <1>3, ClosingIs, ChallengeAssumption DEF Live
<1>5. ASSUME NEW e \in T PROVE \E x \in C \cup {n} : Parent[x] = e
  BY DEF Told
<1>6. ASSUME NEW e \in T PROVE r.pending[e] >= 1
  <2>1. Below(before, e) # {} /\ Below(before, e) \in SUBSET Node
    BY <1>1, <1>4, <1>5 DEF Below
  <2>2. Cardinality(Below(before, e)) \in Nat \ {0}
    BY <2>1, NodesCount
  <2>3. e \in Dir
    BY <1>3
  <2> QED BY <2>2, <2>3 DEF Counted
<1>7. ASSUME NEW e \in Dir
      PROVE  /\ m.pending[e] \in Nat
             /\ m.pending[e] > 0 <=> r.pending[e] > 0 /\ e \notin C
  <2>1. CASE e \in T
    <3>1. /\ m.pending[e] = r.pending[e] - 1 /\ r.pending[e] \in Nat
          /\ r.pending[e] >= 1 /\ (r.pending[e] = 1 <=> e \in C)
      BY <1>1, <1>2, <1>6, <2>1, ClosingIs
    <3> QED BY <3>1
  <2>2. CASE e \notin T
    BY <1>1, <1>2, <2>2, ClosingIs
  <2> QED BY <2>1, <2>2
<1>8. \A e \in C : e \notin r.reading \cup r.stating
  <2>1. \A e \in C : e \in Dir /\ r.pending[e] = 1
    BY <1>3, ClosingIs
  <2> QED BY <2>1 DEF Apart
<1>9. Live(m) = Live(r) \ C
  <2> HIDE DEF m, C, T
  <2> QED BY <1>2, <1>7, <1>8 DEF Live
<1>10. ASSUME NEW e \in Dir
       PROVE  m.pending[e] = Cardinality(Below(Live(m), e))
  <2>1. r.pending[e] = Cardinality(Below(before, e))
    BY DEF Counted
  <2>2. Below(before, e) \in SUBSET Node
    BY <1>1 DEF Below
  <2>3. \A y \in C : Parent[y] # d
    BY <1>3, PathAcyclic
  <2>4. CASE e \in T
    <3>1. PICK x \in C \cup {n} : Parent[x] = e
      BY <1>5, <2>4
    <3>2. \A y \in C : Parent[y] = e => y = x
      BY <1>3, <2>3, <3>1, PathIsChain
    <3>3. Parent[n] = e => n = x
      BY <2>3, <3>1
    <3>4. Below(Live(m), e) = Below(before, e) \ {x} /\ x \in Below(before, e)
      <4> HIDE DEF m, C
      <4> QED BY <1>4, <1>9, <3>1, <3>2, <3>3 DEF Below
    <3>5. Cardinality(Below(Live(m), e)) = Cardinality(Below(before, e)) - 1
      BY <2>2, <3>4, NodesCount
    <3> QED BY <1>2, <2>1, <2>4, <3>5
  <2>5. CASE e \notin T
    <3>1. \A y \in C \cup {n} : Parent[y] # e
      BY <1>4, <2>5 DEF Told
    <3>2. Below(Live(m), e) = Below(before, e)
      <4> HIDE DEF m, C
      <4> QED BY <1>9, <3>1 DEF Below
    <3> QED BY <1>2, <2>1, <2>5, <3>2
  <2> QED BY <2>4, <2>5
<1>11. Counted(m, {})
  <2> HIDE DEF m
  <2> QED BY <1>10 DEF Counted
<1>12. Apart(m)
  <2>1. \A e \in Dir \cap (r.reading \cup r.stating) : m.pending[e] = 0
    <3> SUFFICES ASSUME NEW e \in Dir \cap (r.reading \cup r.stating)
                 PROVE  m.pending[e] = 0
      OBVIOUS
    <3>1. r.pending[e] = 0
      BY DEF Apart
    <3>2. m.pending[e] \in Nat /\ ~(m.pending[e] > 0)
      BY <1>7, <3>1
    <3> HIDE DEF m
    <3> QED BY <3>2
  <2> HIDE DEF m
  <2> QED BY <1>2, <2>1 DEF Apart
<1>13. m.pending \in [Dir -> Nat]
  <2>1. m.pending = [e \in Dir |-> m.pending[e]]
    BY <1>2
  <2> HIDE DEF m
  <2> QED BY <1>7, <2>1
<1>14. \A e \in Dir \ C : e \in T \/ r.pending[e] > 0 => m.pending[e] > 0
  <2>1. \A e \in T : r.pending[e] \in Nat /\ r.pending[e] > 0
    BY <1>1, <1>3, <1>6
  <2> QED BY <1>7, <2>1
<1> QED BY <1>9, <1>11, <1>12, <1>13, <1>14

\* Calls whose counts agree have a tree: without its root there are none.
LEMMA NoRootNoCalls ==
  ASSUME NEW r \in Request, Apart(r), Counted(r, {}),
         Below(Live(r), NoDir) = {}
  PROVE  Live(r) = {}
<1> DEFINE L == Live(r)
<1>1. L \in SUBSET Node
  BY DEF Live, Request, Node
<1>2. ASSUME NEW n \in L PROVE Parent[n] \in L \cap Dir
  <2>1. Parent[n] \in Dir
    BY <1>1, ChallengeAssumption DEF Below, Node
  <2>2. n \in Below(L, Parent[n]) /\ Below(L, Parent[n]) \in SUBSET Node
    BY <1>1 DEF Below
  <2>3. Cardinality(Below(L, Parent[n])) \in Nat \ {0}
    BY <2>2, NodesCount
  <2>4. r.pending[Parent[n]] > 0
    <3>1. L \cup {} = L
      OBVIOUS
    <3> HIDE DEF L
    <3>2. r.pending[Parent[n]] = Cardinality(Below(L, Parent[n]))
      BY <2>1, <3>1 DEF Counted, L
    <3> QED BY <2>3, <3>2
  <2> QED BY <2>1, <2>4 DEF Live
<1>3. L # {} => L \cap Dir # {}
  BY <1>2
<1> HIDE DEF L
<1>4. L \cap Dir = {}
  BY <1>2, LeadsOut
<1> QED BY <1>3, <1>4 DEF L

LEMMA NoCallsCount ==
  ASSUME NEW r \in Request, Live(r) = {}
  PROVE  Apart(r) /\ Counted(r, {}) /\ \A d \in Dir : r.pending[d] = 0
<1>1. r.pending \in [Dir -> Nat]
  BY DEF Request
<1>2. \A d \in Dir : r.pending[d] = 0
  BY <1>1 DEF Live
<1>3. r.reading = {} /\ r.stating = {}
  BY DEF Live
<1>4. Cardinality({}) = 0
  BY FS_EmptySet
<1>5. \A d \in Dir : Below(Live(r) \cup {}, d) = {}
  BY DEF Below
<1> QED BY <1>2, <1>3, <1>4, <1>5 DEF Apart, Counted

-----------------------------------------------------------------------------
(* What the callbacks make of a request.                                   *)

LEMMA SameCalls ==
  ASSUME NEW r, NEW s, s.reading = r.reading, s.stating = r.stating,
         s.pending = r.pending
  PROVE  /\ Live(s) = Live(r)
         /\ Apart(r) => Apart(s)
         /\ Counted(r, {}) => Counted(s, {})
BY DEF Live, Apart, Counted

\* A record that is no result may follow others; one with the result is last.
LEMMA LogAudited ==
  ASSUME NEW r, r.records \in Seq({1, 2, 3}), Audited(r),
         r.at \notin Answers \cup {"new"},
         NEW s, NEW k \in {2, 3}, s.records = Append(r.records, k),
         s.at # "new", s.at \in Answers <=> k = 2
  PROVE  Audited(s) /\ s.records \in Seq({1, 2, 3})
<1> DEFINE old == r.records
           new == s.records
           l == Len(old)
<1>1. /\ l \in Nat /\ Len(new) = l + 1 /\ DOMAIN old = 1..l
      /\ DOMAIN new = 1..(l + 1) /\ new \in Seq({1, 2, 3})
      /\ \A i \in 1..l : new[i] = old[i]
      /\ new[l + 1] = k
  OBVIOUS
<1>2. l > 0 /\ old[1] = 1 /\ \A i \in 1..l : old[i] # 2
  <2>1. old # <<>> /\ old[1] = 1 /\ \A i \in 1..l : old[i] # 2
    BY <1>1 DEF Audited, Answers
  <2> QED BY <2>1
<1>3. new # <<>> /\ new[1] = 1
  BY <1>1, <1>2
<1>4. \A i \in DOMAIN new :
        new[i] = 2 <=> i = Len(new) /\ s.at \in Answers
  BY <1>1, <1>2
<1> QED BY <1>1, <1>3, <1>4 DEF Audited

\* A jar a challenge looks at lies in a directory, and the tree it lies in is
\* on its path.
LEMMA SoughtJars ==
  ASSUME NEW c \in Challenge, NEW f \in Sought(c) \cap Jar
  PROVE  /\ Parent[f] \in Dir
         /\ \A root \in Dir : Within(f, root) => root \in Path[Parent[f]]
         /\ \/ Within(f, SandboxOf[c])
            \/ Within(f, WhitelistDir)
BY ChallengeAssumption DEF Sought, Within, Node

LEMMA RootsSought ==
  \A c \in Challenge : /\ {SandboxOf[c], WhitelistDir} \subseteq Dir
                       /\ {SandboxOf[c], WhitelistDir} \subseteq Sought(c)
                       /\ Parent[SandboxOf[c]] = NoDir
                       /\ Parent[WhitelistDir] = NoDir
                       /\ SandboxOf[c] # WhitelistDir
BY ChallengeAssumption DEF Sought, Within, Node

\* The entries of a directory in the trees lie in the trees.
LEMMA EntriesSought ==
  ASSUME NEW c \in Challenge, NEW d \in Dir \cap Sought(c),
         NEW n \in Node, Parent[n] = d
  PROVE  n \in Sought(c)
<1>1. \A root : Within(d, root) => Within(n, root)
  <2> SUFFICES ASSUME NEW root, Within(d, root) PROVE Within(n, root)
    OBVIOUS
  <2>1. root \in Path[d]
    BY PathEquation DEF Within
  <2> QED BY <2>1, ChallengeAssumption DEF Within
<1> QED BY <1>1 DEF Sought

\* The walk is over: there is a file to hash, or the answer.
LEMMA FilesHandled ==
  ASSUME NEW c \in Challenge, NEW r \in Request, Live(r) = {},
         Audited(r), Inside(c, r), r.at \in {"walk", "tick"},
         NEW files \in SUBSET Results(c), NEW s \in HandleFiles(r, files)
  PROVE  /\ RequestInv(c, s)
         /\ \A jars \in SUBSET Jar :
              Undefined \in files \/ jars \subseteq files => Kept(c, s, jars)
<1>1. Results(c) \subseteq Jar \cup {Undefined} /\ Undefined \notin Jar
  BY ChallengeAssumption DEF Results
<1>2. r.records \in Seq({1, 2, 3}) /\ r.at \notin Answers \cup {"new"}
  BY DEF Request, Answers
<1>3. CASE files = {}
  <2> DEFINE t == Log(r, 3)
  <2>1. s = [Log(t, 2) EXCEPT !.at = "nok"] /\ s = ReplyNok(Log(r, 3), "nok")
    BY <1>3 DEF HandleFiles, ReplyNok
  <2>2. /\ t.at = r.at /\ t.records = Append(r.records, 3)
        /\ s.at = "nok" /\ s.records = Append(t.records, 2)
    BY <2>1 DEF Request, Log
  <2>3. Audited(t) /\ t.records \in Seq({1, 2, 3})
    <3> HIDE DEF t
    <3> QED BY <1>2, <2>2, LogAudited
  <2>4. Audited(s) /\ s.records \in Seq({1, 2, 3})
    <3>1. s.at \in Answers /\ t.at \notin Answers \cup {"new"}
      BY <1>2, <2>2 DEF Answers
    <3> HIDE DEF t
    <3> QED BY <2>2, <2>3, <3>1, LogAudited
  <2>5. s = [r EXCEPT !.at = "nok", !.records = s.records]
    BY <2>1 DEF Log, Request
  <2>6. s \in Request
    BY <2>4, <2>5 DEF Request, Answers
  <2>7. Live(s) = {}
    BY <2>5, SameCalls DEF Request
  <2>8. Inside(c, s) /\ Rooted(c, s)
    BY <2>5, <2>7 DEF Inside, Rooted, Request
  <2>9. \A jars :
          Undefined \in files \/ jars \subseteq files => Kept(c, s, jars)
    BY <1>3, <2>2 DEF Kept
  <2> QED BY <2>4, <2>6, <2>7, <2>8, <2>9, NoCallsCount DEF RequestInv
<1>4. CASE files # {}
  <2>1. PICK f \in files :
          s = [Log(r, 3) EXCEPT !.at = IF f = Undefined THEN "thrown"
                                                        ELSE "read",
                                !.location = f, !.found = files \ {f}]
    BY <1>4 DEF HandleFiles
  <2>2. s = [r EXCEPT !.at = IF f = Undefined THEN "thrown" ELSE "read",
                      !.records = Append(@, 3),
                      !.location = f, !.found = files \ {f}]
    BY <2>1 DEF Log, Request
  <2>3. /\ s.at = IF f = Undefined THEN "thrown" ELSE "read"
        /\ s.records = Append(r.records, 3)
        /\ s.location = f /\ s.found = files \ {f}
        /\ s.results = r.results
        /\ s.reading = r.reading /\ s.stating = r.stating
        /\ s.pending = r.pending
    BY <2>2 DEF Request
  <2>4. Audited(s) /\ s.records \in Seq({1, 2, 3})
    <3>1. s.at \notin Answers /\ s.at # "new"
      BY <2>3 DEF Answers
    <3> QED BY <1>2, <2>3, <3>1, LogAudited
  <2>5. s \in Request
    BY <1>1, <2>2, <2>4 DEF Request, Open
  <2>6. Live(s) = {}
    BY <2>3, SameCalls
  <2>7. Inside(c, s) /\ Rooted(c, s)
    <3>1. r.reading = {} /\ r.stating = {}
      BY DEF Live
    <3>2. s.at \in {"read", "hash"} => f \in Sought(c) \cap Jar
      BY <2>3 DEF Results
    <3> QED BY <2>3, <2>6, <3>1, <3>2 DEF Inside, Rooted
  <2>8. \A jars \in SUBSET Jar :
          Undefined \in files \/ jars \subseteq files => Kept(c, s, jars)
    BY <2>3 DEF Kept
  <2> QED BY <2>4, <2>5, <2>6, <2>7, <2>8, NoCallsCount DEF RequestInv
<1> QED BY <1>3, <1>4

\* A tree has been walked: the whitelist is next, or the files are hashed.
LEMMA TreeWalked ==
  ASSUME NEW c \in Challenge, NEW r \in Request, Live(r) = {},
         Audited(r), Inside(c, r), r.at = "walk",
         NEW root \in {SandboxOf[c], WhitelistDir},
         NEW results \in SUBSET Results(c), NEW s \in Walked(r, root, results)
  PROVE  /\ RequestInv(c, s)
         /\ \A jars \in SUBSET (Sought(c) \cap Jar) :
              \/ Undefined \in r.found \cup results
              \/ \A f \in jars : \/ f \in r.found \cup results
                                 \/ /\ Within(f, WhitelistDir)
                                    /\ root # WhitelistDir
              => Kept(c, s, jars)
<1>1. r.found \subseteq Results(c)
  BY DEF Inside
<1>2. CASE root = WhitelistDir
  <2>1. s \in HandleFiles(r, r.found \cup results)
    BY <1>2 DEF Walked
  <2> QED BY <1>1, <1>2, <2>1, FilesHandled
<1>3. CASE root # WhitelistDir
  <2>1. s = [r EXCEPT !.found = @ \cup results,
                      !.reading = @ \cup {WhitelistDir}]
    BY <1>3 DEF Walked
  <2>2. r.reading = {} /\ r.stating = {} /\ \A d \in Dir : r.pending[d] = 0
    BY NoCallsCount DEF Live
  <2>3. /\ s.at = "walk" /\ s.reading = {WhitelistDir} /\ s.stating = {}
        /\ s.pending = r.pending /\ s.results = r.results
        /\ s.found = r.found \cup results /\ s.records = r.records
    BY <2>1, <2>2 DEF Request
  <2>4. WhitelistDir \in Dir /\ Parent[WhitelistDir] = NoDir
        /\ NoDir \notin Dir /\ WhitelistDir \in Sought(c)
    BY ChallengeAssumption, RootsSought
  <2>5. Results(c) \subseteq Jar \cup {Undefined}
    BY DEF Results
  <2>6. s \in Request
    BY <1>1, <2>1, <2>4, <2>5 DEF Request
  <2>7. Live(s) = {WhitelistDir}
    BY <2>2, <2>3 DEF Live
  <2>8. Apart(s) /\ Counted(s, {}) /\ Rooted(c, s)
    <3>1. \A d \in Dir : Below({WhitelistDir} \cup {}, d) = {}
      BY <2>4 DEF Below
    <3>2. Below({WhitelistDir}, NoDir) = {WhitelistDir}
      BY <2>4 DEF Below
    <3> QED BY <2>2, <2>3, <2>7, <3>1, <3>2, FS_EmptySet
            DEF Apart, Counted, Rooted
  <2>9. Inside(c, s) /\ Audited(s)
    BY <1>1, <2>3, <2>4 DEF Inside, Audited
  <2>10. ASSUME NEW jars \in SUBSET (Sought(c) \cap Jar),
                \/ Undefined \in r.found \cup results
                \/ \A f \in jars : \/ f \in r.found \cup results
                                   \/ Within(f, WhitelistDir)
         PROVE  Kept(c, s, jars)
    <3>1. \A f \in jars : Within(f, WhitelistDir) => Covered(s, f)
      BY <2>3, <2>4, SoughtJars DEF Covered
    <3> QED BY <2>3, <2>10, <3>1 DEF Kept, Poisoned
  <2> QED BY <2>6, <2>8, <2>9, <2>10 DEF RequestInv
<1> QED BY <1>2, <1>3

\* A request that has no calls out may be answered.
LEMMA Answered ==
  ASSUME NEW c \in Challenge, NEW r \in Request, Live(r) = {},
         Inside(c, r), Audited(r), r.at \notin Answers \cup {"new"},
         NEW answer \in Answers
  PROVE  RequestInv(c, ReplyNok(r, answer)) /\ ReplyNok(r, answer).at = answer
<1> DEFINE s == ReplyNok(r, answer)
<1>1. /\ s.at = answer /\ s.records = Append(r.records, 2)
      /\ s = [r EXCEPT !.at = answer, !.records = s.records]
  BY DEF ReplyNok, Log, Request
<1> HIDE DEF s
<1>2. Audited(s) /\ s.records \in Seq({1, 2, 3})
  <2>1. r.records \in Seq({1, 2, 3}) /\ s.at \in Answers /\ s.at # "new"
    BY <1>1 DEF Request, Answers
  <2> QED BY <1>1, <2>1, LogAudited
<1>3. s \in Request
  BY <1>1, <1>2 DEF Request
<1>4. /\ s.reading = r.reading /\ s.stating = r.stating
      /\ s.pending = r.pending /\ s.results = r.results /\ s.found = r.found
  BY <1>1 DEF Request
<1>5. Live(s) = {} /\ s.at \notin {"walk", "read", "hash"}
  BY <1>1, <1>4, SameCalls DEF Answers
<1>6. Inside(c, s) /\ Rooted(c, s)
  BY <1>4, <1>5 DEF Inside, Rooted
<1> QED BY <1>1, <1>2, <1>3, <1>5, <1>6, NoCallsCount DEF RequestInv, s

\* A tree could not be walked: the answer is NOK.
LEMMA TreeFailed ==
  ASSUME NEW c \in Challenge, NEW r \in Request, Live(r) = {},
         Audited(r), Inside(c, r), r.at = "walk",
         NEW root, NEW s \in WalkFailed(r, root)
  PROVE  RequestInv(c, s) /\ Kept(c, s, {}) /\ s.failed /\ s.at = "nok"
<1> DEFINE t == [r EXCEPT !.failed = TRUE]
<1>1. /\ t \in Request /\ t.at = "walk" /\ t.records = r.records
      /\ t.reading = r.reading /\ t.stating = r.stating
      /\ t.pending = r.pending /\ t.results = r.results
      /\ t.found = r.found /\ t.failed = TRUE
  BY DEF Request
<1>2. s = ReplyNok(Log(t, 3), "nok") \/ s = ReplyNok(t, "nok")
  BY DEF WalkFailed
<1> HIDE DEF t
<1>3. Live(t) = {} /\ Audited(t) /\ Inside(c, t)
  BY <1>1, SameCalls DEF Audited, Inside
<1>4. s.failed /\ s.at = "nok"
  BY <1>1, <1>2 DEF ReplyNok, Log, Request
<1>5. CASE s = ReplyNok(Log(t, 3), "nok")
  <2>1. s \in HandleFiles(t, {})
    BY <1>5 DEF HandleFiles
  <2> QED BY <1>1, <1>3, <1>4, <2>1, FilesHandled
<1>6. CASE s = ReplyNok(t, "nok")
  <2>1. t.at \notin Answers \cup {"new"} /\ "nok" \in Answers
    BY <1>1 DEF Answers
  <2>2. RequestInv(c, s)
    BY <1>1, <1>3, <1>6, <2>1, Answered
  <2> QED BY <1>4, <2>2 DEF Kept
<1> QED BY <1>2, <1>5, <1>6

\* The calls that wait at the end of a chain of directories that are done.
LEMMA Climb ==
  ASSUME NEW r, NEW d \in Dir, \A e \in Closing(r, d) : Parent[e] # NoDir,
         NEW x \in Closing(r, d)
  PROVE  \E e \in Told(r, d) \ Closing(r, d) : e \in Path[x]
<1> DEFINE S == Closing(r, d) \cap Path[x]
<1>1. Closing(r, d) \subseteq Path[d] /\ Path[d] \subseteq Dir
  BY ClosingIs, PathCloses
<1>2. S # {} /\ S \in SUBSET Dir
  BY <1>1, PathCloses
<1>3. PICK y \in S : Parent[y] \notin S
  BY <1>2, LeadsOut
<1>4. Parent[y] # NoDir /\ Parent[y] \in Path[x]
  BY <1>1, <1>3, PathCloses
<1>5. Parent[y] \in Told(r, d) /\ Parent[y] \notin Closing(r, d)
  BY <1>3, <1>4 DEF Told
<1> QED BY <1>4, <1>5

\* What a directory has passes to those that are told and lie above it.
LEMMA Carried ==
  ASSUME NEW r, NEW d \in Dir, NEW files, NEW e \in Told(r, d)
  PROVE  /\ files \subseteq Merged(r, d, files)[e]
         /\ \A x \in Closing(r, d) :
              e \in Path[x] => r.results[x] \subseteq Merged(r, d, files)[e]
<1>1. e \in Dir
  BY ClosingIs, PathCloses
<1>2. Merged(r, d, files)[e] =
        r.results[e] \cup files
          \cup UNION {r.results[x] : x \in {x \in Closing(r, d) :
                                              e \in Path[x] /\ x # e}}
  BY <1>1 DEF Merged
<1> QED BY <1>2

LEMMA MergedResults ==
  ASSUME NEW r, NEW d \in Dir, NEW R, NEW files \in SUBSET R,
         \A e \in Dir : r.results[e] \subseteq R
  PROVE  /\ Merged(r, d, files) \in [Dir -> SUBSET R]
         /\ \A e \in Dir : r.results[e] \subseteq Merged(r, d, files)[e]
<1>1. Closing(r, d) \subseteq Dir
  BY ClosingIs, PathCloses
<1> QED BY <1>1 DEF Merged

\* A jar that is not missed is not missed after the arrival of an entry.
LEMMA ArriveCovers ==
  ASSUME NEW c \in Challenge, NEW r \in Request, NEW n \in Node,
         NEW d \in Dir, NEW files, Parent[n] = d, n \notin Live(r),
         Apart(r), Counted(r, {n}),
         \A e \in Closing(r, d) : Parent[e] # NoDir,
         NEW f \in Sought(c) \cap Jar,
         Covered(r, f) \/ (f \in files /\ d \in Path[Parent[f]])
  PROVE  Covered(Moved(r, d, files), f)
<1> DEFINE m == Moved(r, d, files)
<1> SUFFICES Covered(m, f)
  OBVIOUS
<1>1. /\ m.reading = r.reading /\ m.stating = r.stating
      /\ m.results = Merged(r, d, files)
  BY DEF Moved, Request
<1>2. Live(m) = Live(r) \ Closing(r, d) /\ Apart(m)
      /\ m.pending \in [Dir -> Nat]
  BY ArriveCounts
<1>3. Parent[f] \in Dir /\ Path[Parent[f]] \subseteq Dir
  BY SoughtJars, PathCloses
<1>4. \A e \in Dir \ Closing(r, d) :
        e \in Told(r, d) \/ r.pending[e] > 0 => m.pending[e] > 0
  BY ArriveCounts
<1>5. Told(r, d) \subseteq Dir /\ Closing(r, d) \subseteq Dir
  BY ClosingIs, PathCloses
\* It is enough to find f with a directory above it that goes on waiting.
<1>6. ASSUME NEW e \in Told(r, d) \ Closing(r, d),
             e \in Path[Parent[f]], f \in Merged(r, d, files)[e]
      PROVE  Covered(m, f)
  BY <1>1, <1>4, <1>5, <1>6 DEF Covered
<1> HIDE DEF m
<1>7. CASE f \in r.stating
  BY <1>1, <1>7 DEF Covered
<1>8. ASSUME NEW x \in Path[Parent[f]], x \in r.reading \cup r.stating
      PROVE  Covered(m, f)
  BY <1>1, <1>8 DEF Covered
<1>9. ASSUME NEW x \in Path[Parent[f]], r.pending[x] > 0, f \in r.results[x]
      PROVE  Covered(m, f)
  <2>1. x \in Dir
    BY <1>3
  <2>2. CASE x \notin Closing(r, d)
    <3>1. m.pending[x] > 0
      BY <1>4, <1>9, <2>1, <2>2
    <3>2. f \in m.results[x]
      BY <1>1, <1>9, <2>1 DEF Merged
    <3> QED BY <3>1, <3>2 DEF Covered
  <2>3. CASE x \in Closing(r, d)
    <3>1. PICK e \in Told(r, d) \ Closing(r, d) : e \in Path[x]
      BY <2>3, Climb
    <3>2. e \in Path[Parent[f]]
      BY <1>3, <3>1, PathTransitive
    <3>3. f \in Merged(r, d, files)[e]
      BY <1>9, <2>3, <3>1, Carried
    <3> QED BY <1>6, <3>1, <3>2, <3>3
  <2> QED BY <2>2, <2>3
<1>10. CASE f \in files /\ d \in Path[Parent[f]]
  <2>1. PICK e \in Told(r, d) \ Closing(r, d) : e \in Path[d]
    <3>1. d \in Told(r, d) /\ d \in Path[d]
      BY PathCloses DEF Told
    <3> QED BY <3>1, Climb
  <2>2. e \in Path[Parent[f]]
    BY <1>3, <1>10, <2>1, PathTransitive
  <2> QED BY <1>6, <1>10, <2>1, <2>2, Carried
<1> QED BY <1>7, <1>8, <1>9, <1>10 DEF Covered

\* The same where the arrival ends the walk of a tree: nothing else is waited
\* for, and what is not missed is among the results.
LEMMA ArriveEnds ==
  ASSUME NEW c \in Challenge, NEW r \in Request, NEW n \in Node,
         NEW d \in Dir, NEW files, Parent[n] = d, n \notin Live(r),
         Apart(r), Counted(r, {n}), Moved(r, d, files) \in Request,
         NEW root \in Closing(r, d), Parent[root] = NoDir,
         Below(Live(r), NoDir) = {root}
  PROVE  /\ Live(Moved(r, d, files)) = {}
         /\ \A f \in Sought(c) \cap Jar :
              Covered(r, f) \/ (f \in files /\ d \in Path[Parent[f]]) =>
                f \in Merged(r, d, files)[root]
<1> DEFINE m == Moved(r, d, files)
<1>1. Live(m) = Live(r) \ Closing(r, d) /\ Apart(m) /\ Counted(m, {})
  BY ArriveCounts
<1>2. Live(m) = {}
  <2>1. Below(Live(m), NoDir) = {}
    BY <1>1 DEF Below
  <2> HIDE DEF m
  <2> QED BY <1>1, <2>1, NoRootNoCalls DEF m
<1>3. Closing(r, d) \subseteq Path[d] /\ Path[d] \subseteq Dir
      /\ root \in Told(r, d)
  BY ClosingIs, PathCloses
<1>4. ASSUME NEW x \in Closing(r, d) PROVE root \in Path[x]
  <2>1. Path[x] \subseteq Path[d] /\ x \in Path[x]
    BY <1>3, PathTransitive, PathCloses
  <2>2. PICK y \in Path[x] : Parent[y] \notin Path[x]
    BY <1>3, <2>1, LeadsOut
  <2>3. Parent[y] = NoDir
    BY <1>3, <2>2, PathCloses
  <2> QED BY <1>3, <2>1, <2>2, <2>3, PathIsChain
<1>5. ASSUME NEW f \in Sought(c) \cap Jar, Covered(r, f)
      PROVE  f \in Merged(r, d, files)[root]
  <2>1. \A x \in Live(r) : x \in Closing(r, d)
    BY <1>1, <1>2
  <2>2. \A x \in Closing(r, d) : x \notin r.reading \cup r.stating
    <3>1. \A x \in Closing(r, d) : x \in Dir /\ r.pending[x] = 1
      BY <1>3, ClosingIs
    <3> QED BY <3>1 DEF Apart
  <2>3. PICK x \in Path[Parent[f]] : r.pending[x] > 0 /\ f \in r.results[x]
    BY <1>5, <2>1, <2>2 DEF Covered, Live
  <2>4. x \in Dir
    BY SoughtJars, PathCloses
  <2>5. x \in Closing(r, d)
    BY <2>1, <2>3, <2>4 DEF Live
  <2> QED BY <1>3, <1>4, <2>3, <2>5, Carried
<1> QED BY <1>2, <1>3, <1>5, Carried

\* An undefined entry is passed on like a jar.
LEMMA PoisonSpreads ==
  ASSUME NEW r \in Request, NEW n \in Node,
         NEW d \in Dir, NEW files, Parent[n] = d, n \notin Live(r),
         Apart(r), Counted(r, {n}), Poisoned(r) \/ Undefined \in files
  PROVE  /\ (\A e \in Closing(r, d) : Parent[e] # NoDir)
              => Poisoned(Moved(r, d, files))
         /\ \A root \in Closing(r, d) :
              Parent[root] = NoDir /\ Live(Moved(r, d, files)) = {}
                => Undefined \in r.found \cup Merged(r, d, files)[root]
<1> DEFINE m == Moved(r, d, files)
<1>1. m.results = Merged(r, d, files) /\ m.found = r.found
  BY DEF Moved, Request
<1>2. /\ Live(m) = Live(r) \ Closing(r, d)
      /\ \A e \in Dir \ Closing(r, d) :
           e \in Told(r, d) \/ r.pending[e] > 0 => m.pending[e] > 0
  BY ArriveCounts
<1>3. /\ Closing(r, d) \subseteq Path[d] /\ Told(r, d) \subseteq Path[d]
      /\ Path[d] \subseteq Dir /\ d \in Told(r, d) /\ d \in Path[d]
  BY ClosingIs, PathCloses DEF Told
<1> HIDE DEF m
<1>4. ASSUME \A e \in Closing(r, d) : Parent[e] # NoDir PROVE Poisoned(m)
  <2>1. ASSUME NEW e \in Told(r, d) \ Closing(r, d),
               Undefined \in Merged(r, d, files)[e]
        PROVE  Poisoned(m)
    BY <1>1, <1>2, <1>3, <2>1 DEF Poisoned
  <2>2. CASE Undefined \in r.found
    BY <1>1, <2>2 DEF Poisoned
  <2>3. ASSUME NEW x \in Dir, r.pending[x] > 0, Undefined \in r.results[x]
        PROVE  Poisoned(m)
    <3>1. CASE x \notin Closing(r, d)
      <4>1. m.pending[x] > 0
        BY <1>2, <2>3, <3>1
      <4>2. Undefined \in m.results[x]
        BY <1>1, <2>3 DEF Merged
      <4> QED BY <4>1, <4>2 DEF Poisoned
    <3>2. CASE x \in Closing(r, d)
      <4>1. PICK e \in Told(r, d) \ Closing(r, d) : e \in Path[x]
        BY <1>4, <3>2, Climb
      <4>2. Undefined \in Merged(r, d, files)[e]
        BY <2>3, <3>2, <4>1, Carried
      <4> QED BY <2>1, <4>1, <4>2
    <3> QED BY <3>1, <3>2
  <2>4. CASE Undefined \in files
    <3>1. PICK e \in Told(r, d) \ Closing(r, d) : TRUE
      BY <1>3, <1>4, Climb
    <3> QED BY <2>1, <2>4, <3>1, Carried
  <2> QED BY <2>2, <2>3, <2>4 DEF Poisoned
<1>5. ASSUME NEW root \in Closing(r, d), Parent[root] = NoDir, Live(m) = {}
      PROVE  Undefined \in r.found \cup Merged(r, d, files)[root]
  <2>1. root \in Told(r, d)
    BY ClosingIs
  <2>2. ASSUME NEW x \in Dir, r.pending[x] > 0, Undefined \in r.results[x]
        PROVE  Undefined \in Merged(r, d, files)[root]
    <3>1. x \in Closing(r, d)
      BY <1>2, <1>5, <2>2 DEF Live
    <3>2. Path[x] \subseteq Path[d] /\ x \in Path[x]
      BY <1>3, <3>1, PathTransitive, PathCloses
    <3>3. PICK y \in Path[x] : Parent[y] \notin Path[x]
      BY <1>3, <3>1, <3>2, LeadsOut
    <3>4. Parent[y] = NoDir
      BY <1>3, <3>1, <3>3, PathCloses
    <3>5. y = root
      BY <1>3, <1>5, <3>2, <3>3, <3>4, PathIsChain
    <3> QED BY <2>1, <2>2, <3>1, <3>3, <3>5, Carried
  <2>3. Undefined \in files => Undefined \in Merged(r, d, files)[root]
    BY <2>1, Carried
  <2> QED BY <2>2, <2>3 DEF Poisoned
<1> QED BY <1>4, <1>5 DEF m

\* What the walk leads to: the files are hashed, or there are none.
Walk == {"read", "thrown", "nok"}

LEMMA WalkLeadsTo ==
  ASSUME NEW r \in Request
  PROVE  /\ \A files : \A s \in HandleFiles(r, files) :
              s.at \in Walk /\ s.failed = r.failed
         /\ \A root, results : \A s \in Walked(r, root, results) :
              s.at \in Walk \cup {r.at} /\ s.failed = r.failed
<1>1. /\ ReplyNok(Log(r, 3), "nok").at = "nok"
      /\ ReplyNok(Log(r, 3), "nok").failed = r.failed
  BY DEF ReplyNok, Log, Request
<1>2. ASSUME NEW files, NEW s \in HandleFiles(r, files)
      PROVE  s.at \in Walk /\ s.failed = r.failed
  <2>1. CASE files = {}
    BY <1>1, <1>2, <2>1 DEF HandleFiles, Walk
  <2>2. CASE files # {}
    <3>1. PICK f \in files :
            s = [Log(r, 3) EXCEPT !.at = IF f = Undefined THEN "thrown"
                                                          ELSE "read",
                                  !.location = f, !.found = files \ {f}]
      BY <1>2, <2>2 DEF HandleFiles
    <3> QED BY <3>1 DEF Log, Walk, Request
  <2> QED BY <2>1, <2>2
<1>3. ASSUME NEW root, NEW results, NEW s \in Walked(r, root, results)
      PROVE  s.at \in Walk \cup {r.at} /\ s.failed = r.failed
  <2>1. CASE root = WhitelistDir
    BY <1>2, <1>3, <2>1 DEF Walked
  <2>2. CASE root # WhitelistDir
    <3>1. s = [r EXCEPT !.found = @ \cup results,
                        !.reading = @ \cup {WhitelistDir}]
      BY <1>3, <2>2 DEF Walked
    <3> QED BY <3>1 DEF Request
  <2> QED BY <2>1, <2>2
<1> QED BY <1>2, <1>3

\* None of `jars` gets lost when an entry of d is done that adds `files`, or
\* else an undefined entry gets in.
NoneLost(r, d, files, jars) ==
  \/ Poisoned(r) \/ Undefined \in files
  \/ \A f \in jars : \/ f \in r.found
                     \/ Covered(r, f)
                     \/ (f \in files /\ d \in Path[Parent[f]])
                     \/ /\ Within(f, WhitelistDir)
                        /\ WhitelistDir \notin Live(r)

\* An entry of d is done and adds `files`.
LEMMA Arrived ==
  ASSUME NEW c \in Challenge, NEW r \in Request, r.at = "walk",
         NEW n \in Node, NEW d \in Dir, NEW files \in SUBSET Results(c),
         Parent[n] = d, n \notin Live(r), Apart(r), Counted(r, {n}),
         Rooted(c, r), Inside(c, r), Audited(r),
         NEW s \in Arrive(r, d, files)
  PROVE  /\ RequestInv(c, s)
         /\ s.at \in Walk \cup {"walk"} /\ s.failed = r.failed
         /\ \A jars \in SUBSET (Sought(c) \cap Jar) :
              NoneLost(r, d, files, jars) => Kept(c, s, jars)
<1> DEFINE m == Moved(r, d, files)
           roots == {SandboxOf[c], WhitelistDir}
<1>1. PICK root \in roots : Below(Live(r), NoDir) = {root}
  BY DEF Rooted
<1>2. /\ Live(m) = Live(r) \ Closing(r, d) /\ Apart(m) /\ Counted(m, {})
      /\ m.pending \in [Dir -> Nat]
  BY ArriveCounts
<1>3. /\ m.at = "walk" /\ m.reading = r.reading /\ m.stating = r.stating
      /\ m.found = r.found /\ m.records = r.records /\ m.failed = r.failed
      /\ m.results = Merged(r, d, files)
      /\ m = [r EXCEPT !.results = m.results, !.pending = m.pending]
  BY DEF Moved, Request
<1>4. m.results \in [Dir -> SUBSET Results(c)]
  <2>1. \A e \in Dir : r.results[e] \subseteq Results(c)
    BY DEF Inside
  <2>2. Merged(r, d, files) \in [Dir -> SUBSET Results(c)]
    BY <2>1, MergedResults
  <2>3. m.results = Merged(r, d, files)
    BY <1>3
  <2> QED BY <2>2, <2>3
<1> HIDE DEF m
<1>5. m \in Request
  <2>1. Results(c) \subseteq Jar \cup {Undefined}
    BY DEF Results
  <2> QED BY <1>2, <1>3, <1>4, <2>1 DEF Request
<1>6. Inside(c, m) /\ Audited(m)
  BY <1>3, <1>4 DEF Inside, Audited
<1>7. CASE \A e \in Closing(r, d) : Parent[e] # NoDir
  <2>1. s = m
    BY <1>7, ArriveIs DEF m
  <2>2. Rooted(c, m)
    <3>1. Below(Live(m), NoDir) = {root}
      BY <1>1, <1>2, <1>7 DEF Below
    <3> QED BY <1>3, <3>1 DEF Rooted
  <2>3. \A f \in Sought(c) \cap Jar :
          Covered(r, f) \/ (f \in files /\ d \in Path[Parent[f]]) =>
            Covered(m, f)
    BY <1>7, ArriveCovers DEF m
  <2>4. ASSUME NEW jars \in SUBSET (Sought(c) \cap Jar),
               \A f \in jars : \/ f \in r.found
                               \/ Covered(r, f)
                               \/ (f \in files /\ d \in Path[Parent[f]])
                               \/ /\ Within(f, WhitelistDir)
                                  /\ WhitelistDir \notin Live(r)
        PROVE  Kept(c, m, jars)
    BY <1>2, <1>3, <2>3, <2>4 DEF Kept
  <2>5. ASSUME Poisoned(r) \/ Undefined \in files, NEW jars
        PROVE  Kept(c, m, jars)
    <3>1. Poisoned(m)
      BY <1>7, <2>5, PoisonSpreads DEF m
    <3> QED BY <1>3, <3>1 DEF Kept
  <2>6. RequestInv(c, s) /\ s.at = "walk" /\ s.failed = r.failed
    BY <1>2, <1>3, <1>5, <1>6, <2>1, <2>2 DEF RequestInv
  <2> QED BY <2>1, <2>4, <2>5, <2>6 DEF NoneLost
<1>8. CASE \E e \in Closing(r, d) : Parent[e] = NoDir
  <2>1. PICK e \in Closing(r, d) :
          Parent[e] = NoDir /\ s \in Walked(m, e, Merged(r, d, files)[e])
    BY <1>8, ArriveIs DEF m
  <2>2. e = root /\ root \in Dir /\ root \in Live(r)
    <3>1. e \in Dir /\ r.pending[e] = 1
      BY ClosingIs, PathCloses
    <3>2. e \in Below(Live(r), NoDir)
      BY <2>1, <3>1 DEF Below, Live
    <3> QED BY <1>1, <3>1, <3>2 DEF Below
  <2>3. /\ Live(m) = {}
        /\ \A f \in Sought(c) \cap Jar :
             Covered(r, f) \/ (f \in files /\ d \in Path[Parent[f]]) =>
               f \in Merged(r, d, files)[root]
    BY <1>1, <1>5, <2>1, <2>2, ArriveEnds DEF m
  <2>4. Merged(r, d, files)[root] \in SUBSET Results(c)
    BY <1>3, <1>4, <2>2
  <2>5. /\ RequestInv(c, s)
        /\ \A jars \in SUBSET (Sought(c) \cap Jar) :
             \/ Undefined \in m.found \cup Merged(r, d, files)[root]
             \/ \A f \in jars : \/ f \in m.found \cup Merged(r, d, files)[root]
                                \/ /\ Within(f, WhitelistDir)
                                   /\ root # WhitelistDir
             => Kept(c, s, jars)
    <3> DEFINE results == Merged(r, d, files)[root]
    <3>1. s \in Walked(m, root, results) /\ results \in SUBSET Results(c)
      BY <2>1, <2>2, <2>4
    <3> HIDE DEF results
    <3>2. Live(m) = {} /\ m.at = "walk"
      BY <1>3, <2>3
    <3>3. /\ RequestInv(c, s)
          /\ \A jars \in SUBSET (Sought(c) \cap Jar) :
               \/ Undefined \in m.found \cup results
               \/ \A f \in jars : \/ f \in m.found \cup results
                                  \/ /\ Within(f, WhitelistDir)
                                     /\ root # WhitelistDir
               => Kept(c, s, jars)
      BY <1>5, <1>6, <3>1, <3>2, TreeWalked
    <3> QED BY <3>3 DEF results
  <2>6. WhitelistDir \notin Live(r) => root # WhitelistDir
    BY <2>2
  <2>7. s.at \in Walk \cup {"walk"} /\ s.failed = r.failed
    BY <1>3, <1>5, <2>1, WalkLeadsTo
  <2>8. Poisoned(r) \/ Undefined \in files =>
          Undefined \in m.found \cup Merged(r, d, files)[root]
    BY <1>3, <2>1, <2>2, <2>3, PoisonSpreads DEF m
  <2> QED BY <1>3, <2>3, <2>5, <2>6, <2>7, <2>8 DEF NoneLost
<1> QED BY <1>7, <1>8

\* It may go on waiting.
LEMMA Waits ==
  ASSUME NEW c \in Challenge, NEW r \in Request, Live(r) = {},
         Inside(c, r), Audited(r), r.at \notin Answers \cup {"new"},
         NEW at \in {"thrown", "tick"}
  PROVE  RequestInv(c, [r EXCEPT !.at = at])
<1> DEFINE s == [r EXCEPT !.at = at]
<1>1. s \in Request
  BY DEF Request, Open
<1>2. /\ s.reading = r.reading /\ s.stating = r.stating
      /\ s.pending = r.pending /\ s.results = r.results /\ s.found = r.found
      /\ s.at = at /\ s.records = r.records
  BY DEF Request
<1> HIDE DEF s
<1>3. Live(s) = {} /\ s.at \notin {"walk", "read", "hash", "new"} \cup Answers
  BY <1>2, SameCalls DEF Answers
<1>4. Inside(c, s) /\ Rooted(c, s)
  BY <1>2, <1>3 DEF Inside, Rooted
<1>5. Audited(s)
  BY <1>2, <1>3 DEF Audited
<1> QED BY <1>1, <1>3, <1>4, <1>5, NoCallsCount DEF RequestInv, s

-----------------------------------------------------------------------------
(* Steps and the files.                                                    *)

LEMMA KeptFewer ==
  ASSUME NEW c, NEW r, NEW jars, NEW fewer \in SUBSET jars, Kept(c, r, jars)
  PROVE  Kept(c, r, fewer)
BY DEF Kept

\* What is observed stays true when a request is in state s after the step;
\* nothing is owed to it that was not before, and nothing seen is forgotten.
LEMMA Observed ==
  ASSUME ChallengeInv, Observe, NEW c \in Challenge, made \subseteq made',
         request[c].at \in Answers => request'[c] = request[c],
         Arrives(c) => request'[c].at = "stat",
         request'[c].at = "walk" => Known(c),
         request'[c].at # "new" /\ request[c].at \notin Answers =>
           Attested(c, request'[c], ever[c] \cup Vouching(c)')
  PROVE  /\ Watched(c)'
         /\ request[c].at # "new" => Due(c)' \subseteq Owed(c, request'[c])
<1>1. /\ Vouching(c)' \subseteq Jar
      /\ Watched(c) /\ request[c] \in Request
      /\ Known(c) => Known(c)'
  BY DEF Vouching, ChallengeInv, Known
<1> USE DEF Due, Owed
<1>2. CASE request[c].at = "new" /\ request'[c].at = "new"
  BY <1>2 DEF Watched, Attested
<1>3. CASE Arrives(c)
  <2>1. request[c].at \notin Open \cup {"reset"}
    BY <1>3 DEF Arrives, Open
  <2>2. steady'[c] = Vouching(c)'
    BY <1>3, <2>1 DEF Observe
  <2>3. request[c].at = "new" /\ request'[c].at = "stat"
    BY <1>3 DEF Arrives
  <2> QED BY <2>2, <2>3 DEF Watched, Attested
<1>4. CASE request[c].at \in Answers
  <2>1. request[c].at # "new" /\ request[c].at \notin Open \cup {"reset"}
    BY <1>4 DEF Answers, Open
  <2>2. steady'[c] = steady[c] /\ ever'[c] = ever[c]
    BY <2>1 DEF Observe, Arrives
  <2>3. request'[c].at # "walk" /\ request'[c].at \in Answers
        /\ request'[c] = request[c]
    BY <1>4 DEF Answers
  <2> QED BY <1>1, <2>2, <2>3 DEF Watched
<1>5. CASE request[c].at \notin Answers \cup {"new"}
  <2>1. request[c].at \in Open \cup {"reset"} /\ ~Arrives(c)
    BY <1>1, <1>5 DEF Request, Arrives
  <2>2. /\ steady'[c] = steady[c] \cap Vouching(c)'
        /\ ever'[c] = ever[c] \cup Vouching(c)'
    BY <2>1 DEF Observe
  <2>3. Attested(c, request[c], ever[c])'
    BY <1>5, <2>2 DEF Attested
  <2> QED BY <1>1, <1>5, <2>2, <2>3 DEF Watched
<1> QED BY <1>2, <1>3, <1>4, <1>5 DEF Arrives

LEMMA ObservedTypes ==
  ASSUME Observe, steady \in [Challenge -> SUBSET Jar],
         ever \in [Challenge -> SUBSET Jar]
  PROVE  /\ steady' \in [Challenge -> SUBSET Jar]
         /\ ever' \in [Challenge -> SUBSET Jar]
<1>1. \A c \in Challenge : Vouching(c)' \subseteq Jar
  BY DEF Vouching
<1>2. \A c \in Challenge : steady[c] \subseteq Jar /\ ever[c] \subseteq Jar
  OBVIOUS
<1>3. steady' \in [Challenge -> SUBSET Jar]
  BY <1>1, <1>2 DEF Observe
<1>4. ever' \in [Challenge -> SUBSET Jar]
  BY <1>1, <1>2 DEF Observe
<1> QED BY <1>3, <1>4

\* One request moves on, the files stay.
LEMMA BecomesInv ==
  ASSUME ChallengeInv, Observe, NEW c \in Challenge, NEW next,
         Becomes(c, next), request[c].at \notin Answers,
         request[c].at # "new" \/ (\A s \in next : s.at = "stat"),
         \A s \in next : /\ RequestInv(c, s) /\ Kept(c, s, Owed(c, s))
                         /\ s.at = "walk" => Known(c)
                         /\ Attested(c, s, ever[c] \cup Vouching(c))
  PROVE  ChallengeInv'
<1>1. PICK s \in next : /\ request' = [request EXCEPT ![c] = s]
                        /\ server' = IF s.at = "thrown" THEN "dying"
                                                        ELSE server
                        /\ UNCHANGED fileVars
  BY DEF Becomes
<1>2. /\ request \in [Challenge -> Request] /\ s \in Request
      /\ \A e \in Challenge :
           /\ RequestInv(e, request[e]) /\ Watched(e)
           /\ Kept(e, request[e], Owed(e, request[e]))
      /\ RequestInv(c, s) /\ Kept(c, s, Owed(c, s))
      /\ Attested(c, s, ever[c] \cup Vouching(c))
      /\ request[c].at = "new" => s.at = "stat"
  BY DEF ChallengeInv, RequestInv, Due
<1>3. /\ request' \in [Challenge -> Request]
      /\ request'[c] = s
      /\ \A e \in Challenge : e # c => request'[e] = request[e]
  BY <1>1, <1>2
<1>4. FilesInv'
  <2>1. FilesInv /\ server' \in {"up", "dying", "down"}
    BY <1>1 DEF ChallengeInv, FilesInv
  <2> QED BY <1>1, <2>1 DEF FilesInv, fileVars, Present
<1>5. ASSUME NEW e \in Challenge
      PROVE  /\ Watched(e)'
             /\ request[e].at # "new" => Due(e)' \subseteq Owed(e, request'[e])
  <2>1. request[e].at \in Answers => request'[e] = request[e]
    BY <1>3
  <2>2. request'[e].at = "walk" => Known(e)
    BY <1>1, <1>2, <1>3 DEF Watched
  <2>3. Vouching(e)' = Vouching(e)
    BY <1>1 DEF Vouching, fileVars
  <2>4. request'[e].at # "new" /\ request[e].at \notin Answers =>
          Attested(e, request'[e], ever[e] \cup Vouching(e)')
    <3>1. CASE e = c
      BY <1>2, <1>3, <2>3, <3>1
    <3>2. CASE e # c
      BY <1>2, <1>3, <3>2 DEF Watched, Attested
    <3> QED BY <3>1, <3>2
  <2>5. made \subseteq made'
    BY <1>1 DEF fileVars
  <2>6. Arrives(e) => request'[e].at = "stat"
    BY <1>2, <1>3 DEF Arrives
  <2> QED BY <2>1, <2>2, <2>4, <2>5, <2>6, Observed
<1>6. ASSUME NEW e \in Challenge
      PROVE  /\ RequestInv(e, request'[e])
             /\ Kept(e, request'[e], Due(e)')
  <2>1. RequestInv(e, request'[e]) /\ Kept(e, request'[e], Owed(e, request'[e]))
    BY <1>2, <1>3
  <2>2. CASE request'[e].at \in {"new", "stat"}
    BY <2>1, <2>2 DEF Kept
  <2>3. CASE request[e].at # "new"
    BY <1>5, <2>1, <2>3, KeptFewer
  <2>4. request[e].at = "new" => request'[e].at \in {"new", "stat"}
    BY <1>2, <1>3
  <2> QED BY <2>1, <2>2, <2>3, <2>4
<1>7. (\A e \in Challenge : RequestInv(e, request[e]))'
  BY <1>6
<1>8. (\A e \in Challenge : Watched(e) /\ Kept(e, request[e], Due(e)))'
  BY <1>5, <1>6 DEF Due
<1> QED BY <1>3, <1>4, <1>7, <1>8, ObservedTypes DEF ChallengeInv

\* The same for an action that leaves no choice.
LEMMA BecomesOne ==
  ASSUME ChallengeInv, Observe, NEW c \in Challenge, NEW s,
         Becomes(c, {s}), request[c].at \notin Answers,
         request[c].at # "new" \/ s.at = "stat",
         RequestInv(c, s), Kept(c, s, Owed(c, s)),
         s.at = "walk" => Known(c),
         Attested(c, s, ever[c] \cup Vouching(c))
  PROVE  ChallengeInv'
<1> DEFINE next == {s}
<1>1. ASSUME NEW x \in next
      PROVE  /\ RequestInv(c, x) /\ Kept(c, x, Owed(c, x))
             /\ Attested(c, x, ever[c] \cup Vouching(c))
  OBVIOUS
<1>2. ASSUME NEW x \in next
      PROVE  x.at = "walk" => Known(c)
  OBVIOUS
<1>3. /\ Becomes(c, next)
      /\ request[c].at # "new" \/ (\A x \in next : x.at = "stat")
  OBVIOUS
<1> HIDE DEF next
<1> QED BY <1>1, <1>2, <1>3, BecomesInv

\* A jar that is due is there, with all the directories above it.
LEMMA DueIsThere ==
  ASSUME ChallengeInv, NEW c \in Challenge,
         request[c].at \notin Answers \cup {"new"}, NEW f \in Due(c)
  PROVE  /\ f \in Sought(c) \cap Jar /\ content[f] = Sha1Of[c]
         /\ Path[Parent[f]] \subseteq dirs
         /\ \A d \in Path[Parent[f]] :
              \E n \in Entries(d) : n = f \/ n \in Path[Parent[f]]
<1>1. f \in Vouching(c) /\ FilesInv
  BY DEF ChallengeInv, Watched, Due, Owed
<1>2. f \in Sought(c) \cap Jar /\ content[f] = Sha1Of[c] /\ f \in Node
  BY <1>1 DEF Vouching, Sought, Node
<1>3. /\ Present(f) /\ Parent[f] \in Dir /\ NoDir \notin Dir /\ f \notin Dir
      /\ content[f] # Absent
  BY <1>2, SoughtJars, ChallengeAssumption DEF Present
<1>4. Parent[f] \in dirs
  BY <1>1, <1>2, <1>3 DEF FilesInv
<1>5. \A d \in dirs : d \in Dir /\ Parent[d] # NoDir => Parent[d] \in dirs
  BY <1>1 DEF FilesInv, Present, Node
<1>6. Path[Parent[f]] \subseteq dirs
  BY <1>3, <1>4, <1>5, PathLeast
<1>7. ASSUME NEW d \in Path[Parent[f]]
      PROVE  \E n \in Entries(d) : n = f \/ n \in Path[Parent[f]]
  <2>1. CASE d = Parent[f]
    BY <1>2, <1>3, <2>1 DEF Entries, Present
  <2>2. CASE d # Parent[f]
    <3>1. PICK n \in Path[Parent[f]] : Parent[n] = d
      BY <1>3, <2>2, PathSteps
    <3>2. n \in dirs /\ n \in Dir /\ n \notin Jar /\ n \in Node
      BY <1>3, <1>6, <3>1, PathCloses, ChallengeAssumption DEF Node
    <3> QED BY <3>1, <3>2 DEF Entries
  <2> QED BY <2>1, <2>2
<1> QED BY <1>1, <1>2, <1>6, <1>7

-----------------------------------------------------------------------------
(* The actions, one by one.                                                *)

LEMMA RequestsHave ==
  ASSUME ChallengeInv, NEW c \in Challenge
  PROVE  /\ request[c] \in Request /\ RequestInv(c, request[c])
         /\ Watched(c) /\ Kept(c, request[c], Due(c))
         /\ FilesInv
BY DEF ChallengeInv, RequestInv

LEMMA AskInv ==
  ASSUME ChallengeInv, Observe, NEW c \in Challenge, Ask(c)
  PROVE  ChallengeInv'
<1> DEFINE r == request[c]
           s == [Log(r, 1) EXCEPT !.at = "stat"]
<1>1. r.at = "new" /\ Becomes(c, {s})
  BY DEF Ask
<1>2. r \in Request /\ RequestInv(c, r)
  BY RequestsHave
<1>3. r.records = <<>> /\ Live(r) = {}
  BY <1>1, <1>2 DEF RequestInv, Audited, Rooted
<1>4. /\ s.at = "stat" /\ s.records = <<1>>
      /\ s.reading = r.reading /\ s.stating = r.stating
      /\ s.pending = r.pending /\ s.results = r.results /\ s.found = r.found
      /\ s = [r EXCEPT !.at = "stat", !.records = <<1>>]
  <2>1. Append(r.records, 1) = <<1>>
    BY <1>3
  <2>2. Log(r, 1) = [r EXCEPT !.records = <<1>>]
    BY <2>1 DEF Log
  <2> QED BY <1>2, <2>2 DEF Request
<1> HIDE DEF s
<1>5. s \in Request
  <2>1. <<1>> \in Seq({1, 2, 3})
    OBVIOUS
  <2> QED BY <1>2, <1>4, <2>1 DEF Request, Open
<1>6. Live(s) = {} /\ Inside(c, s) /\ Rooted(c, s)
  <2>1. Live(s) = {}
    BY <1>3, <1>4, SameCalls
  <2> QED BY <1>2, <1>4, <2>1 DEF RequestInv, Inside, Rooted
<1>7. Audited(s)
  BY <1>4 DEF Audited, Answers
<1>8. RequestInv(c, s) /\ Kept(c, s, Owed(c, s))
  BY <1>4, <1>5, <1>6, <1>7, NoCallsCount DEF RequestInv, Kept
<1>9. request[c].at \notin Answers /\ s.at = "stat"
      /\ Attested(c, s, ever[c] \cup Vouching(c))
  BY <1>1, <1>4 DEF Answers, Attested
<1> HIDE DEF r
<1> QED BY <1>1, <1>8, <1>9, BecomesOne

LEMMA SandboxStatInv ==
  ASSUME ChallengeInv, Observe, NEW c \in Challenge, SandboxStat(c)
  PROVE  ChallengeInv'
<1> DEFINE r == request[c]
           sandbox == SandboxOf[c]
           s == [r EXCEPT !.at = "walk", !.reading = {sandbox}]
<1>1. /\ r.at = "stat"
      /\ \/ Becomes(c, {ReplyNok(r, "unknown")})
         \/ sandbox \in dirs /\ Becomes(c, {s})
  BY DEF SandboxStat, Searched
<1>2. /\ r \in Request /\ RequestInv(c, r) /\ FilesInv
      /\ r.at \notin Answers \cup {"new"}
  BY <1>1, RequestsHave DEF Answers
<1>3. Live(r) = {} /\ Inside(c, r) /\ Audited(r)
  BY <1>1, <1>2 DEF RequestInv, Rooted
<1>4. CASE Becomes(c, {ReplyNok(r, "unknown")})
  <2> DEFINE t == ReplyNok(r, "unknown")
  <2>1. RequestInv(c, t) /\ t.at = "unknown"
    BY <1>2, <1>3, Answered DEF Answers
  <2> HIDE DEF t
  <2>2. Kept(c, t, Owed(c, t)) /\ Attested(c, t, ever[c] \cup Vouching(c))
    BY <2>1 DEF Kept, Attested
  <2>3. Becomes(c, {t})
    BY <1>4 DEF t
  <2>4. request[c].at \notin Answers \cup {"new"} /\ t.at # "walk"
    BY <1>2, <2>1
  <2> HIDE DEF r
  <2> QED BY <2>1, <2>2, <2>3, <2>4, BecomesOne
<1>5. CASE sandbox \in dirs /\ Becomes(c, {s})
  <2>1. /\ sandbox \in Dir \cap Sought(c) /\ Parent[sandbox] = NoDir
        /\ sandbox # WhitelistDir /\ NoDir \notin Dir
        /\ Known(c)
    BY <1>2, <1>5, RootsSought, ChallengeAssumption DEF FilesInv, Known
  <2>2. r.reading = {} /\ r.stating = {} /\ \A d \in Dir : r.pending[d] = 0
    BY <1>2, <1>3, NoCallsCount DEF Live
  <2>3. /\ s.at = "walk" /\ s.reading = {sandbox} /\ s.stating = {}
        /\ s.pending = r.pending /\ s.results = r.results
        /\ s.found = r.found /\ s.records = r.records
        /\ s.failed = r.failed
    BY <1>2, <2>2 DEF Request
  <2>4. s \in Request
    BY <1>2, <2>1 DEF Request, Open
  <2>12. Becomes(c, {s})
    BY <1>5
  <2> HIDE DEF s
  <2>5. Live(s) = {sandbox}
    BY <2>2, <2>3 DEF Live
  <2>6. Apart(s) /\ Counted(s, {}) /\ Rooted(c, s)
    <3>1. \A d \in Dir : Below({sandbox} \cup {}, d) = {}
      BY <2>1 DEF Below
    <3>2. Below({sandbox}, NoDir) = {sandbox}
      BY <2>1 DEF Below
    <3> QED BY <2>1, <2>2, <2>3, <2>5, <3>1, <3>2, FS_EmptySet
            DEF Apart, Counted, Rooted
  <2>7. Inside(c, s) /\ Audited(s)
    BY <1>1, <1>3, <2>1, <2>3 DEF Inside, Audited, Answers
  <2>8. Kept(c, s, Owed(c, s))
    <3>1. ASSUME NEW f \in Due(c)
          PROVE  Covered(s, f) \/ Within(f, WhitelistDir)
      <4>1. f \in Sought(c) \cap Jar
        BY <1>2, DueIsThere
      <4>2. Within(f, sandbox) => sandbox \in Path[Parent[f]]
        BY <2>1, <4>1, SoughtJars
      <4> QED BY <2>3, <4>1, <4>2, SoughtJars DEF Covered
    <3>2. WhitelistDir \notin Live(s)
      BY <2>1, <2>5
    <3>3. Owed(c, s) = Due(c)
      BY <2>3 DEF Owed, Due
    <3> QED BY <2>3, <3>1, <3>2, <3>3 DEF Kept
  <2>9. RequestInv(c, s) /\ Attested(c, s, ever[c] \cup Vouching(c))
    BY <2>3, <2>4, <2>6, <2>7 DEF RequestInv, Attested
  <2>10. request[c].at \notin Answers \cup {"new"}
    BY <1>2
  <2> HIDE DEF r
  <2> QED BY <2>1, <2>8, <2>9, <2>10, <2>12, BecomesOne
<1> QED BY <1>1, <1>4, <1>5

\* The request when a call of readdir or stat for n has returned.
Returned(q, n) == [q EXCEPT !.reading = @ \ {n}, !.stating = @ \ {n}]

\* What is known of it then.
LEMMA ReturnedState ==
  ASSUME ChallengeInv, NEW c \in Challenge,
         NEW n \in request[c].reading \cup request[c].stating
  PROVE  LET q == request[c]
             r == Returned(q, n)
         IN /\ q.at = "walk" /\ Known(c) /\ n \in Node /\ n \in Sought(c)
            /\ r \in Request
            /\ r.reading = q.reading \ {n} /\ r.stating = q.stating \ {n}
            /\ r.pending = q.pending /\ r.results = q.results
            /\ r.found = q.found /\ r.at = q.at /\ r.records = q.records
            /\ r.location = q.location /\ r.failed = q.failed
<1> DEFINE q == request[c]
           r == Returned(q, n)
<1>1. q \in Request /\ RequestInv(c, q) /\ Watched(c)
  BY RequestsHave
<1>2. Rooted(c, q) /\ Inside(c, q)
  BY <1>1 DEF RequestInv
<1>3. q.at = "walk" /\ n \in Live(q)
  BY <1>2 DEF Rooted, Live
<1>4. Known(c)
  BY <1>1, <1>3 DEF Watched
<1>5. n \in Node /\ n \in Sought(c)
  BY <1>1, <1>2 DEF Request, Node, Inside
<1>6. /\ r.reading = q.reading \ {n} /\ r.stating = q.stating \ {n}
      /\ r.pending = q.pending /\ r.results = q.results
      /\ r.found = q.found /\ r.at = q.at /\ r.records = q.records
      /\ r.location = q.location /\ r.failed = q.failed
  BY <1>1 DEF Request, Returned
<1>7. r \in Request
  BY <1>1 DEF Request, Returned
<1> QED BY <1>3, <1>4, <1>5, <1>6, <1>7

\* The other calls when the one for n has returned, in the state r after q.
OthersOpen(c, n, q, r) ==
  /\ r \in Request /\ r.at = "walk" /\ r.found = q.found
  /\ r.failed = q.failed /\ (Poisoned(q) => Poisoned(r))
  /\ Live(q) = Live(r) \cup {n} /\ n \notin Live(r)
  /\ Apart(r) /\ Counted(r, {n}) /\ Inside(c, r) /\ Audited(r)
  /\ Parent[n] # NoDir => Parent[n] \in Dir /\ Rooted(c, r)
  /\ Parent[n] = NoDir => n \in {SandboxOf[c], WhitelistDir} /\ Live(r) = {}
  /\ \A f : Covered(q, f) =>
              Covered(r, f) \/ n = f \/ n \in Path[Parent[f]]

\* No call but the one that has returned is given up.
LEMMA Returning ==
  ASSUME ChallengeInv, NEW c \in Challenge,
         NEW n \in request[c].reading \cup request[c].stating, NEW q, NEW r,
         q = request[c], r = Returned(q, n)
  PROVE  OthersOpen(c, n, q, r)
<1>1. q \in Request /\ RequestInv(c, q)
  BY RequestsHave
<1>2. /\ Apart(q) /\ Counted(q, {}) /\ Rooted(c, q) /\ Inside(c, q)
      /\ Audited(q)
  BY <1>1 DEF RequestInv
<1>3. n \in Live(q)
  BY DEF Live
<1>4. /\ q.at = "walk" /\ Known(c) /\ n \in Node /\ n \in Sought(c)
      /\ r \in Request
  BY ReturnedState
<1>5. /\ r.reading = q.reading \ {n} /\ r.stating = q.stating \ {n}
      /\ r.pending = q.pending /\ r.results = q.results
      /\ r.found = q.found /\ r.at = q.at /\ r.records = q.records
      /\ r.location = q.location /\ r.failed = q.failed
  BY ReturnedState
<1>6. n \in Dir => q.pending[n] = 0
  BY <1>2 DEF Apart
<1>7. Live(q) = Live(r) \cup {n} /\ n \notin Live(r)
  BY <1>3, <1>5, <1>6 DEF Live
<1>8. Apart(r) /\ Inside(c, r) /\ Audited(r)
  BY <1>2, <1>4, <1>5 DEF Apart, Inside, Audited
<1>9. Counted(r, {n})
  <2>1. Live(q) \cup {} = Live(r) \cup {n}
    BY <1>7
  <2> QED BY <1>2, <1>5, <2>1 DEF Counted
<1>10. ASSUME Parent[n] # NoDir PROVE Parent[n] \in Dir /\ Rooted(c, r)
  <2>1. Below(Live(r), NoDir) = Below(Live(q), NoDir)
    BY <1>7, <1>10 DEF Below
  <2> QED BY <1>2, <1>4, <1>5, <1>10, <2>1, ChallengeAssumption
          DEF Rooted, Node
<1>11. ASSUME Parent[n] = NoDir
       PROVE  n \in {SandboxOf[c], WhitelistDir} /\ Live(r) = {}
  <2>1. n \in Below(Live(q), NoDir)
    BY <1>3, <1>11 DEF Below
  <2>2. n \in {SandboxOf[c], WhitelistDir} /\ Below(Live(q), NoDir) = {n}
    BY <1>2, <1>4, <2>1 DEF Rooted
  <2>3. Below(Live(r), NoDir) = {}
    BY <1>7, <2>2 DEF Below
  <2>4. Counted(r, {})
    <3>1. \A d \in Dir : Below(Live(r) \cup {n}, d) = Below(Live(r) \cup {}, d)
      BY <1>11, ChallengeAssumption DEF Below
    <3> QED BY <1>9, <3>1 DEF Counted
  <2>5. Live(r) = {}
    BY <1>4, <1>8, <2>3, <2>4, NoRootNoCalls
  <2> QED BY <2>2, <2>5
<1>12. \A f : Covered(q, f) => \/ Covered(r, f)
                              \/ n = f
                              \/ n \in Path[Parent[f]]
  BY <1>5 DEF Covered
<1>13. Poisoned(q) => Poisoned(r)
  BY <1>5 DEF Poisoned
<1> QED BY <1>4, <1>5, <1>7, <1>8, <1>9, <1>10, <1>11, <1>12, <1>13
        DEF OthersOpen

\* None of `jars`, which are due, is missed because an entry is done, if what it
\* adds is not less than what it stood for.
LEMMA EntryDone ==
  ASSUME ChallengeInv, NEW c \in Challenge,
         NEW n \in request[c].reading \cup request[c].stating, NEW r,
         r = Returned(request[c], n), Parent[n] # NoDir,
         NEW t \in Request, NEW failed \in BOOLEAN,
         t = [r EXCEPT !.failed = failed],
         NEW files \in SUBSET Results(c), NEW jars \in SUBSET Due(c),
         \/ Undefined \in files
         \/ \A f \in jars : n \notin Path[Parent[f]] /\ (n = f => n \in files),
         NEW s \in Arrive(t, Parent[n], files)
  PROVE  /\ RequestInv(c, s) /\ Kept(c, s, jars) /\ s.failed = failed
         /\ s.at \in Walk \cup {"walk"}
<1> DEFINE q == request[c]
<1>1. /\ q.at = "walk" /\ r.at = "walk" /\ r \in Request /\ n \in Node
      /\ Live(q) = Live(r) \cup {n} /\ n \notin Live(r)
      /\ Apart(r) /\ Counted(r, {n}) /\ Inside(c, r) /\ Audited(r)
      /\ Parent[n] \in Dir /\ Rooted(c, r) /\ r.found = q.found
      /\ Poisoned(q) => Poisoned(r)
      /\ \A f : Covered(q, f) => \/ Covered(r, f)
                                 \/ n = f
                                 \/ n \in Path[Parent[f]]
  <2>1. q.at = "walk" /\ n \in Node
    BY ReturnedState
  <2>2. OthersOpen(c, n, q, r)
    BY Returning
  <2> HIDE DEF q
  <2> QED BY <2>1, <2>2 DEF OthersOpen
<1>2. Kept(c, q, Due(c)) /\ q.at \notin Answers \cup {"new"}
  BY <1>1, RequestsHave DEF Answers
<1>3. jars \in SUBSET (Sought(c) \cap Jar)
  BY <1>2, DueIsThere
<1>4. /\ t.at = r.at /\ t.reading = r.reading /\ t.stating = r.stating
      /\ t.pending = r.pending /\ t.results = r.results /\ t.found = r.found
      /\ t.records = r.records /\ t.failed = failed
  BY <1>1 DEF Request
<1>5. /\ Live(t) = Live(r) /\ Apart(t) /\ Counted(t, {n}) /\ Inside(c, t)
      /\ Audited(t) /\ Rooted(c, t)
      /\ Poisoned(r) => Poisoned(t)
      /\ \A f : Covered(r, f) => Covered(t, f)
  <2>1. Live(t) = Live(r) /\ Apart(t)
    BY <1>1, <1>4, SameCalls
  <2> QED BY <1>1, <1>4, <2>1
          DEF Counted, Inside, Audited, Rooted, Poisoned, Covered
<1>6. /\ RequestInv(c, s)
      /\ s.at \in Walk \cup {"walk"} /\ s.failed = t.failed
      /\ NoneLost(t, Parent[n], files, jars) => Kept(c, s, jars)
  <2>1. PICK d : d = Parent[n]
    OBVIOUS
  <2>2. PICK u \in Request : u = t
    OBVIOUS
  <2> HIDE DEF q
  <2>3. s \in Arrive(u, d, files) /\ d \in Dir /\ Parent[n] = d /\ n \in Node
        /\ u.at = "walk" /\ n \notin Live(u) /\ Apart(u) /\ Counted(u, {n})
        /\ Rooted(c, u) /\ Inside(c, u) /\ Audited(u)
    BY <1>1, <1>4, <1>5, <2>1, <2>2
  <2>4. /\ RequestInv(c, s)
        /\ s.at \in Walk \cup {"walk"} /\ s.failed = u.failed
        /\ NoneLost(u, d, files, jars) => Kept(c, s, jars)
    BY <1>3, <2>3, Arrived
  <2> QED BY <2>1, <2>2, <2>4
<1>7. ASSUME NEW f \in jars, ~Poisoned(q), Undefined \notin files
      PROVE  \/ f \in t.found
             \/ Covered(t, f)
             \/ (f \in files /\ Parent[n] \in Path[Parent[f]])
             \/ /\ Within(f, WhitelistDir)
                /\ WhitelistDir \notin Live(t)
  <2>1. \/ f \in q.found \/ Covered(q, f)
        \/ Within(f, WhitelistDir) /\ WhitelistDir \notin Live(q)
    BY <1>1, <1>2, <1>7 DEF Kept
  <2>2. n = f => Parent[n] \in Path[Parent[f]]
    BY <1>1, PathCloses
  <2> QED BY <1>1, <1>4, <1>5, <1>7, <2>1, <2>2
<1>8. NoneLost(t, Parent[n], files, jars)
  BY <1>1, <1>5, <1>7 DEF NoneLost
<1> QED BY <1>4, <1>6, <1>8

LEMMA ReaddirInv ==
  ASSUME ChallengeInv, Observe, NEW c \in Challenge, NEW d \in Dir,
         Readdir(c, d)
  PROVE  ChallengeInv'
<1> DEFINE q == request[c]
           r == [q EXCEPT !.reading = @ \ {d}]
           s == [r EXCEPT !.pending = [@ EXCEPT ![d] = Pending(d)],
                          !.stating = @ \cup Entries(d)]
           next == IF Entries(d) = {} THEN Done(r, d) ELSE {s}
<1>1. /\ d \in q.reading
      /\ Becomes(c, Failed(r, d)) \/ (d \in dirs /\ Becomes(c, next))
  BY DEF Readdir
<1>2. q \in Request /\ RequestInv(c, q) /\ FilesInv /\ Kept(c, q, Due(c))
  BY RequestsHave
<1>3. Apart(q) /\ Counted(q, {}) /\ Rooted(c, q) /\ Inside(c, q)
      /\ Audited(q)
  BY <1>2 DEF RequestInv
<1>4. r = Returned(q, d)
  <2>1. q.stating \ {d} = q.stating
    BY <1>1, <1>3 DEF Apart
  <2> QED BY <1>2, <2>1 DEF Request, Returned
<1> HIDE DEF r
<1>5. /\ q.at = "walk" /\ Known(c) /\ d \in Sought(c)
      /\ r \in Request /\ r.at = "walk" /\ r.found = q.found
      /\ r.failed = q.failed /\ (Poisoned(q) => Poisoned(r))
      /\ Live(q) = Live(r) \cup {d} /\ d \notin Live(r)
      /\ Inside(c, r) /\ Audited(r)
      /\ Parent[d] = NoDir => /\ d \in {SandboxOf[c], WhitelistDir}
                              /\ Live(r) = {}
      /\ \A f : Covered(q, f) => \/ Covered(r, f)
                                 \/ d = f
                                 \/ d \in Path[Parent[f]]
  <2>1. /\ d \in request[c].reading \cup request[c].stating
        /\ q = request[c] /\ r = Returned(q, d)
    BY <1>1, <1>4
  <2>2. q.at = "walk" /\ Known(c) /\ d \in Sought(c)
    BY <2>1, ReturnedState
  <2> HIDE DEF q
  <2>3. OthersOpen(c, d, q, r)
    BY <2>1, Returning
  <2> QED BY <2>2, <2>3 DEF OthersOpen
<1>6. q.at \notin Answers \cup {"new"}
  BY <1>5 DEF Answers
<1>7. ASSUME NEW f \in Due(c)
      PROVE  /\ f \in Sought(c) \cap Jar /\ d # f
             /\ d \in Path[Parent[f]] => Entries(d) # {}
  BY <1>6, DueIsThere, ChallengeAssumption
<1>8. ASSUME Parent[d] # NoDir, NEW files \in SUBSET Results(c),
             Entries(d) = {} \/ Undefined \in files,
             NEW x \in Arrive(r, Parent[d], files)
      PROVE  /\ RequestInv(c, x) /\ Kept(c, x, Due(c)) /\ x.failed = q.failed
             /\ x.at \in Walk \cup {"walk"}
  <2> DEFINE t == [r EXCEPT !.failed = r.failed]
  <2>1. t = r /\ r.failed \in BOOLEAN
    BY <1>5 DEF Request
  <2>2. d \in request[c].reading \cup request[c].stating
        /\ r = Returned(request[c], d)
    BY <1>1, <1>4
  <2>3. \/ Undefined \in files
        \/ \A f \in Due(c) : d \notin Path[Parent[f]] /\ (d = f => d \in files)
    BY <1>7, <1>8
  <2>4. t \in Request /\ x \in Arrive(t, Parent[d], files)
        /\ t = [r EXCEPT !.failed = r.failed] /\ Due(c) \in SUBSET Due(c)
    BY <1>5, <1>8, <2>1
  <2> HIDE DEF q, t
  <2>5. /\ RequestInv(c, x) /\ Kept(c, x, Due(c)) /\ x.failed = r.failed
        /\ x.at \in Walk \cup {"walk"}
    BY <1>8, <2>1, <2>2, <2>3, <2>4, EntryDone
  <2> QED BY <1>5, <2>5
<1>9. ASSUME NEW x \in Failed(r, d)
      PROVE  /\ RequestInv(c, x) /\ Kept(c, x, Owed(c, x))
             /\ x.at \in Walk \cup {"walk"}
  <2>1. CASE Parent[d] # NoDir
    <3>1. {Undefined} \in SUBSET Results(c)
      BY DEF Results
    <3>2. x \in Arrive(r, Parent[d], {Undefined})
      BY <1>9, <2>1 DEF Failed
    <3>3. /\ RequestInv(c, x) /\ Kept(c, x, Due(c)) /\ x.failed = q.failed
          /\ x.at \in Walk \cup {"walk"}
      BY <1>8, <2>1, <3>1, <3>2
    <3> QED BY <3>3 DEF Owed, Due
  <2>2. CASE Parent[d] = NoDir
    <3>1. x \in WalkFailed(r, d)
      BY <1>9, <2>2 DEF Failed
    <3>2. /\ RequestInv(c, x) /\ Kept(c, x, {}) /\ x.failed
          /\ x.at = "nok"
      BY <1>5, <2>2, <3>1, TreeFailed
    <3> QED BY <3>2 DEF Owed, Walk
  <2> QED BY <2>1, <2>2
<1>10. ASSUME Entries(d) = {}, NEW x \in Done(r, d)
       PROVE  /\ RequestInv(c, x) /\ Kept(c, x, Due(c)) /\ x.failed = q.failed
              /\ x.at \in Walk \cup {"walk"}
  <2>1. CASE Parent[d] # NoDir
    <3>1. x \in Arrive(r, Parent[d], {}) /\ {} \in SUBSET Results(c)
      BY <1>10, <2>1 DEF Done
    <3> QED BY <1>8, <1>10, <2>1, <3>1
  <2>2. CASE Parent[d] = NoDir
    <3>1. x \in Walked(r, d, {}) /\ {} \in SUBSET Results(c)
      BY <1>10, <2>2 DEF Done
    <3>2. /\ RequestInv(c, x)
          /\ \A jars \in SUBSET (Sought(c) \cap Jar) :
               \/ Undefined \in r.found \cup {}
               \/ \A f \in jars : \/ f \in r.found \cup {}
                                  \/ /\ Within(f, WhitelistDir)
                                     /\ d # WhitelistDir
               => Kept(c, x, jars)
      BY <1>5, <2>2, <3>1, TreeWalked
    <3>3. /\ r.reading = {} /\ r.stating = {}
          /\ \A e \in Dir : r.pending[e] = 0
      BY <1>5, <2>2, NoCallsCount DEF Live
    <3>4. ASSUME NEW f \in Due(c), Undefined \notin r.found
          PROVE  \/ f \in r.found
                 \/ Within(f, WhitelistDir) /\ d # WhitelistDir
      <4>1. ~Covered(r, f)
        <5>1. Path[Parent[f]] \subseteq Dir
          BY <1>7, SoughtJars, PathCloses
        <5> QED BY <3>3, <5>1 DEF Covered
      <4>2. ~Poisoned(q)
        <5>1. ~Poisoned(r)
          BY <3>3, <3>4 DEF Poisoned
        <5> QED BY <1>5, <5>1
      <4>3. \/ f \in q.found \/ Covered(q, f)
            \/ Within(f, WhitelistDir) /\ WhitelistDir \notin Live(q)
        BY <1>2, <1>5, <4>2 DEF Kept
      <4> QED BY <1>5, <1>7, <1>10, <4>1, <4>3
    <3>5. Due(c) \in SUBSET (Sought(c) \cap Jar)
      BY <1>7
    <3>6. x.at \in Walk \cup {"walk"} /\ x.failed = q.failed
      BY <1>5, <3>1, WalkLeadsTo
    <3> QED BY <3>2, <3>4, <3>5, <3>6
  <2> QED BY <2>1, <2>2
<1>11. ASSUME Entries(d) # {}
       PROVE  /\ RequestInv(c, s) /\ Kept(c, s, Due(c)) /\ s.failed = q.failed
              /\ s.at \in Walk \cup {"walk"}
  <2> DEFINE E == Entries(d)
  <2>1. /\ E \in SUBSET Node /\ \A n \in E : Parent[n] = d
        /\ d \in Dir /\ NoDir \notin Dir /\ Parent[WhitelistDir] = NoDir
    BY ChallengeAssumption DEF Entries
  <2>2. Pending(d) = Cardinality(E) /\ Pending(d) \in Nat /\ Pending(d) > 0
    BY <1>11, <2>1, NodesCount DEF Pending
  <2>3. /\ s.reading = q.reading \ {d} /\ s.stating = q.stating \cup E
        /\ s.pending = [q.pending EXCEPT ![d] = Pending(d)]
        /\ s.results = q.results /\ s.found = q.found
        /\ s.at = q.at /\ s.records = q.records /\ s.failed = q.failed
    BY <1>2 DEF Request, r
  <2>4. s \in Request
    BY <1>2, <2>1, <2>2 DEF Request, r
  <2> HIDE DEF E, s
  <2>5. \A e \in Dir : s.pending[e] = IF e = d THEN Pending(d)
                                             ELSE q.pending[e]
    BY <1>2, <2>3 DEF Request
  <2>6. d \in Live(q) /\ q.pending[d] = 0 /\ d \notin q.stating
    BY <1>1, <1>3 DEF Apart, Live
  <2>7. \A n \in Live(q) : Parent[n] # d
    <3>1. Live(q) \in SUBSET Node
      BY <1>2 DEF Live, Request, Node
    <3>2. Cardinality(Below(Live(q) \cup {}, d)) = 0
      BY <1>3, <2>6 DEF Counted
    <3>3. Below(Live(q) \cup {}, d) = {}
      BY <3>1, <3>2, NodesCount DEF Below
    <3> QED BY <3>3 DEF Below
  <2>8. E \cap Live(q) = {} /\ d \notin E
    BY <2>1, <2>6, <2>7
  <2>9. Live(s) = Live(q) \cup E
    BY <2>2, <2>3, <2>5, <2>6 DEF Live
  <2>10. Apart(s)
    <3>1. ASSUME NEW n \in Dir \cap (s.reading \cup s.stating)
          PROVE  s.pending[n] = 0
      <4>1. n # d
        BY <2>3, <2>6, <2>8
      <4>2. q.pending[n] = 0
        <5>1. CASE n \in E
          <6>1. ~(q.pending[n] > 0) /\ q.pending[n] \in Nat
            BY <1>2, <2>8, <5>1 DEF Live, Request
          <6> QED BY <6>1
        <5>2. CASE n \notin E
          BY <1>3, <2>3, <5>2 DEF Apart
        <5> QED BY <5>1, <5>2
      <4> QED BY <2>5, <4>1, <4>2
    <3>2. s.reading \cap s.stating = {}
      BY <1>3, <2>3, <2>8 DEF Apart, Live
    <3>3. \A n \in s.stating : Parent[n] # NoDir
      BY <1>3, <2>1, <2>3 DEF Apart
    <3> QED BY <3>1, <3>2, <3>3 DEF Apart
  <2>11. Counted(s, {})
    <3> SUFFICES ASSUME NEW e \in Dir
                 PROVE  s.pending[e] = Cardinality(Below(Live(s) \cup {}, e))
      BY DEF Counted
    <3>1. CASE e = d
      <4>1. Below(Live(s) \cup {}, e) = E
        BY <2>1, <2>7, <2>9, <3>1 DEF Below
      <4> QED BY <2>2, <2>5, <3>1, <4>1
    <3>2. CASE e # d
      <4>1. Below(Live(s) \cup {}, e) = Below(Live(q) \cup {}, e)
        BY <2>1, <2>9, <3>2 DEF Below
      <4> QED BY <1>3, <2>5, <3>2, <4>1 DEF Counted
    <3> QED BY <3>1, <3>2
  <2>12. Rooted(c, s)
    <3>1. Below(Live(s), NoDir) = Below(Live(q), NoDir)
      BY <2>1, <2>9 DEF Below
    <3> QED BY <1>3, <1>5, <2>3, <3>1 DEF Rooted
  <2>13. Inside(c, s) /\ Audited(s)
    <3>1. E \subseteq Sought(c)
      BY <1>5, <2>1, EntriesSought
    <3> QED BY <1>3, <1>5, <2>3, <3>1 DEF Inside, Audited
  <2>14. ASSUME NEW f \in Due(c), Covered(q, f) PROVE Covered(s, f)
    <3>1. CASE f \in q.stating
      BY <2>3, <3>1 DEF Covered
    <3>2. CASE d \in Path[Parent[f]]
      <4>1. PICK n \in E : n = f \/ n \in Path[Parent[f]]
        BY <1>6, <3>2, DueIsThere DEF E
      <4> QED BY <2>3, <4>1 DEF Covered
    <3>3. ASSUME NEW x \in Path[Parent[f]], x # d,
                 \/ x \in q.reading \cup q.stating
                 \/ q.pending[x] > 0 /\ f \in q.results[x]
          PROVE  Covered(s, f)
      <4>1. x \in Dir
        BY <1>7, SoughtJars, PathCloses
      <4> QED BY <2>3, <2>5, <3>3, <4>1 DEF Covered
    <3> QED BY <2>14, <3>1, <3>2, <3>3 DEF Covered
  <2>15. WhitelistDir \notin Live(q) => WhitelistDir \notin Live(s)
    BY <2>1, <2>9
  <2>16. Poisoned(q) => Poisoned(s)
    BY <2>3, <2>5, <2>6 DEF Poisoned
  <2>17. Kept(c, s, Due(c))
    BY <1>2, <1>5, <2>3, <2>14, <2>15, <2>16 DEF Kept
  <2> QED BY <1>5, <2>3, <2>4, <2>10, <2>11, <2>12, <2>13, <2>17 DEF RequestInv
<1>12. ASSUME NEW x \in next
       PROVE  /\ RequestInv(c, x) /\ Kept(c, x, Owed(c, x))
              /\ x.at \in Walk \cup {"walk"}
  <2>1. /\ RequestInv(c, x) /\ Kept(c, x, Due(c)) /\ x.failed = q.failed
        /\ x.at \in Walk \cup {"walk"}
    <3>1. CASE Entries(d) = {}
      BY <1>10, <1>12, <3>1
    <3>2. CASE Entries(d) # {}
      BY <1>11, <1>12, <3>2
    <3> QED BY <3>1, <3>2
  <2> QED BY <2>1 DEF Owed, Due
<1> HIDE DEF next
<1>13. \A x : x.at \in Walk \cup {"walk"} =>
               Attested(c, x, ever[c] \cup Vouching(c))
  BY DEF Walk, Attested
<1> QED BY <1>1, <1>5, <1>6, <1>9, <1>12, <1>13, BecomesInv

LEMMA EntryStatInv ==
  ASSUME ChallengeInv, Observe, NEW c \in Challenge, NEW n \in Node,
         EntryStat(c, n)
  PROVE  ChallengeInv'
<1> DEFINE q == request[c]
           r == [q EXCEPT !.stating = @ \ {n}]
           s == [r EXCEPT !.reading = @ \cup {n}]
           t == [r EXCEPT !.failed = @ \/ n \in dirs]
           next == Arrive(t, Parent[n], {n} \cap Jar)
<1>1. /\ n \in q.stating
      /\ (n \in dirs /\ Becomes(c, {s})) \/ Becomes(c, next)
  BY DEF EntryStat
<1>2. q \in Request /\ RequestInv(c, q) /\ FilesInv /\ Kept(c, q, Due(c))
  BY RequestsHave
<1>3. Apart(q) /\ Counted(q, {}) /\ Rooted(c, q) /\ Inside(c, q)
      /\ Audited(q)
  BY <1>2 DEF RequestInv
<1>4. r = Returned(q, n)
  <2>1. q.reading \ {n} = q.reading
    BY <1>1, <1>3 DEF Apart
  <2> QED BY <1>2, <2>1 DEF Request, Returned
<1>5. q.at = "walk" /\ Known(c) /\ n \in Sought(c) /\ r \in Request
      /\ r.failed = q.failed
  <2>1. n \in request[c].reading \cup request[c].stating
    BY <1>1
  <2> HIDE DEF r
  <2> QED BY <1>4, <2>1, ReturnedState
<1>6. q.at \notin Answers \cup {"new"} /\ Parent[n] # NoDir
  BY <1>1, <1>3, <1>5 DEF Answers, Apart
<1>7. ASSUME NEW f \in Due(c)
      PROVE  f \in Jar /\ f \notin dirs /\ Path[Parent[f]] \subseteq dirs
  BY <1>2, <1>6, DueIsThere, ChallengeAssumption DEF FilesInv
<1>8. ASSUME NEW x \in next
      PROVE  /\ RequestInv(c, x) /\ Kept(c, x, Owed(c, x))
             /\ x.at \in Walk \cup {"walk"}
  <2> DEFINE failed == r.failed \/ n \in dirs
             jars == IF n \in dirs THEN {} ELSE Due(c)
  <2>1. {n} \cap Jar \in SUBSET Results(c)
    BY <1>5 DEF Results
  <2>2. \A f \in jars : /\ n \notin Path[Parent[f]]
                        /\ n = f => n \in {n} \cap Jar
    BY <1>7
  <2>3. t = [r EXCEPT !.failed = failed] /\ failed \in BOOLEAN /\ t \in Request
    BY <1>5 DEF Request
  <2>4. n \in request[c].reading \cup request[c].stating
        /\ r = Returned(request[c], n) /\ jars \in SUBSET Due(c)
    BY <1>1, <1>4
  <2>5. x \in Arrive(t, Parent[n], {n} \cap Jar)
    BY <1>8
  <2> HIDE DEF r, q, t, jars, failed
  <2>6. /\ RequestInv(c, x) /\ Kept(c, x, jars) /\ x.failed = failed
        /\ x.at \in Walk \cup {"walk"}
    BY <1>6, <2>1, <2>2, <2>3, <2>4, <2>5, EntryDone
  <2>7. Owed(c, x) \subseteq jars
    BY <1>5, <2>6 DEF Owed, Due, jars, failed, q
  <2> QED BY <2>6, <2>7, KeptFewer
<1>9. ASSUME n \in dirs
      PROVE  RequestInv(c, s) /\ Kept(c, s, Owed(c, s)) /\ s.at = "walk"
  <2>1. n \in Dir
    BY <1>2, <1>9 DEF FilesInv
  <2>2. /\ s.reading = q.reading \cup {n} /\ s.stating = q.stating \ {n}
        /\ s.pending = q.pending /\ s.results = q.results
        /\ s.found = q.found /\ s.at = q.at /\ s.records = q.records
        /\ s.failed = q.failed
    BY <1>2 DEF Request
  <2>3. s \in Request
    BY <1>2, <2>1 DEF Request
  <2> HIDE DEF s
  <2>4. Live(s) = Live(q)
    BY <1>1, <2>2 DEF Live
  <2>5. Apart(s)
    BY <1>1, <1>3, <2>2 DEF Apart
  <2>6. Counted(s, {}) /\ Rooted(c, s) /\ Inside(c, s) /\ Audited(s)
    BY <1>3, <1>5, <2>2, <2>4 DEF Counted, Rooted, Inside, Audited
  <2>7. \A f \in Due(c) : Covered(q, f) => Covered(s, f)
    BY <1>7, <1>9, <2>2 DEF Covered
  <2>8. Poisoned(q) => Poisoned(s)
    BY <2>2 DEF Poisoned
  <2>9. Kept(c, s, Owed(c, s))
    <3>1. Kept(c, s, Due(c))
      BY <1>2, <1>5, <2>2, <2>4, <2>7, <2>8 DEF Kept
    <3> QED BY <2>2, <3>1 DEF Owed, Due
  <2> QED BY <1>5, <2>2, <2>3, <2>5, <2>6, <2>9 DEF RequestInv
<1>10. \A x : x.at \in Walk \cup {"walk"} =>
               Attested(c, x, ever[c] \cup Vouching(c))
  BY DEF Walk, Attested
<1> HIDE DEF next, s
<1>11. CASE n \in dirs /\ Becomes(c, {s})
  <2>1. /\ RequestInv(c, s) /\ Kept(c, s, Owed(c, s))
        /\ Attested(c, s, ever[c] \cup Vouching(c))
    BY <1>9, <1>10, <1>11
  <2>2. request[c].at \notin Answers \cup {"new"} /\ Known(c) /\ Becomes(c, {s})
    BY <1>5, <1>6, <1>11
  <2> HIDE DEF q
  <2> QED BY <2>1, <2>2, BecomesOne
<1>12. CASE Becomes(c, next)
  BY <1>5, <1>6, <1>8, <1>10, <1>12, BecomesInv
<1> QED BY <1>1, <1>11, <1>12

LEMMA ReadFileInv ==
  ASSUME ChallengeInv, Observe, NEW c \in Challenge, ReadFile(c)
  PROVE  ChallengeInv'
<1> DEFINE r == request[c]
           State(data) == [r EXCEPT !.at = "hash", !.data = data]
           next == {State(data) : data \in {content[r.location], Absent}}
<1>1. r.at = "read" /\ Becomes(c, next)
  BY DEF ReadFile
<1>2. /\ r \in Request /\ RequestInv(c, r) /\ FilesInv /\ Kept(c, r, Due(c))
      /\ r.at \notin Answers \cup {"new"}
  BY <1>1, RequestsHave DEF Answers
<1>3. Live(r) = {} /\ Inside(c, r) /\ Audited(r)
  BY <1>1, <1>2 DEF RequestInv, Rooted
<1>4. r.location \in Sought(c) \cap Jar
  BY <1>1, <1>3 DEF Inside
<1>5. Absent # Sha1Of[c]
  BY ChallengeAssumption
<1>6. ASSUME NEW s \in next
      PROVE  /\ RequestInv(c, s) /\ Kept(c, s, Owed(c, s)) /\ s.at # "walk"
             /\ Attested(c, s, ever[c] \cup Vouching(c))
  <2>1. PICK data \in {content[r.location], Absent} : s = State(data)
    BY <1>6
  <2>2. data \in Hash \cup {Absent}
    BY <1>2, <1>4 DEF FilesInv
  <2>3. /\ s.at = "hash" /\ s.data = data /\ s.location = r.location
        /\ s.reading = r.reading /\ s.stating = r.stating
        /\ s.pending = r.pending /\ s.results = r.results
        /\ s.found = r.found /\ s.records = r.records /\ s.failed = r.failed
    BY <1>2, <2>1 DEF Request
  <2>4. s \in Request
    BY <1>2, <2>1, <2>2 DEF Request, Open
  <2>5. Live(s) = {}
    BY <1>3, <2>3, SameCalls
  <2>6. Inside(c, s) /\ Rooted(c, s)
    BY <1>3, <1>4, <2>3, <2>5 DEF Inside, Rooted
  <2>7. Audited(s)
    BY <1>1, <1>3, <2>3 DEF Audited, Answers
  <2>8. Kept(c, s, Owed(c, s))
    <3>1. Undefined \in r.found \/ Due(c) \subseteq r.found \cup {r.location}
      BY <1>1, <1>2 DEF Kept
    <3>2. \A f \in Due(c) : content[f] = Sha1Of[c]
      BY <1>2, DueIsThere
    <3>3. data \in {Absent, Sha1Of[c]} \/ r.location \notin Due(c)
      BY <2>1, <3>2
    <3>4. Owed(c, s) = Due(c)
      BY <2>3 DEF Owed, Due
    <3> QED BY <2>3, <3>1, <3>3, <3>4 DEF Kept
  <2>9. data = Sha1Of[c] => r.location \in Vouching(c)
    BY <1>4, <1>5, <2>1 DEF Sought, Vouching
  <2> QED BY <2>3, <2>4, <2>5, <2>6, <2>7, <2>8, <2>9, NoCallsCount
          DEF RequestInv, Attested
<1> HIDE DEF next
<1> QED BY <1>1, <1>2, <1>6, BecomesInv

LEMMA Sha1ReadyInv ==
  ASSUME ChallengeInv, Observe, NEW c \in Challenge, Sha1Ready(c)
  PROVE  ChallengeInv'
<1> DEFINE r == request[c]
           next == CASE r.data = Absent    -> {[r EXCEPT !.at = "thrown"]}
                     [] r.data = Sha1Of[c] -> {ReplyOk(r)}
                     [] OTHER -> IF r.found = {} THEN {ReplyNok(r, "nok")}
                                 ELSE {[r EXCEPT !.at = "tick"]}
<1>1. r.at = "hash" /\ Becomes(c, next)
  BY DEF Sha1Ready
<1>2. /\ r \in Request /\ RequestInv(c, r) /\ Kept(c, r, Due(c))
      /\ r.at \notin Answers \cup {"new"} /\ Watched(c)
  BY <1>1, RequestsHave DEF Answers
<1>3. Live(r) = {} /\ Inside(c, r) /\ Audited(r)
  BY <1>1, <1>2 DEF RequestInv, Rooted
<1>4. \/ r.data \in {Absent, Sha1Of[c]} \/ Undefined \in r.found
      \/ Due(c) \subseteq r.found
  BY <1>1, <1>2 DEF Kept
<1>5. r.data = Sha1Of[c] => r.location \in ever[c]
  BY <1>1, <1>2 DEF Watched, Attested
<1>6. Absent # Sha1Of[c] /\ ReplyOk(r) = ReplyNok(r, "ok")
  BY ChallengeAssumption DEF ReplyOk, ReplyNok
<1>7. /\ [r EXCEPT !.at = "thrown"].at = "thrown"
      /\ [r EXCEPT !.at = "tick"].at = "tick"
      /\ [r EXCEPT !.at = "tick"].found = r.found
      /\ [r EXCEPT !.at = "tick"].failed = r.failed
      /\ ReplyNok(r, "ok").location = r.location
      /\ ReplyNok(r, "nok").failed = r.failed
  BY <1>2 DEF Request, ReplyNok, Log
<1>8. ASSUME NEW s \in next
      PROVE  /\ RequestInv(c, s) /\ Kept(c, s, Owed(c, s)) /\ s.at # "walk"
             /\ Attested(c, s, ever[c] \cup Vouching(c))
  <2> USE DEF Attested
  <2>1. CASE r.data = Absent
    <3>1. s = [r EXCEPT !.at = "thrown"]
      BY <1>6, <1>8, <2>1
    <3> HIDE DEF r
    <3>2. RequestInv(c, s)
      BY <1>2, <1>3, <3>1, Waits
    <3> QED BY <1>7, <3>1, <3>2 DEF Kept
  <2>2. CASE r.data = Sha1Of[c]
    <3>1. s = ReplyNok(r, "ok")
      BY <1>6, <1>8, <2>2
    <3> HIDE DEF r
    <3>2. RequestInv(c, s) /\ s.at = "ok"
      BY <1>2, <1>3, <3>1, Answered DEF Answers
    <3> QED BY <1>5, <1>7, <2>2, <3>1, <3>2 DEF Kept
  <2>3. CASE r.data \notin {Absent, Sha1Of[c]} /\ r.found = {}
    <3>1. s = ReplyNok(r, "nok")
      BY <1>8, <2>3
    <3>2. Owed(c, s) = Due(c)
      BY <1>7, <3>1 DEF Owed, Due
    <3> HIDE DEF r
    <3>3. RequestInv(c, s) /\ s.at = "nok"
      BY <1>2, <1>3, <3>1, Answered DEF Answers
    <3>4. Due(c) = {}
      BY <1>4, <2>3
    <3> QED BY <3>2, <3>3, <3>4 DEF Kept
  <2>4. CASE r.data \notin {Absent, Sha1Of[c]} /\ r.found # {}
    <3>1. s = [r EXCEPT !.at = "tick"]
      BY <1>8, <2>4
    <3>2. Owed(c, s) = Due(c)
      BY <1>7, <3>1 DEF Owed, Due
    <3> HIDE DEF r
    <3>3. RequestInv(c, s)
      BY <1>2, <1>3, <3>1, Waits
    <3> QED BY <1>4, <1>7, <2>4, <3>1, <3>2, <3>3 DEF Kept
  <2> QED BY <2>1, <2>2, <2>3, <2>4
<1> HIDE DEF next
<1> QED BY <1>1, <1>2, <1>8, BecomesInv

LEMMA NextTickInv ==
  ASSUME ChallengeInv, Observe, NEW c \in Challenge, NextTick(c)
  PROVE  ChallengeInv'
<1> DEFINE r == request[c]
           next == HandleFiles(r, r.found)
<1>1. r.at = "tick" /\ Becomes(c, next)
  BY DEF NextTick
<1>2. /\ r \in Request /\ RequestInv(c, r) /\ Kept(c, r, Due(c))
      /\ r.at \notin Answers /\ steady \in [Challenge -> SUBSET Jar]
  BY <1>1, RequestsHave DEF Answers, ChallengeInv
<1>3. Live(r) = {} /\ Inside(c, r) /\ Audited(r)
  BY <1>1, <1>2 DEF RequestInv, Rooted
<1>4. r.found \in SUBSET Results(c)
  BY <1>3 DEF Inside
<1>5. /\ Due(c) \in SUBSET Jar
      /\ Undefined \in r.found \/ Due(c) \subseteq r.found
  BY <1>1, <1>2 DEF Kept, Due, Owed
<1>6. ASSUME NEW s \in next
      PROVE  /\ RequestInv(c, s) /\ Kept(c, s, Owed(c, s)) /\ s.at # "walk"
             /\ Attested(c, s, ever[c] \cup Vouching(c))
  <2>1. s.at \in Walk /\ s.failed = r.failed
    BY <1>2, <1>6, WalkLeadsTo
  <2>2. Owed(c, s) = Due(c)
    BY <2>1 DEF Owed, Due
  <2>3. RequestInv(c, s) /\ Kept(c, s, Due(c))
    <3> HIDE DEF r
    <3> QED BY <1>1, <1>2, <1>3, <1>4, <1>5, <1>6, FilesHandled
  <2> QED BY <2>1, <2>2, <2>3 DEF Walk, Attested
<1> HIDE DEF next
<1> QED BY <1>1, <1>2, <1>6, BecomesInv

\* The server ends: nothing is owed to the requests it leaves.
LEMMA ExitInv ==
  ASSUME ChallengeInv, Observe, Exit
  PROVE  ChallengeInv'
<1> DEFINE Left(c) == [Fresh EXCEPT !.at = "reset",
                                    !.data = request[c].data,
                                    !.records = request[c].records]
<1>1. /\ \A c \in Challenge : request'[c] = IF request[c].at \in Open
                                            THEN Left(c) ELSE request[c]
      /\ request' = [c \in Challenge |-> request'[c]]
      /\ server' = "down" /\ UNCHANGED fileVars
  BY DEF Exit
<1>2. ASSUME NEW c \in Challenge
      PROVE  /\ request[c] \in Request /\ RequestInv(c, request[c])
             /\ Watched(c) /\ Kept(c, request[c], Due(c))
  BY RequestsHave
<1>3. ASSUME NEW c \in Challenge, request[c].at \in Open
      PROVE  RequestInv(c, Left(c)) /\ Left(c).at = "reset"
  <2> DEFINE r == request[c]
             s == Left(c)
  <2>1. /\ s.at = "reset" /\ s.reading = {} /\ s.stating = {}
        /\ s.pending = [d \in Dir |-> 0] /\ s.results = [d \in Dir |-> {}]
        /\ s.found = {} /\ s.records = r.records
    BY DEF Fresh
  <2>2. s \in Request
    BY <1>2 DEF Fresh, Request
  <2>3. Live(s) = {}
    BY <2>1 DEF Live
  <2>4. Audited(s)
    BY <1>2, <1>3, <2>1 DEF RequestInv, Audited, Open, Answers
  <2>5. Inside(c, s) /\ Rooted(c, s)
    BY <2>1, <2>3 DEF Inside, Rooted
  <2> HIDE DEF s
  <2> QED BY <2>1, <2>2, <2>3, <2>4, <2>5, NoCallsCount DEF RequestInv, s
<1> HIDE DEF Left
<1>4. FilesInv'
  <2>1. FilesInv
    BY DEF ChallengeInv
  <2> QED BY <1>1, <2>1 DEF FilesInv, fileVars, Present
<1>5. ASSUME NEW c \in Challenge
      PROVE  /\ RequestInv(c, request'[c])
             /\ request[c].at \in Answers => request'[c] = request[c]
             /\ request'[c].at \in {"reset", request[c].at}
             /\ request'[c].at # "reset" => request'[c] = request[c]
             /\ request[c].at = "new" => request'[c].at = "new"
  BY <1>1, <1>2, <1>3 DEF Open, Answers
<1>6. ASSUME NEW c \in Challenge
      PROVE  Watched(c)' /\ Kept(c, request'[c], Due(c)')
  <2>1. request'[c].at = "walk" => Known(c)
    BY <1>2, <1>5 DEF Watched
  <2>2. Attested(c, request'[c], ever[c] \cup Vouching(c)')
    <3>1. CASE request'[c].at = "reset"
      BY <3>1 DEF Attested
    <3>2. CASE request'[c].at # "reset"
      BY <1>2, <1>5, <3>2 DEF Watched, Attested
    <3> QED BY <3>1, <3>2
  <2>3. made \subseteq made'
    BY <1>1 DEF fileVars
  <2>4. /\ Watched(c)'
        /\ request[c].at # "new" => Due(c)' \subseteq Owed(c, request'[c])
    BY <1>5, <2>1, <2>2, <2>3, Observed DEF Arrives
  <2>5. Kept(c, request'[c], Due(c)')
    <3>1. CASE request'[c].at \in {"reset", "new"}
      BY <3>1 DEF Kept
    <3>2. CASE request'[c].at \notin {"reset", "new"}
      BY <1>2, <1>5, <2>4, <3>2, KeptFewer DEF Due
    <3> QED BY <3>1, <3>2
  <2> QED BY <2>4, <2>5 DEF Due
<1>7. request' \in [Challenge -> Request]
  <2>1. \A c \in Challenge : request'[c] \in Request
    BY <1>5 DEF RequestInv
  <2> QED BY <1>1, <2>1
<1>8. (\A c \in Challenge : RequestInv(c, request[c]))'
  BY <1>5
<1>9. (\A c \in Challenge : Watched(c) /\ Kept(c, request[c], Due(c)))'
  BY <1>6
<1>10. (/\ steady \in [Challenge -> SUBSET Jar]
        /\ ever \in [Challenge -> SUBSET Jar])'
  BY ObservedTypes DEF ChallengeInv
<1> QED BY <1>4, <1>7, <1>8, <1>9, <1>10 DEF ChallengeInv

\* The files change, or nothing the route looks at.
LEMMA RequestsStay ==
  ASSUME ChallengeInv, Observe, request' = request, FilesInv',
         made \subseteq made'
  PROVE  ChallengeInv'
<1>1. ASSUME NEW c \in Challenge
      PROVE  /\ request[c] \in Request /\ RequestInv(c, request[c])
             /\ Watched(c) /\ Kept(c, request[c], Due(c))
  BY RequestsHave
<1>2. ASSUME NEW c \in Challenge
      PROVE  Watched(c)' /\ Kept(c, request'[c], Due(c)')
  <2>1. request'[c].at = "walk" => Known(c)
    BY <1>1 DEF Watched
  <2>2. Attested(c, request'[c], ever[c] \cup Vouching(c)')
    BY <1>1 DEF Watched, Attested
  <2>3. /\ Watched(c)'
        /\ request[c].at # "new" => Due(c)' \subseteq Owed(c, request'[c])
    BY <2>1, <2>2, Observed DEF Arrives
  <2>4. Kept(c, request'[c], Due(c)')
    <3>1. CASE request[c].at = "new"
      BY <3>1 DEF Kept
    <3>2. CASE request[c].at # "new"
      BY <1>1, <2>3, <3>2, KeptFewer DEF Due
    <3> QED BY <3>1, <3>2
  <2> QED BY <2>3, <2>4 DEF Due
<1>3. (\A c \in Challenge : RequestInv(c, request[c]))'
  BY <1>1
<1>4. (\A c \in Challenge : Watched(c) /\ Kept(c, request[c], Due(c)))'
  BY <1>2
<1>5. (/\ steady \in [Challenge -> SUBSET Jar]
        /\ ever \in [Challenge -> SUBSET Jar])'
  BY ObservedTypes DEF ChallengeInv
<1>6. request' \in [Challenge -> Request]
  BY DEF ChallengeInv
<1> QED BY <1>3, <1>4, <1>5, <1>6 DEF ChallengeInv

LEMMA FilesChangeInv ==
  ASSUME ChallengeInv, Observe, FilesChange
  PROVE  ChallengeInv'
<1>1. FilesInv /\ NoDir \notin Dir /\ Dir \cap Jar = {} /\ Sandbox \subseteq Dir
      /\ \A s \in Sandbox : Parent[s] = NoDir
  BY ChallengeAssumption DEF ChallengeInv
<1>2. ASSUME NEW s \in Sandbox, MakeSandbox(s)
      PROVE  FilesInv' /\ request' = request /\ made \subseteq made'
  BY <1>1, <1>2 DEF MakeSandbox, FilesInv, Present
<1>3. ASSUME NEW d \in Dir, MakeDir(d)
      PROVE  FilesInv' /\ request' = request /\ made \subseteq made'
  BY <1>1, <1>3 DEF MakeDir, FilesInv, Present
<1>4. ASSUME NEW d \in Dir, RemoveDir(d)
      PROVE  FilesInv' /\ request' = request /\ made \subseteq made'
  <2>1. \A n \in Node : Present(n) => Parent[n] # d
    <3>1. \A n \in Node : Present(n) /\ Parent[n] = d => n \in Entries(d)
      BY <1>1 DEF Present, Entries, FilesInv
    <3> QED BY <1>4, <3>1 DEF RemoveDir
  <2>2. /\ dirs' = dirs \ {d} /\ \A n : Present(n)' => Present(n)
        /\ UNCHANGED <<content, made, writes, server, request>>
    BY <1>4 DEF RemoveDir, Present
  <2> QED BY <1>1, <2>1, <2>2 DEF FilesInv
<1>5. ASSUME NEW f \in Jar, RemoveFile(f)
      PROVE  FilesInv' /\ request' = request /\ made \subseteq made'
  <2>1. content' \in [Jar -> Hash \cup {Absent}] /\ request' = request
        /\ UNCHANGED <<dirs, made, writes, server>>
        /\ \A n : Present(n)' => Present(n)
    BY <1>1, <1>5 DEF RemoveFile, FilesInv, Present
  <2> QED BY <1>1, <2>1 DEF FilesInv
<1>6. ASSUME NEW f \in Jar, Write(f)
      PROVE  FilesInv' /\ request' = request /\ made \subseteq made'
  <2>1. content' \in [Jar -> Hash \cup {Absent}] /\ request' = request
        /\ UNCHANGED <<dirs, made, server>> /\ Parent[f] \in dirs
        /\ \A n : Present(n)' => Present(n) \/ n = f
    BY <1>1, <1>6 DEF Write, FilesInv, Present
  <2>2. writes' \in 0..MaxWrites
    BY <1>1, <1>6, ChallengeAssumption DEF Write, FilesInv
  <2> QED BY <1>1, <2>1, <2>2 DEF FilesInv
<1> QED BY <1>2, <1>3, <1>4, <1>5, <1>6, RequestsStay DEF FilesChange

LEMMA InitInv == Init => ChallengeInv
<1> SUFFICES ASSUME Init PROVE ChallengeInv
  OBVIOUS
<1>1. FilesInv
  <2>1. /\ Parent[WhitelistDir] = NoDir /\ WhitelistDir \notin Sandbox
        /\ WhitelistDir \in Dir /\ MaxWrites \in Nat
    BY ChallengeAssumption
  <2> QED BY <2>1 DEF Init, FilesInv, Present
<1>2. ASSUME NEW c \in Challenge
      PROVE  RequestInv(c, Fresh)
  <2>1. /\ Fresh.at = "new" /\ Fresh.records = <<>> /\ Fresh.found = {}
        /\ Fresh.reading = {} /\ Fresh.stating = {}
        /\ Fresh.pending = [d \in Dir |-> 0]
        /\ Fresh.results = [d \in Dir |-> {}]
    BY DEF Fresh
  <2>2. Fresh \in Request
    BY DEF Fresh, Request
  <2>3. Live(Fresh) = {}
    BY <2>1 DEF Live
  <2>4. Inside(c, Fresh) /\ Rooted(c, Fresh) /\ Audited(Fresh)
    BY <2>1, <2>3 DEF Inside, Rooted, Audited
  <2> QED BY <2>2, <2>3, <2>4, NoCallsCount DEF RequestInv
<1>3. request \in [Challenge -> Request]
  BY <1>2 DEF Init, RequestInv
<1>4. steady \in [Challenge -> SUBSET Jar] /\ ever \in [Challenge -> SUBSET Jar]
  BY DEF Init, Vouching
<1>5. ASSUME NEW c \in Challenge
      PROVE  RequestInv(c, request[c]) /\ Watched(c)
             /\ Kept(c, request[c], Due(c))
  <2>1. request[c] = Fresh /\ Fresh.at = "new" /\ steady[c] = {}
    BY DEF Init, Fresh
  <2> QED BY <1>2, <1>4, <2>1 DEF Watched, Kept, Attested
<1> QED BY <1>1, <1>3, <1>4, <1>5 DEF ChallengeInv

\* The observations made in a step agree with it, whoever takes it.
LEMMA StepInv ==
  ASSUME ChallengeInv, Observe,
         \/ \E c \in Challenge : Ask(c) \/ Callback(c)
         \/ Exit \/ FilesChange
  PROVE  ChallengeInv'
BY AskInv, SandboxStatInv, ReaddirInv, EntryStatInv, ReadFileInv, Sha1ReadyInv,
   NextTickInv, ExitInv, FilesChangeInv DEF Callback

LEMMA Unobserved ==
  ASSUME ChallengeInv, UNCHANGED vars
  PROVE  ChallengeInv'
BY DEF ChallengeInv, FilesInv, Watched, Due, Owed, Known, Vouching, Present,
       vars, fileVars, observed

LEMMA ChallengeInvariant == Spec => []ChallengeInv
<1>1. ChallengeInv /\ [Next]_vars => ChallengeInv'
  BY StepInv, Unobserved DEF Next
<1> QED BY <1>1, InitInv, PTL DEF Spec

-----------------------------------------------------------------------------
(* The theorems.                                                           *)

LEMMA InvImplies ==
  ChallengeInv => /\ ChallengeTypeOK /\ WalkIsOver /\ AnswerIsAudited
                  /\ NokIsJustified /\ OkIsVouched
<1> SUFFICES ASSUME ChallengeInv
             PROVE  /\ ChallengeTypeOK /\ WalkIsOver /\ AnswerIsAudited
                    /\ NokIsJustified /\ OkIsVouched
  OBVIOUS
<1>1. ChallengeTypeOK
  BY DEF ChallengeInv, FilesInv, ChallengeTypeOK
<1>2. ASSUME NEW c \in Challenge PROVE RequestInv(c, request[c])
  BY DEF ChallengeInv
<1>3. WalkIsOver
  BY <1>2 DEF RequestInv, Rooted, Live, WalkIsOver, Answers
<1>4. AnswerIsAudited
  BY <1>2 DEF RequestInv, Audited, AnswerIsAudited
<1>5. NokIsJustified
  BY DEF ChallengeInv, Kept, Due, Owed, NokIsJustified
<1>6. OkIsVouched
  BY DEF ChallengeInv, Watched, Attested, OkIsVouched
<1> QED BY <1>1, <1>3, <1>4, <1>5, <1>6

\* The route and the files it reads are well typed; no count of entries that
\* are not done is ever negative.
THEOREM ChallengeTypeCorrect == Spec => []ChallengeTypeOK
BY ChallengeInvariant, InvImplies, PTL

\* When files are hashed, and when the answer is given, every call of readdir
\* and stat has returned, whatever the tree and the order of the callbacks.
THEOREM WalkEndsOnce == Spec => []WalkIsOver
BY ChallengeInvariant, InvImplies, PTL

\* Each answer has its record, once, and a request without an answer has none,
\* also where the server ends in between.
THEOREM AnswersAreAudited == Spec => []AnswerIsAudited
BY ChallengeInvariant, InvImplies, PTL

\* A jar that vouches for the hash from the arrival of the request to its
\* answer is found, wherever it lies and whatever else changes, unless one of
\* the two directories could not be listed or a directory passed for a file.
THEOREM NokMeansNone == Spec => []NokIsJustified
BY ChallengeInvariant, InvImplies, PTL

\* OK is said of a jar that lay in the sandbox of that user and token or in the
\* whitelist, with that hash, at some moment since the request came, though the
\* file may have changed between its reading and the answer.
THEOREM OkMeansVouched == Spec => []OkIsVouched
BY ChallengeInvariant, InvImplies, PTL

=============================================================================

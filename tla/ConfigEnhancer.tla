--------------------------- MODULE ConfigEnhancer ---------------------------
(***************************************************************************)
(* nodejs-client/lib/config: the configuration of a recipe is parsed and   *)
(* each $(...) in it replaced, by what the user answers or, for $(@name),  *)
(* by the contents of a file.  enhanceConfig walks the object with a stack *)
(* of its own, because it goes on from the callback of a prompt.           *)
(*                                                                         *)
(* A configuration is a tree of numbered values.  What is a question is    *)
(* decided on String(value): an array whose first text begins with "$("    *)
(* and whose last one ends with ")" is one question as well.               *)
(***************************************************************************)
EXTENDS Naturals, Sequences

CONSTANTS Trees,  \* configurations: the parent and the kind of each value
          Size    \* how many values they have

Node == 1..Size
Root == 1
Leaf == {"plain",   \* text or number without marker
         "ask",     \* "$(What is it?)"
         "file",    \* "$(@name)"
         "option",  \* "$(-name)"
         "opening", \* "$(What"
         "closing"} \* "is it?)"
Kind == Leaf \cup {"object", "array", "null"}

\* The values of a tree are numbered so that each comes after the one it is in.
ASSUME EnhancerAssumption ==
  /\ Size \in Nat \ {0}
  /\ \A t \in Trees :
       /\ t.kind \in [Node -> Kind]
       /\ t.parent \in [Node -> 0..Size]
       /\ \A n \in Node :
            IF n = Root THEN t.parent[n] = 0
            ELSE /\ t.parent[n] \in 1..(n - 1)
                 /\ t.kind[t.parent[n]] \in {"object", "array"}

VARIABLES
  tree,     \* the configuration
  at,       \* what the enhancer waits for, or how it ended
  stack,    \* the objects it is in, with the keys that are left of each
  value,    \* what each value has been replaced by
  asked,    \* the questions the user was asked, in order
  resumed   \* stdin has been resumed and not paused again

enhancerVars == <<tree, at, stack, value, asked, resumed>>

Children(n) == {m \in Node : tree.parent[m] = n}
Last(S) == CHOOSE n \in S : \A m \in S : m <= n
First(S) == CHOOSE n \in S : \A m \in S : n <= m

\* The text that String(value) begins with and ends with; 0 if it is none of
\* the configuration.
Begins[n \in Node] ==
  CASE tree.kind[n] = "array" /\ Children(n) # {} -> Begins[First(Children(n))]
    [] tree.kind[n] \in Leaf -> n
    [] OTHER -> 0
Ends[n \in Node] ==
  CASE tree.kind[n] = "array" /\ Children(n) # {} -> Ends[Last(Children(n))]
    [] tree.kind[n] \in Leaf -> n
    [] OTHER -> 0

Whole == {"ask", "file", "option"}

Question(n) ==
  /\ Begins[n] # 0 /\ tree.kind[Begins[n]] \in Whole \cup {"opening"}
  /\ Ends[n] # 0 /\ tree.kind[Ends[n]] \in Whole \cup {"closing"}

\* /\$\(.*\)/ on the text of the file, line by line.
Marked ==
  \/ \E n \in Node : tree.kind[n] \in Whole
  \/ \E n, m \in Node : tree.kind[n] = "opening" /\ tree.kind[m] = "closing"

EnhancerTypeOK ==
  /\ tree \in Trees
  /\ at \in {"read", "enhance", "prompt", "stuck", "silent", "failed", "done"}
  /\ stack \in Seq([node : Node, keys : SUBSET Node])
  /\ value \in [Node -> {"same", "answer", "contents"}]
  /\ asked \in Seq(Node)
  /\ resumed \in BOOLEAN

EnhancerInit ==
  /\ tree \in Trees
  /\ at = "read"
  /\ stack = <<>>
  /\ value = [n \in Node |-> "same"]
  /\ asked = <<>>
  /\ resumed = FALSE

Element(n) == [node |-> n, keys |-> Children(n)]
Top == stack[Len(stack)]
Pop == SubSeq(stack, 1, Len(stack) - 1)

\* Slip: the key stays on the element until its value is done.
KeysKept(k) == stack
KeyPopped(k) == Pop \o <<[Top EXCEPT !.keys = @ \ {k}]>>

\* Config.parse and ConfigEnhancer.process.  A file without marker is used as it
\* is; `opening` and `closing` may be on different lines.
Parse ==
  /\ at = "read"
  /\ \/ at' = "failed" /\ UNCHANGED stack
     \/ /\ \A n \in Node : tree.kind[n] \notin Whole
        /\ at' = "done" /\ UNCHANGED stack
     \/ /\ Marked
        /\ tree.kind[Root] \in {"object", "array"}
        /\ at' = "enhance"
        /\ stack' = <<Element(Root)>>
  /\ UNCHANGED <<tree, value, asked, resumed>>

Popped ==
  /\ IF stack = <<>> THEN at' = "done" /\ resumed' = FALSE /\ UNCHANGED stack
                     ELSE at' = at /\ stack' = Pop /\ UNCHANGED resumed
  /\ UNCHANGED <<tree, value, asked>>

\* A file that cannot be read throws, in the first turn into the try of
\* `process`, later into the logger: the client exits with 1 either way.
Replace(k, kind) ==
  /\ stack' = KeyPopped(k)
  /\ \/ /\ kind = "option"
        /\ at' = "stuck"
        /\ UNCHANGED <<value, asked, resumed>>
     \/ /\ kind = "file"
        /\ \/ value' = [value EXCEPT ![k] = "contents"] /\ at' = at
           \/ at' = "failed" /\ UNCHANGED value
        /\ UNCHANGED <<asked, resumed>>
     \/ /\ kind \in {"ask", "opening"}
        /\ at' = "prompt" /\ resumed' = TRUE
        /\ asked' = Append(asked, k)
        /\ UNCHANGED value

\* Slip: arrays are not looked into.
DescendIntoObjects(k) ==
  /\ UNCHANGED <<value, asked, resumed>>
  /\ IF tree.kind[k] = "object"
     THEN stack' = KeyPopped(k) \o <<Element(k)>> /\ at' = at
     ELSE stack' = KeyPopped(k) /\ at' = at

\* Object.keys(null) throws.
Descend(k) ==
  /\ UNCHANGED <<value, asked, resumed>>
  /\ \/ /\ tree.kind[k] \in {"object", "array"}
        /\ stack' = KeyPopped(k) \o <<Element(k)>>
        /\ at' = at
     \/ /\ tree.kind[k] = "null"
        /\ at' = "failed" /\ UNCHANGED stack
     \/ /\ tree.kind[k] \in Leaf
        /\ stack' = KeyPopped(k)
        /\ at' = at

\* One call of enhanceConfig.
EnhanceConfig ==
  /\ at = "enhance"
  /\ IF stack = <<>> \/ Top.keys = {} THEN Popped
     ELSE LET k == Last(Top.keys) IN
          /\ IF Question(k) THEN Replace(k, tree.kind[Begins[k]])
                            ELSE Descend(k)
          /\ UNCHANGED tree

\* setValue, the callback of program.prompt.
Answer ==
  /\ at = "prompt"
  /\ value' = [value EXCEPT ![asked[Len(asked)]] = "answer"]
  /\ at' = "enhance"
  /\ UNCHANGED <<tree, stack, asked, resumed>>

\* Nothing is outstanding: Node ends the process, with status 0.  A resumed
\* stdin keeps it until the end of the input.
NothingLeft == at = "stuck" /\ ~resumed
ProcessEnds ==
  /\ at \in {"prompt", "stuck"}
  /\ at' = "silent"
  /\ UNCHANGED <<tree, stack, value, asked, resumed>>

EnhancerNext == Parse \/ EnhanceConfig \/ Answer \/ ProcessEnds

-----------------------------------------------------------------------------

\* The values that a value lies in, without itself.
Above[n \in Node] == IF n = Root THEN {}
                     ELSE {tree.parent[n]} \cup Above[tree.parent[n]]

Taken(n) == \E m \in Above[n] : value[m] # "same"

\* No question is left in the configuration, however deep it lies, and nothing
\* else has been replaced.
NoQuestionLeft ==
  \A n \in Node :
    /\ tree.kind[n] \in Whole => value[n] # "same" \/ Taken(n)
    /\ value[n] = "answer" => Question(n)
    /\ value[n] = "contents" => tree.kind[Begins[n]] = "file"

\* The user is asked each question once, and nothing about what an answer has
\* replaced already (config.js:74-103).
AskedOnce ==
  \A i, j \in DOMAIN asked :
    i < j => asked[i] # asked[j] /\ asked[i] \notin Above[asked[j]]

=============================================================================

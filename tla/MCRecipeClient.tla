--------------------------- MODULE MCRecipeClient ---------------------------
(***************************************************************************)
(* Instances of RecipeClient for TLC: every configuration of a size.       *)
(***************************************************************************)
EXTENDS RecipeClient

AllTrees ==
  {t \in [kind : [Node -> Kind],
          parent : {p \in [Node -> 0..(Size - 1)] :
                      p[1] = 0 /\ \A n \in 2..Size : p[n] \in 1..(n - 1)}] :
     \A n \in 2..Size : t.kind[t.parent[n]] \in {"object", "array"}}
=============================================================================

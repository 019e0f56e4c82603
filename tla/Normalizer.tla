----------------------------- MODULE Normalizer -----------------------------
(***************************************************************************)
(* internal/norm on what SchemaIR compiles, and what Normalize leaves      *)
(* behind and costs, which recursive definitions say.                      *)
(***************************************************************************)
EXTENDS SchemaIR, NormalizeLoop

RECURSIVE IsNormal(_)
IsNormal(e) ==
  CASE e[1] \in {"all", "anyOf", "exactlyOne"} ->
         /\ Len(e[2]) >= 2
         /\ Are(e[2], "never") = {}
         /\ Repeated(e[2]) = {}
         /\ e[1] = "all" => Are(e[2], "all") \cup Are(e[2], "any") = {}
         /\ e[1] = "anyOf" => /\ Are(e[2], "any") = {}
                              /\ \A i \in Are(e[2], "anyOf") : e[2][i][3] # <<>>
         /\ \A i \in DOMAIN e[2] : IsNormal(e[2][i])
    [] e[1] = "not"   -> e[2][1] \notin {"any", "never", "not"} /\ IsNormal(e[2])
    [] e[1] \in {"shape", "items"} -> LET parts == Members(e)
                                      IN  \A i \in DOMAIN parts : IsNormal(parts[i])
    [] OTHER          -> TRUE

(* What the planner builds on: at the fixpoint no trivial, repeated or     *)
(* mergeable operand is left anywhere outside a `contains`, whichever rule *)
(* produced the expression last and whether or not there was budget left.  *)
NormalAtFixpoint == phase = "fixpoint" => IsNormal(expr)

(* "normally never reached" (normalize.go:18-21): the loop ends by itself  *)
(* before the net of 64 passes, so no two rules undo each other.           *)
NeverGivesUp == phase # "gave up"

RECURSIVE Leaves(_, _)
Leaves(e, d) ==
  LET Over(es) == IF es = <<>> THEN 1
                  ELSE FoldLeft(LAMBDA n, x : n + Leaves(x, d), 0, es)
  IN  CASE e[1] \in {"all", "anyOf", "exactlyOne"} -> Over(e[2])
        [] e[1] = "not"      -> Leaves(e[2], d)
        [] e[1] \in {"shape", "items"} -> Over(Members(e))
        [] e[1] = "contains" -> Leaves(d, d)
        [] OTHER             -> 1

(* "distribution is the sole rule that can duplicate sub-expressions, so   *)
(* it is the only one metered" (normalize.go:28-31): a pass that spends    *)
(* nothing leaves no more leaves than there were.                          *)
GrowsOnlyByDistribution ==
  [][budget' = budget => Leaves(expr', detail') <= Leaves(expr, detail)]_vars
=============================================================================

------------------------------ MODULE Denotation ------------------------------
(***************************************************************************)
(* internal/ir: what an expression stands for and its abstract kinds, one  *)
(* level at a time.  The operators that recurse are parameters, and what   *)
(* each is to be is a definition named ...By, which a configuration gives  *)
(* it as its value and a proof unfolds by an equation.                     *)
(***************************************************************************)
EXTENDS Expressions

CONSTANTS
  PureKinds(_),      (* pureKindRestriction                                *)
  Kinds(_),          (* ir.Kinds                                           *)
  Accepts(_, _, _)   (* expression, cell and value                         *)

(* A set of kinds that says all there is to a domain, if it does.  Mutant  *)
(* of Unrefined: a numeric domain is no refinement.                        *)
UnrefinedAnyDomain(e) == {e[2]}

Unrefined(e) == IF e[3] = "AnyNumber" THEN {e[2]} ELSE {}

(* pureKindRestriction, as a set of at most one kind set.                  *)
PureKindsBy(e) ==
  LET alone == Len(e[2]) = 1
  IN  CASE e[1] = "any"   -> {AllKinds}
        [] e[1] = "never" -> {{}}
        [] e[1] = "kinds" -> Unrefined(e)
        [] e[1] = "all"   -> IF alone THEN PureKinds(e[2][1]) ELSE {}
        [] OTHER          -> {}

KindsBy(e) ==
  LET parts == {Kinds(e[2][i]) : i \in DOMAIN e[2]}
  IN  CASE e[1] = "never"   -> {}
        [] e[1] = "kinds"   -> e[2]
        [] e[1] = "literal" -> {KindOf(e[2])}
        [] e[1] = "ref"     -> e[3]
        [] e[1] = "all"     -> Common(parts)
        [] e[1] \in {"anyOf", "exactlyOne"} -> UNION parts
        [] e[1] = "not"     -> AllKinds \ UNION PureKinds(e[2])
        [] OTHER            -> AllKinds

(* The expressions that a shape, or what is said of items, holds, in the   *)
(* order they are met.                                                     *)
Members(e) ==
  IF e[1] = "items" THEN e[2] \o e[3]
  ELSE [i \in DOMAIN e[2] |-> e[2][i][2]] \o [i \in DOMAIN e[3] |-> e[3][i][2]] \o e[4]

(* Which of them speak of the member called n: those declared under the    *)
(* name or a pattern it matches, or else the rest; and which of the        *)
(* element at j.                                                           *)
Governing(e, n) ==
  LET declared == {i \in DOMAIN e[2] : e[2][i][1] = n}
      patterned == {Len(e[2]) + i : i \in {k \in DOMAIN e[3] : n \in Patterns[e[3][k][1]].matches}}
  IN  IF declared \cup patterned # {} THEN declared \cup patterned
      ELSE {Len(e[2]) + Len(e[3]) + i : i \in DOMAIN e[4]}

GoverningAt(e, j) == IF j <= Len(e[2]) THEN {j} ELSE {Len(e[2]) + i : i \in DOMAIN e[3]}

(* The values of an expression, d being the cell of `contains`; SchemaIR   *)
(* adds those that are looked up.                                          *)
AcceptsBy(e, d, v) ==
  CASE e[1] = "any"        -> TRUE
    [] e[1] = "never"      -> FALSE
    [] e[1] = "kinds"      -> KindOf(v) \in e[2] /\
                                (KindOf(v) = "number" /\ e[3] = "IntegerOnly" => IsInteger(v))
    [] e[1] = "literal"    -> v = e[2]
    [] e[1] = "minimum"    -> KindOf(v) = "number" => v[2] >= e[2]
    [] e[1] = "all"        -> \A i \in DOMAIN e[2] : Accepts(e[2][i], d, v)
    [] e[1] = "anyOf"      -> \E i \in DOMAIN e[2] : Accepts(e[2][i], d, v)
    [] e[1] = "exactlyOne" -> Cardinality({i \in DOMAIN e[2] : Accepts(e[2][i], d, v)}) = 1
    [] e[1] = "not"        -> ~ Accepts(e[2], d, v)
    [] e[1] = "contains"   -> KindOf(v) = "array" => \E i \in DOMAIN v[2] : Accepts(d, d, v[2][i])
    [] e[1] = "shape"      -> KindOf(v) = "object" =>
                                \A n \in DOMAIN v[2] : \A i \in Governing(e, n) :
                                  Accepts(Members(e)[i], d, v[2][n])
    [] e[1] = "items"      -> KindOf(v) = "array" =>
                                \A j \in DOMAIN v[2] : \A i \in GoverningAt(e, j) :
                                  Accepts(Members(e)[i], d, v[2][j])
=============================================================================

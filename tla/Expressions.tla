---------------------------- MODULE Expressions ----------------------------
(***************************************************************************)
(* internal/ir: values, and the expressions that stand for sets of them.   *)
(*                                                                         *)
(* A value is <<kind, content>>: numbers count halves, so that the odd     *)
(* ones have a fraction; an array is a sequence of values, an object a     *)
(* function from some of the property names.                               *)
(*                                                                         *)
(* An expression is a tuple headed by the name of its Go type; a predicate *)
(* is headed by its keyword.  In <<"never", why>>, why says whether        *)
(* Contradiction is set; the last component of a union is <<>> or <<d>>,   *)
(* its discriminator.  `contains` holds its sub-schema through a pointer,  *)
(* to the one cell that the last parameter but one of Accepts gives.       *)
(***************************************************************************)
EXTENDS Integers, Sequences, FiniteSets

CONSTANT
  Patterns   (* the regular expressions, by name: what each matches, and   *)
             (* whether the engine can tell                                *)

AllKinds == {"null", "boolean", "number", "string", "array", "object"}

Common(Ks) == {x \in AllKinds : \A ks \in Ks : x \in ks}

KindOf(v) == v[1]

IsInteger(v) == KindOf(v) = "number" /\ v[2] % 2 = 0

Guard(e) ==
  CASE e[1] = "minimum"  -> {"number"}
    [] e[1] = "pattern"  -> {"string"}
    [] e[1] = "contains" -> {"array"}
    [] e[1] = "required" -> {"object"}

(* ecmaregex.MatchString, of a string or of a property name.               *)
MatchString(pattern, s) ==
  CASE ~ Patterns[pattern].decided -> "Unknown"
    [] Patterns[pattern].decided /\ s \in Patterns[pattern].matches -> "Match"
    [] OTHER -> "NoMatch"

IsPredicate(e) == e[1] \in {"minimum", "pattern", "contains", "required"}
=============================================================================

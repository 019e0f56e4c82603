------------------------------ MODULE SchemaIR ------------------------------
(***************************************************************************)
(* internal/ir: the semantic expressions, ir.Compile that produces them    *)
(* from a schema, and their abstract kinds; next to JSON Schema's own      *)
(* meaning of a schema, stated from the keywords and not from the          *)
(* expressions.                                                            *)
(*                                                                         *)
(* A schema is the sequence of its keywords in the order Compile looks at  *)
(* them; the boolean schemas are <<<<"always", b>>>>.  Of keywords that    *)
(* differ only in the test they make, one stands for all.  `properties`    *)
(* holds what is declared, the patterns, and <<>> or <<s>> for the rest    *)
(* (patternProperties, additionalProperties), `items` likewise.  A union   *)
(* holds <<>> or <<d>>, its discriminator.                                 *)
(***************************************************************************)
EXTENDS Denotation

CONSTANT Defs   (* the referable schemas, by name                          *)

-----------------------------------------------------------------------------
(* What JSON Schema says.                                                  *)

(* The schemas a `properties` puts on the member called n, and an `items`  *)
(* on the i-th element.                                                    *)
MemberSchemas(k, n) ==
  LET own == SelectSeq(k[2], LAMBDA p : p[1] = n)
             \o SelectSeq(k[3], LAMBDA r : n \in Patterns[r[1]].matches)
  IN  IF own = <<>> THEN k[4] ELSE [i \in DOMAIN own |-> own[i][2]]

ElementSchemas(k, i) == IF i <= Len(k[2]) THEN <<k[2][i]>> ELSE k[3]

RECURSIVE Valid(_, _, _), Holds(_, _, _)

Valid(s, inner, v) == \A i \in DOMAIN s : Holds(s[i], inner, v)

Matches(ss, inner, v) == {i \in DOMAIN ss : Valid(ss[i], inner, v)}

Holds(k, inner, v) ==
  CASE k[1] = "always"     -> k[2]
    [] k[1] = "ref"        -> Valid(Defs[k[2]], inner, v)
    [] k[1] = "type"       -> KindOf(v) \in k[2] \/ ("integer" \in k[2] /\ IsInteger(v))
    [] k[1] = "const"      -> v = k[2]
    [] k[1] = "enum"       -> \E i \in DOMAIN k[2] : v = k[2][i]
    [] k[1] = "allOf"      -> Matches(k[2], inner, v) = DOMAIN k[2]
    [] k[1] = "anyOf"      -> Matches(k[2], inner, v) # {}
    [] k[1] = "oneOf"      -> Cardinality(Matches(k[2], inner, v)) = 1
    [] k[1] = "not"        -> ~ Valid(k[2], inner, v)
    [] k[1] = "if"         -> Valid(IF Valid(k[2], inner, v) THEN k[3] ELSE k[4], inner, v)
    [] k[1] = "minimum"    -> KindOf(v) = "number" => v[2] >= k[2]
    [] k[1] = "contains"   -> KindOf(v) = "array" =>
                                \E i \in DOMAIN v[2] : Valid(inner, inner, v[2][i])
    [] k[1] = "required"   -> KindOf(v) = "object" => k[2] \in DOMAIN v[2]
    [] k[1] = "pattern"    -> KindOf(v) = "string" => v[2] \in Patterns[k[2]].matches
    [] k[1] = "properties" -> KindOf(v) = "object" =>
                                \A n \in DOMAIN v[2] :
                                  Matches(MemberSchemas(k, n), inner, v[2][n])
                                    = DOMAIN MemberSchemas(k, n)
    [] k[1] = "items"      -> KindOf(v) = "array" =>
                                \A i \in DOMAIN v[2] :
                                  Matches(ElementSchemas(k, i), inner, v[2][i])
                                    = DOMAIN ElementSchemas(k, i)
    [] k[1] = "dependent"  -> KindOf(v) = "object" /\ k[2] \in DOMAIN v[2]
                                => Valid(k[3], inner, v)

-----------------------------------------------------------------------------
(* Kind summaries of reference targets (refkinds.go), and Compile.         *)

LiteralKinds(vs) == {KindOf(vs[i]) : i \in DOMAIN vs}
TypeKinds(names) == {IF t = "integer" THEN "number" ELSE t : t \in names}

RECURSIVE DefKinds(_, _), SchemaKinds(_, _)

UnionKinds(ss, inProg) == UNION {SchemaKinds(ss[i], inProg) : i \in DOMAIN ss}

KeywordKinds(k, inProg) ==
  CASE k[1] = "always" -> IF k[2] THEN AllKinds ELSE {}
    [] k[1] = "ref"    -> DefKinds(k[2], inProg)
    [] k[1] = "type"   -> TypeKinds(k[2])
    [] k[1] = "const"  -> {KindOf(k[2])}
    [] k[1] = "enum"   -> LiteralKinds(k[2])
    [] k[1] = "allOf"  -> Common({SchemaKinds(k[2][i], inProg) : i \in DOMAIN k[2]})
    [] k[1] \in {"anyOf", "oneOf"} -> UnionKinds(k[2], inProg)
    [] OTHER -> AllKinds

SchemaKinds(s, inProg) == Common({KeywordKinds(s[i], inProg) : i \in DOMAIN s})

(* kindAnalyzer.of: a reference back into a target in progress says        *)
(* nothing.                                                                *)
DefKinds(d, inProg) ==
  IF d \in inProg THEN AllKinds ELSE SchemaKinds(Defs[d], inProg \cup {d})

RECURSIVE Compile(_)

CompileAll(ss) == [i \in DOMAIN ss |-> Compile(ss[i])]

(* compileIfThenElse: the condition is compiled once and shared.           *)
CompileIf(condition, then, else) ==
  LET p == Compile(condition)
  IN  <<"anyOf", <<<<"all", <<p, Compile(then)>>>>,
                   <<"all", <<<<"not", p>>, Compile(else)>>>>>>, <<>>>>

CompileNamed(named) == [i \in DOMAIN named |-> <<named[i][1], Compile(named[i][2])>>]

CompileProperties(k) ==
  <<"shape", CompileNamed(k[2]), CompileNamed(k[3]), CompileAll(k[4])>>

CompileItems(k) == <<"items", CompileAll(k[2]), CompileAll(k[3])>>

(* compileDependentSchema: without the name, or with it and what it needs. *)
CompileDependent(name, s) ==
  LET has == <<"required", name>>
  IN  <<"anyOf", <<<<"not", has>>, <<"all", <<has, Compile(s)>>>>>>, <<>>>>

CompileKeyword(k) ==
  CASE k[1] = "ref"        -> <<"ref", k[2], DefKinds(k[2], {})>>
    [] k[1] = "type"       -> <<"kinds", TypeKinds(k[2]),
                                IF "integer" \in k[2] THEN "IntegerOnly" ELSE "AnyNumber">>
    [] k[1] = "const"      -> <<"literal", k[2]>>
    [] k[1] = "enum"       -> <<"anyOf", [i \in DOMAIN k[2] |-> <<"literal", k[2][i]>>], <<>>>>
    [] k[1] = "allOf"      -> <<"all", CompileAll(k[2])>>
    [] k[1] = "anyOf"      -> <<"anyOf", CompileAll(k[2]), k[3]>>
    [] k[1] = "oneOf"      -> <<"exactlyOne", CompileAll(k[2]), k[3]>>
    [] k[1] = "not"        -> <<"not", Compile(k[2])>>
    [] k[1] = "if"         -> CompileIf(k[2], k[3], k[4])
    [] k[1] = "properties" -> CompileProperties(k)
    [] k[1] = "items"      -> CompileItems(k)
    [] k[1] = "dependent"  -> CompileDependent(k[2], k[3])
    [] k[1] \in {"minimum", "pattern", "contains", "required"} -> k

Compile(s) ==
  IF s # <<>> /\ s[1][1] = "always"
  THEN IF s[1][2] THEN <<"any">> ELSE <<"never", FALSE>>
  ELSE <<"all", [i \in DOMAIN s |-> CompileKeyword(s[i])]>>

-----------------------------------------------------------------------------
(* The values an expression stands for: what Accepts is to be.             *)
SatisfiedBy(e, d, v) ==
  LET named == e[2]
  IN  CASE e[1] = "ref"      -> Valid(Defs[named], <<>>, v)
        [] e[1] = "required" -> KindOf(v) = "object" => named \in DOMAIN v[2]
        [] e[1] = "pattern"  -> KindOf(v) = "string" => v[2] \in Patterns[named].matches
        [] OTHER             -> AcceptsBy(e, d, v)
=============================================================================

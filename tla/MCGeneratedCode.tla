--------------------------- MODULE MCGeneratedCode ---------------------------
(***************************************************************************)
(* Documents as the planner plans them: a schema of every sort the types   *)
(* tell apart, alone and in every slot a Go type has; and two schemas that *)
(* recurse through each other, each by any slot, with a third outside.     *)
(***************************************************************************)
EXTENDS GeneratedCode, PlanBuilder

num(n) == <<"number", n>>
str == <<"string", "s">>
object(f) == <<"object", f>>
array(s) == <<"array", s>>
empty == object([x \in {} |-> str])
p(v) == object([x \in {"p"} |-> v])
s(v) == object([x \in {"s"} |-> v])

MCNames == <<"p", "q", "s">>
MCPatterns == [ps |-> [matches |-> {"p", "s"}, decided |-> TRUE]]

MCInstances ==
  {<<"null">>, <<"boolean", FALSE>>, num(0), num(1), num(2), num(4), str, <<"string", "">>, empty,
   p(str), p(num(1)), p(num(2)), p(<<"null">>), p(empty), p(p(empty)), p(s(num(1))), p(array(<<str>>)),
   s(num(1)), s(num(2)), s(str), object([x \in {"p", "q"} |-> str]), object([x \in {"p", "q"} |-> num(2)]),
   array(<<>>), array(<<str>>), array(<<num(1)>>), array(<<num(2)>>), array(<<str, num(1)>>),
   array(<<str, num(2)>>), array(<<array(<<>>), empty>>), array(<<s(num(1))>>), array(<<str, s(num(1))>>)}

K(k) == <<k>>
Ref(d) == K(<<"ref", d>>)
Text == K(<<"type", {"string"}>>)
Number == K(<<"type", {"number"}>>)
Properties(declared, rules, additional) == <<"properties", declared, rules, additional>>
Object(k) == <<<<"type", {"object"}>>, k>>
Array(k) == <<<<"type", {"array"}>>, k>>
OrNull(x) == K(<<"anyOf", <<x, K(<<"type", {"null"}>>)>>, <<>>>>)

(* Beside what is in a slot of an object, it declares s.                   *)
Slots == {"optional", "required", "nullable", "requiredNullable", "overflow", "pattern", "patterns",
          "additional", "variant", "items", "tuple", "rest", "alias"}

In(slot, x, beside) ==
  LET Declaring(y) == Properties(<<<<"p", y>>, <<"s", beside>>>>, <<>>, <<>>)
      Needed(k) == <<<<"type", {"object"}>>, <<"required", "p">>, k>>
  IN  CASE slot = "optional"   -> Object(Declaring(x))
        [] slot = "required"   -> Needed(Declaring(x))
        [] slot = "nullable"   -> Object(Declaring(OrNull(x)))
        [] slot = "requiredNullable" -> Needed(Declaring(OrNull(x)))
        [] slot = "overflow"   -> Object(Properties(<<<<"s", beside>>>>, <<>>, <<x>>))
        [] slot = "pattern"    -> Object(Properties(<<>>, <<<<"ps", x>>>>, <<K(<<"always", FALSE>>)>>))
        [] slot = "patterns"   -> Object(Properties(<<<<"s", beside>>>>, <<<<"ps", x>>>>, <<>>))
        [] slot = "additional" -> Object(Properties(<<>>, <<>>, <<x>>))
        [] slot = "variant"    -> Object(Declaring(K(<<"anyOf", <<x, Text>>, <<>>>>)))
        [] slot = "items"      -> Array(<<"items", <<>>, <<x>>>>)
        [] slot = "tuple"      -> Array(<<"items", <<x>>, <<K(<<"always", FALSE>>)>>>>)
        [] slot = "rest"       -> Array(<<"items", <<Text>>, <<x>>>>)
        [] slot = "alias"      -> x

AtLeast(n) == <<<<"type", {"number"}>>, <<"minimum", n>>>>

Tagged(k) == <<<<"type", {"object"}>>, <<"required", "p">>, Properties(<<<<"p", K(k)>>>>, <<>>, <<>>)>>

Pair == Array(<<"items", <<Text, Number>>, <<K(<<"always", FALSE>>)>>>>)

Shared ==
  [amount |-> <<<<"type", {"integer"}>>, <<"minimum", 2>>>>,
   tagged |-> Tagged(<<"const", str>>),
   closed |-> <<<<"type", {"object"}>>, <<"required", "p">>,
                Properties(<<<<"p", Text>>>>, <<>>, <<K(<<"always", FALSE>>)>>)>>,
   coin   |-> K(<<"enum", <<num(2), num(4)>>>>)]

(* Two that recurse, x by one slot and y by another, where s of y has a    *)
(* check or has none.                                                      *)
OfS(checked) == IF checked THEN AtLeast(2) ELSE Text
Recurring == {"x", "y"} \X Slots \X Slots \X BOOLEAN

Recurs(d) ==
  IF d[1] = "x" THEN In(d[2], Ref([d EXCEPT ![1] = "y"]), Text)
  ELSE In(d[3], Ref([d EXCEPT ![1] = "x"]), OfS(d[4]))

MCDefs == [d \in {<<n>> : n \in DOMAIN Shared} \cup Recurring |-> IF Len(d) = 1 THEN Shared[d[1]] ELSE Recurs(d)]

(* Of every sort.                                                          *)
Sorts ==
  {Text, Number, K(<<"type", {"boolean"}>>), K(<<"type", {"null"}>>), K(<<"always", TRUE>>), AtLeast(2),
   <<<<"type", {"integer"}>>, <<"minimum", 1>>>>, <<<<"type", {"integer"}>>, <<"minimum", 4>>>>,
   K(<<"minimum", 2>>), K(<<"type", {"integer", "null"}>>), K(<<"type", {"integer", "string"}>>),
   <<<<"type", {"number", "string"}>>, <<"minimum", 2>>>>, <<<<"type", {"number", "null"}>>, <<"minimum", 2>>>>,
   K(<<"const", str>>), K(<<"enum", <<num(2), num(4)>>>>), K(<<"enum", <<str, num(0)>>>>),
   K(<<"enum", <<<<"null">>, str>>>>), K(<<"enum", <<p(str), empty>>>>),
   Pair, K(<<"pattern", "ps">>), K(<<"not", Text>>), K(<<"required", "p">>),
   Ref(<<"amount">>), Ref(<<"tagged">>), Ref(<<"closed">>), Ref(<<"coin">>), OrNull(Ref(<<"amount">>)), OrNull(Ref(<<"closed">>)),
   K(<<"allOf", <<Ref(<<"amount">>), K(<<"minimum", 4>>)>>>>), Tagged(<<"const", str>>),
   K(<<"oneOf", <<Tagged(<<"const", str>>), Tagged(<<"const", num(2)>>)>>, <<>>>>),
   K(<<"anyOf", <<Text, AtLeast(2)>>, <<>>>>),
   K(<<"anyOf", <<Tagged(<<"type", {"string"}>>), Ref(<<"tagged">>)>>, <<>>>>)}

(* A document: a schema, and what it leads to.                             *)
PlanSchema(x) ==
  Build(Renormalize(Compile(x), [budget |-> renormalizeBudget, detail |-> Anything], maxFixpointIters).out,
        Fresh(Anything)).plan

Document(x) ==
  [d \in Closure({e[1] : e \in RefsOf(x, FALSE)}, TRUE) |-> PlanSchema(Defs[d])] @@ (<<"root">> :> PlanSchema(x))

Given ==
  Sorts \cup {In(slot, x, AtLeast(2)) : slot \in Slots, x \in Sorts}
  \cup {In(slot, Ref(d), Text) : slot \in {"optional", "items"}, d \in {r \in Recurring : r[1] = "x"}}

(* Where evaluating needs more than a plan can tell Go, none is generated. *)
Expressible(document) == \A d \in DOMAIN document : document[d].cap < Level.EvaluationStateValidation

MCDocuments == {document \in {Document(x) : x \in Given} : Expressible(document)}

(* A tuple in every slot.                                                  *)
MCNested == {Document(In(slot, Pair, Text)) : slot \in Slots}

(* Of the planner its operators alone are used: its variables stay put.    *)
Resting == <<schema, inner, expr, detail, budget, passes, phase>>

MCInit ==
  /\ GoInit
  /\ schema = <<>> /\ inner = <<>> /\ expr = <<>> /\ detail = <<>>
  /\ budget = 0 /\ passes = 0 /\ phase = ""

MCSpec == MCInit /\ [][GoNext /\ UNCHANGED Resting]_<<goVars, Resting>>
=============================================================================

----------------------------- MODULE MCNodeTree -----------------------------
(***************************************************************************)
(* Plans of up to three checks over every guard, so that a structure has   *)
(* bounds and required names beside it that may and may not be folded;     *)
(* every dispatch over literals that can and cannot be keyed; and two      *)
(* definitions that lead into one another.  The name \x01 is one that Go   *)
(* quotes in an escape JSON has not.                                       *)
(***************************************************************************)
EXTENDS NodeTree

num(n) == <<"number", n>>
str == <<"string", "s">>
object(f) == <<"object", f>>
empty == object([x \in {} |-> str])

MCPatterns == [ps   |-> [matches |-> {"p", "s"}, decided |-> TRUE],
               hard |-> [matches |-> {"q"}, decided |-> FALSE]]
MCGarbled == {"x01"}
MCNames == <<"p", "q", "x01">>

MCQuotable ==
  {<<"null">>, num(1), num(2), str,
   <<"array", <<>>>>, <<"array", <<num(2)>>>>, <<"array", <<str, str>>>>,
   empty, object([x \in {"p"} |-> num(2)]), object([x \in {"p"} |-> <<"null">>]),
   object([x \in {"q"} |-> num(1)]), object([x \in {"p", "q"} |-> str])}

MCInstances == MCQuotable \cup {object([x \in {"x01"} |-> num(1)])}

Leaf(checks) == PlanOf(<<"any">>, checks, <<"none">>, Level.DirectGoType)
Dispatching(d) == PlanOf(<<"any">>, <<>>, d, Level.StaticDispatch)

Numbers == Leaf(<<Asserting({"number"}, Nil)>>)
Integers == Leaf(<<Asserting({"number"}, Nil), Guarded({"number"}, <<"domain", "IntegerOnly">>)>>)
Texts == Leaf(<<Asserting({"string"}, <<"pattern", "ps">>)>>)
Named(name) == PlanOf(<<"any">>, <<>>, <<"literal", <<<<<<"string", name>>, AnyPlan>>>>>>, Level.StaticDispatch)

Prop(name, p, required, nullable) ==
  [name |-> name, plan |-> p, required |-> required, nullable |-> nullable]

Structure(fields, rules, additional) == <<"object", fields, rules, additional>>

Structures ==
  {Structure(<<Prop("p", Integers, TRUE, FALSE)>>, <<>>, <<>>),
   Structure(<<Prop("p", Numbers, FALSE, TRUE)>>, <<>>, <<NeverPlan>>),
   Structure(<<>>, <<<<"ps", Texts>>, <<"hard", Numbers>>>>, <<>>),
   Structure(<<>>, <<<<"ps", Numbers>>>>, <<Texts>>)}

Elements == {<<"array", <<Numbers>>, <<Texts>>>>, <<"array", <<Texts>>, <<>>>>}

(* On the guard of the structure, and on one of its own.                   *)
Counts(type, lo, hi) ==
  {Guarded(on, e) : on \in {{type}, AllKinds}, e \in {<<lo, 1>>, <<hi, 1>>}}

Beside ==
  Counts("object", "minProperties", "maxProperties") \cup
  {Guarded(on, <<"required", <<"p">>>>) : on \in {{"object"}, AllKinds}} \cup
  {Guarded({"object"}, <<"required", <<"q", "p">>>>), Guarded({"object"}, <<"minProperties", 2>>),
   Asserting({"object"}, <<"maxProperties", 1>>)}

Fused ==
  {<<x, Guarded({"object"}, s), y>> : s \in Structures, x \in Beside, y \in Beside} \cup
  {<<x, Guarded({"array"}, a), y>> :
     a \in Elements, x, y \in Counts("array", "minItems", "maxItems")} \cup
  {<<x, Guarded({"object"}, s), Guarded({"object"}, t)>> : s, t \in Structures, x \in Beside}

Plain ==
  {<<"nil">>, <<"pattern", "hard">>, <<"multipleOf", 2>>, <<"multipleOf", 0>>, <<"uniqueItems">>,
   <<"domain", "NonIntegerOnly">>,
   <<"dependent", "p", <<"q">>>>, <<"propertyNames", Texts>>, <<"propertyNames", Named("x01")>>, <<"contains", Numbers, 1, <<>>>>,
   <<"contains", Texts, 0, <<1>>>>, <<"shape", Numbers>>, <<"not", Numbers>>, <<"required", <<"q">>>>}

Tested == {<<g, h>> : g, h \in {Guarded(AllKinds, e) : e \in Plain} \cup
                              {Guarded({"array", "string"}, e) : e \in Plain}}

OneMember == object([x \in {"p"} |-> num(2)])
Branches == {Numbers, Texts, AnyPlan, Leaf(<<Guarded({"number"}, <<"minimum", 2>>)>>),
             Leaf(<<Asserting({"object"}, <<"required", <<"p">>>>)>>)}

Dispatches ==
  {<<"kind", "number" :> a @@ "object" :> b>> : a, b \in Branches} \cup
  {<<"literal", <<<<l, AnyPlan>>, <<m, a>>>>>> : l, m \in {num(2), str, <<"null">>, OneMember}, a \in {AnyPlan, Texts}} \cup
  {<<"property", "p", <<<<num(2), a>>, <<m, AnyPlan>>>>, "TagInferred">> : m \in {str, empty}, a \in Branches} \cup
  {<<"presence", "p", a, b>> : a, b \in Branches} \cup
  {<<"count", <<a, b, c>>, 1, n>> : a, b, c \in Branches, n \in {1, 3}}

(* Two definitions that reach one another through what they hold.          *)
Ref(d) == PlanOf(<<"reference", d>>, <<Guarded(AllKinds, <<"reference", d>>)>>, <<"none">>, Level.DirectGoType)

Node(d) == Leaf(<<Guarded({"object"}, Structure(<<Prop("p", d, FALSE, FALSE)>>, <<>>, <<NeverPlan>>))>>)
List(d) == Leaf(<<Asserting({"array"}, <<"array", <<>>, <<d>>>>)>>)

Knots ==
  {[root |-> r, defs |-> "a" :> x @@ "b" :> y @@ "c" :> z] :
     r \in {Ref("a"), List(Ref("b")), Dispatching(<<"count", <<Ref("a"), Ref("b")>>, 1, 1>>)},
     x \in {Node(Ref("b")), Node(Ref("a")), List(Ref("c"))},
     y \in {Texts, Node(Ref("a"))},
     z \in {Numbers, Ref("b"), Leaf(<<Guarded(AllKinds, <<"multipleOf", 0>>)>>)}}

(* The root of a schema with dynamic references: what it defines is not    *)
(* compiled, and what refers to nothing does not miss it.                  *)
Dynamic ==
  {[root |-> [p EXCEPT !.dynamic = TRUE], defs |-> "a" :> Texts @@ "b" :> Leaf(<<Guarded(AllKinds, <<"multipleOf", 0>>)>>)] :
     p \in {Integers, Texts, Node(Numbers), List(Numbers)}}

NoDefs == [x \in {} |-> AnyPlan]
MCInputs ==
  {[root |-> Leaf(cs), defs |-> NoDefs] : cs \in Fused \cup Tested} \cup
  {[root |-> Dispatching(d), defs |-> NoDefs] : d \in Dispatches} \cup
  Knots \cup Dynamic
=============================================================================

------------------------------ MODULE MCPlanner ------------------------------
(***************************************************************************)
(* Schemas up to three levels deep.  What the planner models exactly is    *)
(* combined in every way; what it has to widen (a recursive target under   *)
(* `not`, a pattern the engine cannot decide) is conjoined and put under   *)
(* anyOf, for where it is counted the planner rejects valid values, as     *)
(* PlannerRejects and the README say of each input left out here.          *)
(***************************************************************************)
EXTENDS Planner

num(n) == <<"number", n>>
str == <<"string", "s">>
object(f) == <<"object", f>>
empty == object([x \in {} |-> str])

K(k) == <<k>>
Properties(declared, rules, additional) == <<"properties", declared, rules, additional>>
Of(s) == Properties(<<<<"p", s>>>>, <<>>, <<>>)
AnObject == <<"type", {"object"}>>
Tagged(s) == <<AnObject, <<"required", "p">>, Of(K(s))>>

MCNames == <<"p", "q", "s">>
MCPatterns == [ps   |-> [matches |-> {"p", "s"}, decided |-> TRUE],
               hard |-> [matches |-> {"q"}, decided |-> FALSE]]

(* `wide` is planned wider than it is, and `veiled` leads to it.           *)
MCDefs ==
  [amount |-> <<<<"type", {"integer"}>>, <<"minimum", 1>>>>,
   tagged |-> Tagged(<<"const", str>>),
   node   |-> <<AnObject, Of(K(<<"ref", "node">>))>>,
   wide   |-> K(Properties(<<<<"q", K(<<"type", {"number"}>>)>>>>, <<<<"hard", K(<<"type", {"string"}>>)>>>>, <<>>)),
   veiled |-> K(Of(K(<<"ref", "wide">>)))]

MCValues ==
  {<<"null">>, <<"boolean", TRUE>>, num(0), num(1), num(2), str,
   <<"array", <<>>>>, <<"array", <<num(2)>>>>, <<"array", <<str, num(0)>>>>,
   empty, object([x \in {"p"} |-> num(2)]), object([x \in {"p"} |-> str]),
   object([x \in {"p"} |-> empty]), object([x \in {"p"} |-> <<"null">>]),
   object([x \in {"p", "q"} |-> str]), object([x \in {"q"} |-> num(1)]), object([x \in {"s"} |-> num(1)]),
   object([x \in {"p"} |-> object([y \in {"q"} |-> num(1)])])}

Literals == {K(<<"const", num(2)>>), K(<<"enum", <<str, num(0)>>>>)}

(* Exactly modelled, and its null told.                                    *)
Core ==
  {K(<<"type", {"number"}>>), K(<<"type", {"integer", "string"}>>), K(<<"minimum", 1>>),
   K(<<"enum", <<str, num(0)>>>>), K(<<"ref", "tagged">>), K(<<"required", "p">>),
   K(Of(K(<<"type", {"string", "null"}>>))), Tagged(<<"const", num(2)>>),
   K(<<"not", K(<<"required", "p">>)>>)}

Exact ==
  Core \cup Literals \cup
  {K(<<"always", FALSE>>), K(<<"ref", "amount">>), K(<<"ref", "node">>),
   K(Properties(<<<<"p", K(<<"type", {"string"}>>)>>>>, <<>>, <<K(<<"always", FALSE>>)>>)),
   K(Properties(<<>>, <<<<"ps", K(<<"type", {"number"}>>)>>>>, <<K(<<"type", {"string"}>>)>>)),
   K(<<"items", <<K(<<"type", {"string"}>>)>>, <<K(<<"minimum", 1>>)>>>>),
   Tagged(<<"const", str>>), K(<<"not", K(<<"type", {"number"}>>)>>),
   K(<<"not", K(<<"ref", "amount">>)>>), K(<<"pattern", "ps">>), K(<<"contains">>)}

(* Gaps the planner reports, and what a run approximates.                  *)
Open ==
  {K(<<"not", K(<<"ref", "node">>)>>), K(<<"not", K(<<"ref", "veiled">>)>>),
   K(<<"pattern", "hard">>), K(<<"not", K(<<"pattern", "hard">>)>>),
   K(Properties(<<>>, <<<<"hard", K(<<"type", {"number"}>>)>>>>, <<>>)),
   K(<<"ref", "wide">>), K(<<"ref", "veiled">>),
   K(<<"dependent", "p", K(Of(K(<<"type", {"number"}>>)))>>),
   K(<<"if", K(<<"required", "p">>), Tagged(<<"const", str>>), K(<<"required", "q">>)>>)}

AllPairs(S, T) == {K(<<"allOf", <<a, b>>>>) : a \in S, b \in T}
Unions(ops, S, T, disc) == {K(<<op, <<a, b>>, disc>>) : op \in ops, a \in S, b \in T}
Both == {"anyOf", "oneOf"}
Pairs(S, T) == AllPairs(S, T) \cup Unions(Both, S, T, <<>>)

(* No conjunction holds two literals, and no schema two cells.             *)
Held == {K(<<"contains">>)}
Paired ==
  schema \in Pairs(Exact, Exact) \ (AllPairs(Literals, Literals) \cup Pairs(Held, Held))

Opened ==
  /\ budget = MaxBudget
  /\ schema \in AllPairs(Exact, Open) \cup Unions({"anyOf"}, Open, Exact, <<>>)

(* A member admits null if its kinds say so.                               *)
NullTold(s) == "null" \in Kinds(Compile(s)) => Valid(s, <<>>, <<"null">>)

Nested ==
  /\ budget = MaxBudget
  /\ \/ \E g \in Pairs(Core, Exact) \ AllPairs(Literals, Literals) : schema = K(<<"not", g>>)
     \/ \E g \in Pairs(Core, Core) :
          \/ schema = K(<<"items", <<g>>, <<>>>>)
          \/ NullTold(g) /\ schema \in {K(Of(g)), K(Properties(<<>>, <<<<"ps", g>>>>, <<g>>))}

(* Declared discriminators, proven, asserted, and of no use.               *)
Ends ==
  {K(<<"ref", "tagged">>), Tagged(<<"const", num(2)>>), Tagged(<<"enum", <<num(2), num(1)>>>>),
   <<AnObject, Of(K(<<"const", num(2)>>))>>, K(<<"ref", "node">>), <<AnObject, <<"required", "p">>>>}

Mappings ==
  {<<>>, <<<<str, "tagged">>>>, <<<<num(2), "node">>, <<str, "tagged">>>>, <<<<num(1), "tagged">>>>}

Discriminated ==
  /\ budget = MaxBudget
  /\ \E m \in Mappings :
       \E u \in Unions(Both, Ends, Ends, <<[name |-> "p", mapping |-> m]>>) :
         schema \in {u, <<AnObject>> \o u}

Starting == inner = K(<<"type", {"number"}>>) /\ PlannerInit

MCInit == (Paired \/ Opened \/ Nested \/ Discriminated) /\ Starting
MCSpec == MCInit /\ [][PlannerNext]_plannerVars

(* Branches that tell each other apart by p, of objects and of anything.   *)
Untyped(n) == <<<<"required", "p">>, Of(K(<<"const", n>>))>>

RejectsInit ==
  /\ schema \in Unions(Both, Core \cup {Untyped(num(2))}, Core \cup {Untyped(str)}, <<>>)
  /\ Starting
RejectsSpec == RejectsInit /\ [][PlannerNext]_plannerVars
=============================================================================

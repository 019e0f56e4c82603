---------------------------- MODULE MCNormalizer ----------------------------
(***************************************************************************)
(* Schemas up to three levels deep.  The atoms restrict kinds with and     *)
(* without a numeric domain, name one value or two, bound numbers, look    *)
(* into arrays and objects, refer, and are trivial in both ways, so that   *)
(* every pair of them is equal, ordered, disjoint or merely overlapping.   *)
(***************************************************************************)
EXTENDS Normalizer

num(n) == <<"number", n>>
str == <<"string", "s">>
object(f) == <<"object", f>>
empty == object([x \in {} |-> str])

MCDefs ==
  [amount |-> <<<<"type", {"number"}>>, <<"minimum", 1>>>>,
   node   |-> <<<<"type", {"object"}>>,
                <<"properties", <<<<"p", <<<<"ref", "node">>>>>>>>, <<>>, <<>>>>>>]

MCPatterns == [ps |-> [matches |-> {"p", "s"}, decided |-> TRUE]]

MCValues ==
  {<<"null">>, <<"boolean", TRUE>>, num(0), num(1), num(2), str,
   <<"array", <<>>>>, <<"array", <<num(0)>>>>, <<"array", <<str, num(2)>>>>,
   empty, object([x \in {"p"} |-> num(0)]), object([x \in {"p"} |-> empty])}

K(k) == <<k>>
(* A discriminator that maps nothing.                                      *)
Tag == <<[name |-> "p", mapping |-> <<>>]>>
Group(op, ss, discriminator) == K(IF op = "allOf" THEN <<op, ss>> ELSE <<op, ss, discriminator>>)
Ops == {"allOf", "anyOf", "oneOf"}
Pairs(S, T) == {Group(op, <<a, b>>, <<>>) : op \in Ops, a \in S, b \in T}

Core == {K(<<"type", {"number"}>>), K(<<"type", {"integer"}>>), K(<<"minimum", 1>>),
         K(<<"const", num(0)>>), K(<<"contains">>)}
Few == Core \cup {K(<<"type", {"number", "string"}>>), K(<<"always", TRUE>>)}

(* Every value that is no object satisfies it.                             *)
OfObjects == K(<<"properties", <<<<"p", K(<<"type", {"string"}>>)>>>>, <<>>, <<>>>>)

(* Twice in a conjunction it is two unions, and one after the first pass,  *)
(* which the second distributes over.                                      *)
Either == K(<<"enum", <<num(0), str>>>>)

Atoms ==
  Few \cup
  {K(<<"always", FALSE>>), K(<<"minimum", 2>>), Either,
   K(<<"ref", "amount">>), K(<<"ref", "node">>), K(<<"required", "p">>),
   OfObjects,
   K(<<"not", K(<<"type", {"number"}>>)>>),
   <<<<"type", {"object"}>>, <<"required", "p">>>>}

Keywords == {a \in Atoms : a[1][1] # "always"}

(* A sub-schema of `contains` that takes more than one pass.               *)
Contained == Group("oneOf", <<K(<<"type", {"number"}>>), K(<<"type", {"number"}>>), K(<<"const", str>>)>>, <<>>)

Paired ==
  \/ schema \in Pairs(Atoms, Atoms)
  \/ \E op \in Ops, a \in Atoms :
       schema \in {Group(op, <<Either, Either, a>>, <<>>), Group(op, <<a, Either, Either>>, <<>>)}

Nested ==
  \/ \E op \in Ops, a, b, c \in Few : schema = Group(op, <<a, b, c>>, <<>>)
  \/ \E a \in Few, g \in Pairs(Core, Core) :
       schema \in {Group(op, ss, <<>>) : op \in Ops, ss \in {<<a, g>>, <<g, a>>}}
  \/ \E g \in Pairs(Atoms, Atoms) :
       schema \in {K(<<"not", g>>), K(<<"properties", <<<<"p", g>>>>, <<>>, <<>>>>), K(<<"items", <<g>>, <<>>>>)}
  \/ \E g \in Pairs(Core, Core) :
       schema = K(<<"properties", <<>>, <<<<"ps", g>>>>, <<OfObjects>>>>)
  \/ \E a, b, c \in Few :
       schema \in {K(<<"if", a, b, c>>),
                   Group("anyOf", <<Group("anyOf", <<a, b>>, Tag), c>>, Tag)}
  \/ \E a \in Keywords, b \in Atoms :
       schema = Append(a, <<"dependent", "p", Group("anyOf", <<OfObjects, b>>, <<>>)>>)

(* How many cells Compile makes for a schema.  One `contains` may be shared *)
(* by several expressions, two of them never are.                          *)
RECURSIVE Cells(_)
Cells(s) ==
  LET Over(ss) == FoldLeft(LAMBDA n, x : n + Cells(x), 0, ss)
  IN  FoldLeft(LAMBDA n, k :
        n + (CASE k[1] = "contains" -> 1
               [] k[1] \in {"allOf", "anyOf", "oneOf"} -> Over(k[2])
               [] k[1] = "not"        -> Cells(k[2])
               [] k[1] = "if"         -> Over(<<k[2], k[3], k[4]>>)
               [] k[1] \in {"properties", "items"} -> Over(Members(k))
               [] k[1] = "dependent"  -> Cells(k[3])
               [] OTHER               -> 0), 0, s)

Plain ==
  \/ Paired /\ inner \in {K(<<"type", {"number"}>>), Contained}
  \/ Nested /\ inner = Contained

MCInit == Plain /\ Cells(schema) <= 1 /\ Init
MCSpec == MCInit /\ [][Next]_vars /\ WF_vars(Next)

=============================================================================

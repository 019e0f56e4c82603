---------------------------- MODULE UnionAnalysis ----------------------------
(***************************************************************************)
(* internal/planner: what a conjunction is made of, and what can be proved *)
(* of the branches of a union before any of them is planned.  A branch is  *)
(* looked through its references; `seen` are the targets already met.      *)
(*                                                                         *)
(* Left out: formats, dynamic references and references that resolve to    *)
(* nothing; a mapping names its target, however it spells it.              *)
(***************************************************************************)
EXTENDS Normalizer

(* flattenAll: of several literals the last one is kept.                   *)
Sorted(leaves) ==
  LET Of(ops) == SelectSeq(leaves, LAMBDA e : e[1] \in ops)
      literals == Of({"literal"})
      kinds == Of({"kinds"})
  IN  [shapes      |-> Of({"shape", "items"}),
       predicates  |-> SelectSeq(leaves, IsPredicate),
       literal     |-> IF literals = <<>> THEN <<>> ELSE <<Last(literals)>>,
       combinators |-> Of({"anyOf", "exactlyOne"}),
       nots        |-> Of({"not"}),
       refs        |-> Of({"ref"}),
       numeric     |-> IF \E i \in DOMAIN kinds : kinds[i][3] = "IntegerOnly"
                       THEN "IntegerOnly" ELSE "AnyNumber",
       never       |-> Of({"never"}) # <<>>,
       restricted  |-> kinds # <<>>]

Components(es) == Sorted(FlattenAll(es))

NoComponents == Components(<<>>)

(* components.empty: a bare kind restriction counts as nothing.            *)
IsEmpty(c) ==
  c.refs \o c.shapes \o c.predicates \o c.literal \o c.combinators \o c.nots = <<>>

NonKindOperands(c) ==
  c.literal \o c.shapes \o c.predicates \o c.nots \o c.refs \o c.combinators

PushContext(k, ctx, e) ==
  <<"all", <<e, <<"kinds", k, ctx.numeric>>>> \o NonKindOperands(ctx)>>

-----------------------------------------------------------------------------
(* Literals.  The sequences hold at most one answer.                       *)

(* extractLiteral: a bare literal, beside kinds at most.                   *)
LiteralOf(c) ==
  IF c.never \/ c.shapes \o c.predicates \o c.combinators \o c.nots \o c.refs # <<>> THEN <<>>
  ELSE [i \in DOMAIN c.literal |-> c.literal[i][2]]

ExtractLiteral(e) == LiteralOf(Components(<<e>>))

(* literalValues: one literal, or the union of literals an enum is.        *)
LiteralsOf(c) ==
  LET others == c.shapes \o c.predicates \o c.nots \o c.refs \o c.literal
      union == c.combinators[1]
  IN  CASE LiteralOf(c) # <<>> -> <<LiteralOf(c)>>
        [] /\ LiteralOf(c) = <<>>
           /\ ~ c.never /\ others = <<>> /\ Len(c.combinators) = 1
           /\ union[1] = "anyOf" /\ union[2] # <<>>
           /\ \A i \in DOMAIN union[2] : union[2][i][1] = "literal"
             -> <<[i \in DOMAIN union[2] |-> union[2][i][2]]>>
        [] OTHER -> <<>>

LiteralValues(e) == LiteralsOf(Components(<<e>>))

(* valueSet.add refuses a value it has.                                    *)
Distinct(cases) == \A i, j \in DOMAIN cases : i < j => cases[i][1] # cases[j][1]

(* literalCases: every branch is a literal of its own.                     *)
LiteralCases(branches) ==
  IF \E i \in DOMAIN branches : ExtractLiteral(branches[i]) = <<>> THEN <<>>
  ELSE LET cases == [i \in DOMAIN branches |-> <<ExtractLiteral(branches[i])[1], branches[i]>>]
       IN  IF Distinct(cases) THEN cases ELSE <<>>

-----------------------------------------------------------------------------
(* Property dispatch: a required property that every branch fixes.         *)

Requires(c, name) == \E i \in DOMAIN c.predicates : c.predicates[i] = <<"required", name>>

(* A map is only shared with a callee once it holds something.             *)
SharedSeen(seen, after) == IF seen = {} THEN {} ELSE after

(* flattenThroughRefs.                                                     *)
Absorbing(c, sub) ==
  [c EXCEPT !.shapes = @ \o sub.shapes, !.predicates = @ \o sub.predicates, !.never = @ \/ sub.never]

RECURSIVE ThroughRefs(_, _)
ThroughRefs(e, seen) ==
  LET Joined(r, sub) == [c |-> Absorbing(r.c, sub.c), seen |-> sub.seen]
      Follow(r, ref) ==
        IF ref[2] \in r.seen THEN r
        ELSE Joined(r, ThroughRefs(Compile(Defs[ref[2]]), r.seen \cup {ref[2]}))
      From(own) == FoldLeft(Follow, [c |-> own, seen |-> seen], own.refs)
  IN  From(Components(<<e>>))

(* requiredConstProperty, as at most one <<name, literal>>.                *)
RequiredConst(c) ==
  LET objects == SelectSeq(c.shapes, LAMBDA s : s[1] = "shape")
      declared == FlattenSeq([i \in DOMAIN objects |-> objects[i][2]])
      fixed == SelectSeq(declared, LAMBDA p : Requires(c, p[1]) /\ ExtractLiteral(p[2]) # <<>>)
  IN  IF fixed = <<>> THEN <<>> ELSE <<<<fixed[1][1], ExtractLiteral(fixed[1][2])[1]>>>>

DiscriminatorProperty(e) ==
  LET Of(c) == IF c.never THEN <<>> ELSE RequiredConst(c)
  IN  Of(ThroughRefs(e, {}).c)

(* propertyDispatchCases, as at most one <<name, cases>>, of what was      *)
(* found in each branch.                                                   *)
CasesOfOneName(found, branches) ==
  LET cases == [i \in DOMAIN branches |-> <<found[i][1][2], branches[i]>>]
  IN  IF /\ \A i \in DOMAIN found : found[i] # <<>> /\ found[i][1][1] = found[1][1][1]
         /\ Distinct(cases)
      THEN <<<<found[1][1][1], cases>>>> ELSE <<>>

PropertyDispatchCases(branches) ==
  CasesOfOneName([i \in DOMAIN branches |-> DiscriminatorProperty(branches[i])], branches)

-----------------------------------------------------------------------------
(* A declared discriminator: what a branch is proven to say about the      *)
(* property.  values is <<>> or <<a superset of what it may take>>.        *)

Facts(required, values, never) == [required |-> required, values |-> values, never |-> never]

Intersect(a, b) == SelectSeq(a, LAMBDA x : \E i \in DOMAIN b : b[i] = x)
Unite(a, b) == a \o SelectSeq(b, LAMBDA y : ~ \E i \in DOMAIN a : a[i] = y)

(* tagFacts.and.                                                           *)
AndFacts(f, g) ==
  Facts(f.required \/ g.required,
        IF f.values # <<>> /\ g.values # <<>> THEN <<Intersect(f.values[1], g.values[1])>>
        ELSE f.values \o g.values,
        f.never \/ g.never)

(* orTagFacts.                                                             *)
OrFacts(subs) ==
  LET live == SelectSeq(subs, LAMBDA f : ~ f.never)
  IN  IF live = <<>> THEN Facts(FALSE, <<>>, TRUE)
      ELSE Facts(\A i \in DOMAIN live : live[i].required,
                 IF \A i \in DOMAIN live : live[i].values # <<>>
                 THEN <<FoldLeft(LAMBDA acc, f : Unite(acc, f.values[1]), <<>>, live)>> ELSE <<>>,
                 FALSE)

(* shapeLiteralValues, as at most one list.                                *)
ShapeLiterals(c, name) ==
  LET objects == SelectSeq(c.shapes, LAMBDA s : s[1] = "shape")
      declared == FlattenSeq([i \in DOMAIN objects |-> objects[i][2]])
      fixed == SelectSeq(declared, LAMBDA p : p[1] = name /\ LiteralValues(p[2]) # <<>>)
  IN  FoldLeft(LAMBDA acc, p : IF acc = <<>> THEN LiteralValues(p[2])
                               ELSE <<Intersect(acc[1], LiteralValues(p[2])[1])>>, <<>>, fixed)

RECURSIVE TagFacts(_, _, _)

(* The alternatives of a combinator, in turn.                              *)
AlternativeFacts(union, name, seen) ==
  LET Joined(r, sub) == [subs |-> Append(r.subs, sub.facts), seen |-> SharedSeen(r.seen, sub.seen)]
  IN  FoldLeft(LAMBDA r, e : Joined(r, TagFacts(e, name, r.seen)), [subs |-> <<>>, seen |-> seen], union[2])

OwnFacts(c, name) ==
  AndFacts(Facts(Requires(c, name), <<>>, c.never), Facts(FALSE, ShapeLiterals(c, name), FALSE))

TagFacts(e, name, seen) ==
  LET Joined(r, sub) == [facts |-> AndFacts(r.facts, sub.facts), seen |-> sub.seen]
      Chosen(r, of) == [facts |-> AndFacts(r.facts, OrFacts(of.subs)), seen |-> of.seen]
      Follow(r, ref) ==
        IF ref[2] \in r.seen THEN r
        ELSE Joined(r, TagFacts(Compile(Defs[ref[2]]), name, r.seen \cup {ref[2]}))
      Choose(r, union) == Chosen(r, AlternativeFacts(union, name, r.seen))
      From(c) == FoldLeft(Choose, FoldLeft(Follow, [facts |-> OwnFacts(c, name), seen |-> seen], c.refs),
                          c.combinators)
  IN  From(Components(<<e>>))

(* declaredDispatchCases.  mapping lists <<value, target>>; the answer is  *)
(* <<>> when the declaration cannot drive the dispatch.                    *)
MappedValues(disc, branch) ==
  LET refs == Components(<<branch>>).refs
      mine == SelectSeq(disc.mapping, LAMBDA m : \E i \in DOMAIN refs : refs[i][2] = m[2])
  IN  [i \in DOMAIN mine |-> mine[i][1]]

MapsElsewhere(disc, branches) ==
  \E i \in DOMAIN disc.mapping : \A j \in DOMAIN branches :
    LET refs == Components(<<branches[j]>>).refs
    IN  \A r \in DOMAIN refs : refs[r][2] # disc.mapping[i][2]

(* What a branch is proven to take, and what it is given.                  *)
ProvenValues(facts) == IF facts.values \in {<<>>, <<<<>>>>} THEN <<>> ELSE facts.values[1]

ValuesGiven(disc, branch, facts) ==
  LET Or(mapped) == IF mapped = <<>> THEN ProvenValues(facts) ELSE mapped
  IN  Or(MappedValues(disc, branch))

DeclaredCases(branches, facts, values) ==
  LET cases == FlattenSeq([i \in DOMAIN branches |->
                 [j \in DOMAIN values[i] |-> <<values[i][j], branches[i]>>]])
      Covers(i) == /\ ProvenValues(facts[i]) # <<>>
                   /\ Intersect(ProvenValues(facts[i]), values[i]) = ProvenValues(facts[i])
  IN  IF \/ \E i \in DOMAIN branches : facts[i].never \/ ~ facts[i].required \/ values[i] = <<>>
         \/ ~ Distinct(cases)
      THEN <<>>
      ELSE <<[cases |-> cases,
              tag |-> IF \A i \in DOMAIN branches : Covers(i) THEN "TagDeclared" ELSE "TagAsserted"]>>

DeclaredDispatchCases(disc, branches) ==
  LET From(facts) ==
        DeclaredCases(branches, facts, [i \in DOMAIN branches |-> ValuesGiven(disc, branches[i], facts[i])])
  IN  IF MapsElsewhere(disc, branches) THEN <<>>
      ELSE From([i \in DOMAIN branches |-> TagFacts(branches[i], disc.name, {}).facts])

-----------------------------------------------------------------------------
(* Presence dispatch, and disjoint kinds.                                  *)

(* negatedRequiredSingle: exactly the absence of a name, beside kinds.     *)
RequiredSingle(c) ==
  IF /\ ~ c.never /\ Len(c.predicates) = 1 /\ c.predicates[1][1] = "required"
     /\ c.shapes \o c.combinators \o c.nots \o c.refs \o c.literal = <<>>
  THEN <<c.predicates[1][2]>> ELSE <<>>

NegatedRequired(e) ==
  LET Of(c) == IF /\ ~ c.never /\ Len(c.nots) = 1
                  /\ c.shapes \o c.predicates \o c.combinators \o c.refs \o c.literal = <<>>
               THEN RequiredSingle(Components(<<c.nots[1][2]>>)) ELSE <<>>
  IN  Of(Components(<<e>>))

RECURSIVE WithoutNegations(_)
WithoutNegations(e) ==
  CASE e[1] = "not" -> Anything
    [] e[1] = "all" -> LET Each(es) == [i \in DOMAIN es |-> WithoutNegations(es[i])]
                       IN  <<"all", Each(Without(e[2], Are(e[2], "not")))>>
    [] OTHER        -> e

(* detectPresenceDispatch, in either order.                                *)
PresenceDispatch(branches) ==
  LET Naming(name, absent, present) ==
        IF name # <<>> /\ Requires(Components(<<present>>), name[1])
        THEN <<[name |-> name[1], present |-> present, absent |-> WithoutNegations(absent)]>>
        ELSE <<>>
      Try(absent, present) == Naming(NegatedRequired(absent), absent, present)
      Either(found) == IF found # <<>> THEN found ELSE Try(branches[2], branches[1])
  IN  IF Len(branches) # 2 THEN <<>> ELSE Either(Try(branches[1], branches[2]))

PairwiseKindDisjoint(branches) ==
  \A i, j \in DOMAIN branches : i < j => Kinds(branches[i]) \cap Kinds(branches[j]) = {}
=============================================================================

----------------------------- MODULE PlanBuilder -----------------------------
(***************************************************************************)
(* internal/planner: the plan of a normalized expression.                  *)
(*                                                                         *)
(* The builder's state is threaded through every operator that builds:     *)
(* what is noted (kinds of diagnostics), the two gaps, the memo of trusted *)
(* reference targets, and the cell of `contains`, into which the planner's *)
(* own calls of Normalize write too.                                       *)
(*                                                                         *)
(* Left out: metadata, formats, the presence of tuple slots, the wording   *)
(* and the places of diagnostics (an Advisory one is not noted), and the   *)
(* requirements, which no other part of the plan depends on.               *)
(***************************************************************************)
EXTENDS UnionAnalysis, PlanWalk

Fresh(cell) ==
  [dropped |-> FALSE, asserted |-> FALSE, diags |-> {}, trust |-> [d \in {} |-> TRUE],
   detail |-> cell]

Noting(kind, st) == [st EXCEPT !.diags = @ \cup {kind}]
Dropping(st) == [Noting("Unenforced", st) EXCEPT !.dropped = TRUE]

Built(p, st) == [plan |-> p, st |-> st]

Worse(a, b) == IF b > a THEN b ELSE a

Worst(caps) == FoldLeft(Worse, Level.DirectGoType, caps)

(* since: flags, so a gap opened twice is opened by the first.             *)
Since(after, before) ==
  [dropped |-> after.dropped /\ ~ before.dropped,
   asserted |-> after.asserted /\ ~ before.asserted]

Classify(rep, checks, dispatch) ==
  CASE dispatch[1] = "count" -> Level.RawEvaluation
    [] dispatch[1] \notin {"count", "none"} -> Level.StaticDispatch
    [] dispatch[1] = "none" -> IF ResidualChecks(rep, checks) # <<>>
                               THEN Level.GoTypeWithValidation ELSE Level.DirectGoType

(* Mutant of ExactlyModeled: dropped constraints do not disqualify.        *)
ExactlyModeledTrusting(p, gaps) ==
  /\ p.cap < Level.EvaluationStateValidation
  /\ p.rep[1] = "never" \/ ~ gaps.asserted

ExactlyModeled(p, gaps) ==
  /\ p.cap < Level.EvaluationStateValidation
  /\ p.rep[1] = "never" \/ ~ (gaps.dropped \/ gaps.asserted)

(* A plan that decides by its checks alone.                                *)
Checking(rep, checks, caps) ==
  PlanOf(rep, checks, <<"none">>, Worse(Worst(caps), Classify(rep, checks, <<"none">>)))

(* unionRepresentation.                                                    *)
UnionRep(plans) ==
  IF Len(plans) = 1 THEN plans[1].rep
  ELSE <<"union", [i \in DOMAIN plans |-> plans[i].rep]>>

Caps(plans) == [i \in DOMAIN plans |-> plans[i].cap]

(* Mutant of Selecting: what the selected plans need is forgotten.         *)
SelectingCheaply(plans, dispatch, floor) == PlanOf(UnionRep(plans), <<>>, dispatch, floor)

(* A plan that selects among others.                                       *)
Selecting(plans, dispatch, floor) ==
  PlanOf(UnionRep(plans), <<>>, dispatch, Worse(floor, Worst(Caps(plans))))

-----------------------------------------------------------------------------
(* Normalizing what the planner composes itself.                           *)

renormalizeBudget == 64

RECURSIVE Renormalize(_, _, _)
Renormalize(e, s, turns) ==
  LET Again(r) == IF r.out = e \/ turns = 1 THEN r ELSE Renormalize(r.out, r.st, turns - 1)
  IN  Again(Rewrite(e, s))

Normalized(e, st) ==
  LET Stored(r) == [out |-> r.out, st |-> [st EXCEPT !.detail = r.st.detail]]
  IN  Stored(Renormalize(e, [budget |-> renormalizeBudget, detail |-> st.detail], maxFixpointIters))

(* intersectExprs: <<>> of none.                                           *)
IntersectExprs(es, st) ==
  IF Len(es) <= 1 THEN [out |-> es, st |-> st] ELSE [Normalized(<<"all", es>>, st) EXCEPT !.out = <<@>>]

-----------------------------------------------------------------------------
(* Conjoined shapes.                                                       *)

(* constraintsFor: what one `properties` says of a declared name.  Where a *)
(* pattern cannot be decided, it and the rest are left out.                *)
ConstraintsFor(name, object, st) ==
  LET Deciding(answer) == SelectSeq(object[3], LAMBDA r : MatchString(r[1], name) = answer)
      own == SelectSeq(object[2], LAMBDA p : p[1] = name) \o Deciding("Match")
  IN  IF Deciding("Unknown") # <<>>
      THEN [out |-> [i \in DOMAIN own |-> own[i][2]], st |-> Dropping(st)]
      ELSE [out |-> IF own = <<>> THEN object[4] ELSE [i \in DOMAIN own |-> own[i][2]],
            st |-> st]

(* Mutant of MergePatternRules: a sibling's additionalProperties is not    *)
(* folded in, and nothing is said of it.                                   *)
MergePatternRulesApart(objects, st) ==
  [out |-> FlattenSeq([i \in DOMAIN objects |-> objects[i][3]]), st |-> st]

(* mergePatternRules: each rule with the additionalProperties of the       *)
(* siblings that have no patterns of their own.                            *)
MergePatternRules(objects, st) ==
  LET Others(i) == [j \in DOMAIN objects |-> IF i = j THEN <<>> ELSE objects[j][4]]
      Extra(i) == FlattenSeq([j \in DOMAIN objects |->
                                IF objects[j][3] = <<>> THEN Others(i)[j] ELSE <<>>])
      Undecidable(i) == \E j \in DOMAIN objects : Others(i)[j] # <<>> /\ objects[j][3] # <<>>
      Ruled(r, name, both) == [out |-> Append(r.out, <<name, both.out[1]>>), st |-> both.st]
      Rule(r, i, rule) == Ruled(r, rule[1], IntersectExprs(<<rule[2]>> \o Extra(i), r.st))
      Object(r, i) ==
        FoldLeft(LAMBDA s, rule : Rule(s, i, rule),
                 IF objects[i][3] # <<>> /\ Undecidable(i) THEN [r EXCEPT !.st = Dropping(@)] ELSE r,
                 objects[i][3])
  IN  FoldLeftDomain(Object, [out |-> <<>>, st |-> st], objects)

(* The names that a sibling declares.                                      *)
DeclaredNames(objects) ==
  LET Each(shape) == [i \in DOMAIN shape |-> shape[i][1]]
  IN  Deduped(FlattenSeq([i \in DOMAIN objects |-> Each(objects[i][2])]))

(* What all of them say of one name, conjoined.                            *)
Gather(objects, r, name) ==
  LET Joined(s, own) == [out |-> s.out \o own.out, st |-> own.st]
      Named(both) == [r EXCEPT !.fields = Append(@, <<name, IF both.out = <<>> THEN Anything ELSE both.out[1]>>),
                               !.st = both.st]
      Of(operands) == Named(IntersectExprs(operands.out, operands.st))
  IN  Of(FoldLeft(LAMBDA s, object : Joined(s, ConstraintsFor(name, object, s.st)),
                  [out |-> <<>>, st |-> r.st], objects))

(* mergeObjectShapes: a constraint for each name that a sibling declares,  *)
(* the rules, and what holds of every other name.                          *)
MergeObjects(objects, st) ==
  LET Start(additional) == [fields |-> <<>>, additional |-> additional.out, rules |-> <<>>, st |-> additional.st]
      Ruled(r, rules) == [r EXCEPT !.rules = rules.out, !.st = rules.st]
      Rules(r) == Ruled(r, MergePatternRules(objects, r.st))
  IN  Rules(FoldLeft(LAMBDA r, name : Gather(objects, r, name),
                     Start(IntersectExprs(FlattenSeq([i \in DOMAIN objects |-> objects[i][4]]), st)),
                     DeclaredNames(objects)))

MergeObjectShapes(shapes, st) == MergeObjects(SelectSeq(shapes, LAMBDA s : s[1] = "shape"), st)

(* mergeArrayShapes: past a sibling's own prefix its `items` holds.        *)
MergeArrays(arrays, st) ==
  LET width == FoldLeft(LAMBDA n, a : Worse(n, Len(a[2])), 0, arrays)
      Start(rest) == [prefix |-> <<>>, rest |-> rest.out, st |-> rest.st]
      Slotted(r, both) == [r EXCEPT !.prefix = Append(@, both.out[1]), !.st = both.st]
      Slot(r, i) ==
        Slotted(r, IntersectExprs(FlattenSeq([j \in DOMAIN arrays |-> ElementSchemas(arrays[j], i)]), r.st))
  IN  FoldLeft(Slot, Start(IntersectExprs(FlattenSeq([i \in DOMAIN arrays |-> arrays[i][3]]), st)),
               [i \in 1 .. width |-> i])

MergeArrayShapes(shapes, st) == MergeArrays(SelectSeq(shapes, LAMBDA s : s[1] = "items"), st)

-----------------------------------------------------------------------------
(* References.                                                             *)

RECURSIVE RefsOf(_, _)

(* The targets under a schema, and whether the way there descends into the *)
(* instance (convert.go:402-534).                                          *)
RefsOfAll(ss, descends) == UNION {RefsOf(ss[i], descends) : i \in DOMAIN ss}

RefsOf(s, descends) ==
  UNION {LET k == s[i]
         IN  CASE k[1] = "ref" -> {<<k[2], descends>>}
               [] k[1] \in {"allOf", "anyOf", "oneOf"} -> RefsOfAll(k[2], descends)
               [] k[1] = "not"        -> RefsOf(k[2], descends)
               [] k[1] = "if"         -> RefsOfAll(<<k[2], k[3], k[4]>>, descends)
               [] k[1] = "dependent"  -> RefsOf(k[3], descends)
               [] k[1] = "properties" -> RefsOfAll(Plans(k[2]) \o Plans(k[3]) \o k[4], TRUE)
               [] k[1] = "items"      -> RefsOfAll(k[2] \o k[3], TRUE)
               [] OTHER               -> {} : i \in DOMAIN s}

(* The definitions that d leads to, by edges that satisfy the second.      *)
RECURSIVE Closure(_, _)
Closure(ds, anyEdge) ==
  LET next == ds \cup {e[1] : e \in {x \in UNION {RefsOf(Defs[d], FALSE) : d \in ds} :
                                         anyEdge \/ ~ x[2]}}
  IN  IF next = ds THEN ds ELSE Closure(next, anyEdge)

LeadsTo(a, b, anyEdge) ==
  \E e \in RefsOf(Defs[a], FALSE) : (anyEdge \/ ~ e[2]) /\ b \in Closure({e[1]}, anyEdge)

(* builder.recur: the class of the component a target is in (scc.go).      *)
RecursionClass(d) ==
  CASE ~ LeadsTo(d, d, TRUE) -> "NotRecursive"
    [] /\ LeadsTo(d, d, TRUE)
       /\ \E x \in Closure({d}, TRUE) :
            /\ x = d \/ (LeadsTo(d, x, TRUE) /\ LeadsTo(x, d, TRUE))
            /\ LeadsTo(x, x, FALSE) -> "Unguarded"
    [] OTHER -> "Guarded"

Recursion == [d \in DOMAIN Defs |-> RecursionClass(d)]

(* buildRef.                                                               *)
BuildRef(e, st) ==
  LET unguarded == Recursion[e[2]] = "Unguarded"
  IN  Built(PlanOf(<<"reference", e[2]>>, <<Guarded(AllKinds, <<"reference", e[2]>>)>>, <<"none">>,
                   IF unguarded THEN Level.Unsupported ELSE Level.DirectGoType),
            IF unguarded THEN Noting("Unsupported", st) ELSE st)

(* assertRefKind: a `type` beside the reference.                           *)
AssertRefKind(p, k, c) ==
  LET domain == IF "number" \in k /\ c.numeric # "AnyNumber"
                THEN <<Guarded({"number"}, <<"domain", c.numeric>>)>> ELSE <<>>
  IN  IF ~ c.restricted \/ (k = AllKinds /\ c.numeric = "AnyNumber") THEN p
      ELSE [p EXCEPT !.checks = <<Asserting(k, Nil)>> \o domain \o @]

(* mergePlans.                                                             *)
MergePlans(base, extra) ==
  [base EXCEPT !.checks = @ \o extra.checks, !.cap = Worse(@, extra.cap)]

ValidationOnly(p) == p.rep[1] = "any" /\ p.dispatch[1] = "none"

(* vacuous: it accepts everything, and its schema does not.                *)
Vacuous(p, operand) == ValidationOnly(p) /\ p.checks = <<>> /\ operand # Anything

-----------------------------------------------------------------------------

RECURSIVE Build(_, _), BuildLeaf(_, _, _), BuildUnion(_, _, _, _), BuildConjunction(_, _, _)

BuildEach(es, st) ==
  LET Planned(r, sub) == [plans |-> Append(r.plans, sub.plan), st |-> sub.st]
  IN  FoldLeft(LAMBDA r, e : Planned(r, Build(e, r.st)), [plans |-> <<>>, st |-> st], es)

(* Plans under the names, patterns or values of their expressions.         *)
BuildNamed(named, st) ==
  LET Named(each) == [rules |-> [i \in DOMAIN named |-> <<named[i][1], each.plans[i]>>], st |-> each.st]
  IN  Named(BuildEach(Plans(named), st))

(* mapPredicate, over those that say something of the kinds `on`.          *)
MapPredicate(e, st) ==
  LET Held(sub) == [expr |-> <<"contains", sub.plan, 1, <<>>>>,
                    cap |-> Worse(Level.RawEvaluation, sub.plan.cap), st |-> Noting("Cost", sub.st)]
  IN  CASE e[1] = "contains" -> Held(Build(st.detail, st))
        [] e[1] = "required" -> [expr |-> <<"required", <<e[2]>>>>, cap |-> Level.DirectGoType, st |-> st]
        [] e[1] \in {"minimum", "pattern"} -> [expr |-> e, cap |-> Level.DirectGoType, st |-> st]

Checked(r, on, m) ==
  [checks |-> Append(r.checks, Guarded(on, m.expr)), caps |-> Append(r.caps, m.cap), st |-> m.st]

(* Mutant of MapPredicates: a check is made of every kind.                 *)
MapPredicatesUnguarded(es, on, st) ==
  FoldLeft(LAMBDA r, e : Checked(r, AllKinds, MapPredicate(e, r.st)),
           [checks |-> <<>>, caps |-> <<>>, st |-> st],
           SelectSeq(es, LAMBDA e : Guard(e) \cap on # {}))

MapPredicates(es, on, st) ==
  FoldLeft(LAMBDA r, e : Checked(r, Guard(e) \cap on, MapPredicate(e, r.st)),
           [checks |-> <<>>, caps |-> <<>>, st |-> st],
           SelectSeq(es, LAMBDA e : Guard(e) \cap on # {}))

-----------------------------------------------------------------------------
(* One kind.  A step takes what the steps before it made.                  *)

BuildScalar(kind, c, st) ==
  LET rep == <<"primitive", kind, IF kind = "number" THEN c.numeric ELSE "AnyNumber">>
      Of(mapped) == Built(Checking(rep, mapped.checks, mapped.caps), mapped.st)
  IN  Of(MapPredicates(c.predicates, {kind}, st))

(* A field's null is taken out of its plan and said beside it.             *)
BuildField(f, required, st) ==
  LET kinds == Kinds(f[2])
      Told(sub) == [field |-> [name |-> f[1], plan |-> sub.plan, required |-> f[1] \in required,
                                nullable |-> "null" \in kinds],
                     st |-> sub.st]
      Of(e) == Told(Build(e.out, e.st))
  IN  Of(IF "null" \in kinds /\ kinds # {"null"}
         THEN Normalized(<<"all", <<f[2], <<"kinds", kinds \ {"null"}, "AnyNumber">>>>>>, st)
         ELSE [out |-> f[2], st |-> st])

BuildFields(fields, required, st) ==
  LET Planned(r, sub) == [out |-> Append(r.out, sub.field), st |-> sub.st]
  IN  FoldLeft(LAMBDA r, f : Planned(r, BuildField(f, required, r.st)), [out |-> <<>>, st |-> st], fields)

BuildAdditional(additional, st) ==
  CASE additional = <<>> -> Built(AnyPlan, st)
    [] additional # <<>> /\ additional[1][1] = "never" -> Built(NeverPlan, st)
    [] OTHER -> Build(additional[1], st)

ObjectPlan(mapped, fields, additional, rules) ==
  LET rep == <<"object", fields.out, rules.rules, <<additional.plan>>>>
  IN  Built(Checking(rep, <<Guarded({"object"}, rep)>> \o mapped.checks,
                     mapped.caps \o Caps(FieldPlans(fields.out)) \o <<additional.plan.cap>>
                       \o Caps(Plans(rules.rules))),
            rules.st)

BuildObject(c, st) ==
  LET required == {c.predicates[i][2] : i \in Are(c.predicates, "required")}
      Rules(merged, mapped, fields, additional) ==
        ObjectPlan(mapped, fields, additional, BuildNamed(merged.rules, additional.st))
      Additional(merged, mapped, fields) ==
        Rules(merged, mapped, fields, BuildAdditional(merged.additional, fields.st))
      Fields(merged, mapped) == Additional(merged, mapped, BuildFields(merged.fields, required, mapped.st))
      Mapped(merged) == Fields(merged, MapPredicates(c.predicates, {"object"}, merged.st))
  IN  Mapped(MergeObjectShapes(c.shapes, st))

ArrayPlan(mapped, width, each) ==
  LET rest == IF Len(each.plans) = width THEN AnyPlan ELSE Last(each.plans)
      rep == <<"array", SubSeq(each.plans, 1, width), <<rest>>>>
  IN  Built(Checking(rep, <<Guarded({"array"}, rep)>> \o mapped.checks, mapped.caps \o Caps(each.plans)),
            each.st)

BuildArray(c, st) ==
  LET Elements(merged, mapped) ==
        ArrayPlan(mapped, Len(merged.prefix), BuildEach(merged.prefix \o merged.rest, mapped.st))
      Mapped(merged) == Elements(merged, MapPredicates(c.predicates, {"array"}, merged.st))
  IN  Mapped(MergeArrayShapes(c.shapes, st))

(* pinLiteral: a literal beside the kind becomes the one case.             *)
PinLiteral(p, kind, literal) ==
  LET value == literal[1][2]
      dispatch == <<"literal", <<<<value, PlanOf(p.rep, <<>>, <<"none">>, Level.DirectGoType)>>>>>>
  IN  IF literal = <<>> THEN p
      ELSE IF KindOf(value) # kind \/ p.dispatch[1] # "none" THEN p
      ELSE [p EXCEPT !.dispatch = dispatch, !.cap = Worse(@, Classify(p.rep, p.checks, dispatch))]

(* assertKind: the decided kind is a check of its own, before the others.  *)
AssertKind(p, kind, numeric) ==
  LET domain == IF kind = "number" /\ numeric # "AnyNumber"
                THEN <<Guarded({kind}, <<"domain", numeric>>)>> ELSE <<>>
  IN  [p EXCEPT !.checks = <<Asserting({kind}, Nil)>> \o domain \o @]

BuildOneKind(kind, c, st) ==
  CASE kind = "object" -> BuildObject(c, st)
    [] kind = "array"  -> BuildArray(c, st)
    [] OTHER           -> BuildScalar(kind, c, st)

BuildLeaf(kind, c, st) ==
  IF c.combinators # <<>>
  THEN BuildUnion({kind}, c.combinators[1], [c EXCEPT !.combinators = Tail(@)], st)
  ELSE [BuildOneKind(kind, c, st) EXCEPT
          !.plan = AssertKind(PinLiteral(@, kind, c.literal), kind, c.numeric)]

-----------------------------------------------------------------------------
(* Several kinds.                                                          *)

BuildLeaves(kinds, c, st) ==
  LET Planned(r, sub) == [plans |-> Append(r.plans, sub.plan), st |-> sub.st]
  IN  FoldLeft(LAMBDA r, kind : Planned(r, BuildLeaf(kind, c, r.st)), [plans |-> <<>>, st |-> st], kinds)

(* guardedShapes: without a `type`, a shape is checked where it applies.   *)
ShapedKinds(c) ==
  SelectSeq(<<"object", "array">>, LAMBDA kind :
    \E i \in DOMAIN c.shapes : c.shapes[i][1] = IF kind = "object" THEN "shape" ELSE "items")

GuardedShapes(kinds, plans) ==
  [i \in DOMAIN kinds |-> Guarded({kinds[i]}, <<"shape", plans[i]>>)]

(* buildUnrestricted: any value, with checks.                              *)
Unrestricted(kinds, mapped, leaves) ==
  Built(Checking(<<"any">>, mapped.checks \o GuardedShapes(kinds, leaves.plans),
                 mapped.caps \o Caps(leaves.plans)), leaves.st)

(* A switch over the kinds, if there is more than one.                     *)
KindSwitch(kinds, leaves) ==
  LET At(kind) == CHOOSE i \in DOMAIN kinds : kinds[i] = kind
  IN  IF Len(kinds) = 1 THEN Built(leaves.plans[1], leaves.st)
      ELSE Built(Selecting(leaves.plans, <<"kind", [kind \in Range(kinds) |-> leaves.plans[At(kind)]]>>,
                           Level.StaticDispatch), leaves.st)

(* Either way a leaf for each kind: of the shapes alone, if any kind will  *)
(* do and the other predicates are checks beside them.                     *)
BuildKindRestricted(k, c, st) ==
  LET open == k = AllKinds /\ ~ c.restricted
      kinds == IF open THEN ShapedKinds(c) ELSE SelectSeq(KindOrder, LAMBDA kind : kind \in k)
      of == IF open THEN [NoComponents EXCEPT !.shapes = c.shapes] ELSE c
      Join(mapped, leaves) == IF open THEN Unrestricted(kinds, mapped, leaves) ELSE KindSwitch(kinds, leaves)
      Apart(mapped) == Join(mapped, BuildLeaves(kinds, of, mapped.st))
  IN  IF k = {} THEN Built(NeverPlan, st)
      ELSE Apart(MapPredicates(IF open THEN c.predicates ELSE <<>>, AllKinds, st))

-----------------------------------------------------------------------------
(* Unions.                                                                 *)

(* A dispatch by cases of <<value, expression>>.                           *)
BuildLiteralDispatch(cases, st) ==
  LET Of(built) == Built(Selecting(Plans(built.rules), <<"literal", built.rules>>, Level.StaticDispatch), built.st)
  IN  Of(BuildNamed(cases, st))

BuildPropertyDispatch(name, cases, tag, st) ==
  LET Of(built) == Built(Selecting(Plans(built.rules), <<"property", name, built.rules, tag>>,
                                   Level.StaticDispatch), built.st)
  IN  Of(BuildNamed(cases, IF tag = "TagAsserted" THEN [st EXCEPT !.asserted = TRUE] ELSE st))

BuildPresenceDispatch(found, st) ==
  LET Of(each) == Built(Selecting(<<each.plans[2], each.plans[1]>>,
                                  <<"presence", found.name, each.plans[2], each.plans[1]>>,
                                  Level.StaticDispatch), each.st)
  IN  Of(BuildEach(<<found.absent, found.present>>, st))

BuildKindDisjointDispatch(branches, st) ==
  LET At(kind) == CHOOSE i \in DOMAIN branches : kind \in Kinds(branches[i])
      covered == UNION {Kinds(branches[i]) : i \in DOMAIN branches}
      Of(each) == Built(Selecting(each.plans, <<"kind", [kind \in covered |-> each.plans[At(kind)]]>>,
                                  Level.StaticDispatch), each.st)
  IN  Of(BuildEach(branches, st))

BuildCountDispatch(branches, maximum, st) ==
  LET Of(each) == Built(Selecting(each.plans, <<"count", each.plans, 1, maximum>>, Level.RawEvaluation), each.st)
  IN  Of(BuildEach(branches, Noting("Cost", st)))

(* In order of preference: the first analysis that succeeds.               *)
BuildInferred(branches, maximum, st) ==
  LET ByKinds == IF PairwiseKindDisjoint(branches) THEN BuildKindDisjointDispatch(branches, st)
                ELSE BuildCountDispatch(branches, maximum, st)
      Presence(found) == IF found # <<>> THEN BuildPresenceDispatch(found[1], st) ELSE ByKinds
      Property(found) == IF found # <<>> THEN BuildPropertyDispatch(found[1][1], found[1][2], "TagInferred", st)
                         ELSE Presence(PresenceDispatch(branches))
      Literal(cases) == IF cases # <<>> THEN BuildLiteralDispatch(cases, st)
                        ELSE Property(PropertyDispatchCases(branches))
  IN  Literal(LiteralCases(branches))

(* A declared discriminator comes before them all.                         *)
BuildAlternatives(union, branches, st) ==
  LET maximum == IF union[1] = "exactlyOne" THEN 1 ELSE Len(branches)
      Declared(found) ==
        IF found = <<>> THEN BuildInferred(branches, maximum, st)
        ELSE BuildPropertyDispatch(union[3][1].name, found[1].cases, found[1].tag,
               IF found[1].tag = "TagAsserted" THEN Noting("Assumed", st) ELSE st)
  IN  CASE branches = <<>> -> Built(NeverPlan, st)
        [] Len(branches) = 1 -> Build(branches[1], st)
        [] OTHER -> Declared(IF union[3] = <<>> THEN <<>> ELSE DeclaredDispatchCases(union[3][1], branches))

(* buildUnionWithContext.                                                  *)
BuildUnion(k, union, ctx, st) ==
  BuildAlternatives(union, [i \in DOMAIN union[2] |-> PushContext(k, ctx, union[2][i])], st)

-----------------------------------------------------------------------------
(* Conjunctions.                                                           *)

(* withResidualConjuncts.                                                  *)
WithResidualConjuncts(k, base, rest, st) ==
  LET Beside(sub) ==
        CASE sub.plan.rep[1] = "never" -> Built(NeverPlan, sub.st)
          [] sub.plan.rep[1] # "never" /\ ValidationOnly(sub.plan) -> Built(MergePlans(base, sub.plan), sub.st)
          [] OTHER -> Built([base EXCEPT !.checks = Append(@, Guarded(AllKinds, <<"shape", sub.plan>>)),
                                         !.cap = Worse(@, sub.plan.cap)], sub.st)
  IN  IF IsEmpty(rest) THEN Built(AssertRefKind(base, k, rest), st)
      ELSE Beside(BuildConjunction(k, rest, st))

BuildConjunction(k, c, st) ==
  LET Referring(base) == WithResidualConjuncts(k, base.plan, [c EXCEPT !.refs = Tail(@)], base.st)
  IN  CASE c.refs # <<>> -> Referring(Build(c.refs[1], st))
        [] c.refs = <<>> /\ c.combinators # <<>> ->
             BuildUnion(k, c.combinators[1], [c EXCEPT !.combinators = Tail(@)], st)
        [] OTHER -> BuildKindRestricted(k, c, st)

RECURSIVE RefTrusted(_, _, _)

(* refsTrusted: the targets in turn, until one is not.                     *)
RefsTrusted(p, seen, st) ==
  FoldLeft(LAMBDA r, d : IF r.yes THEN RefTrusted(d, seen, r.st) ELSE r,
           [yes |-> TRUE, st |-> st], ReferencesIn(p))

(* Mutant of RefTrusted: what the target refers to in turn is not judged.  *)
RefTrustedAlone(d, seen, st) ==
  LET Judge(sub) ==
        LET trusted == ExactlyModeled(sub.plan, Since(sub.st, st)) /\ Recursion[d] = "NotRecursive"
        IN  [yes |-> trusted, st |-> [st EXCEPT !.trust = (d :> trusted) @@ sub.st.trust]]
  IN  Judge(Build(Compile(Defs[d]), st))

(* refTrusted: planned to be judged, not normalized, and remembered; gaps  *)
(* and diagnostics are put back.                                           *)
RefTrusted(d, seen, st) ==
  LET Remembered(r) == [yes |-> r.yes, st |-> [st EXCEPT !.trust = (d :> r.yes) @@ r.st.trust,
                                                         !.detail = r.st.detail]]
      Judged(sub) == IF ExactlyModeled(sub.plan, Since(sub.st, st))
                     THEN RefsTrusted(sub.plan, seen \cup {d}, sub.st)
                     ELSE [yes |-> FALSE, st |-> sub.st]
  IN  CASE d \in DOMAIN st.trust -> [yes |-> st.trust[d], st |-> st]
        [] d \notin DOMAIN st.trust /\ (d \in seen \/ Recursion[d] # "NotRecursive") ->
             [yes |-> FALSE, st |-> st]
        [] OTHER -> Remembered(Judged(Build(Compile(Defs[d]), st)))

(* One negated operand of withResidualNegation.                            *)
BuildNegated(r, negated) ==
  LET operand == negated[2]
      Exact(sub) == ExactlyModeled(sub.plan, Since(sub.st, r.st)) /\ ~ Vacuous(sub.plan, operand)
      Settle(sub, judged) ==
        IF judged.yes
        THEN [r EXCEPT !.plan = [@ EXCEPT !.checks = Append(@, Guarded(AllKinds, <<"not", sub.plan>>))],
                       !.emitted = TRUE, !.st = judged.st]
        ELSE [r EXCEPT !.dropped = TRUE, !.st = judged.st]
      Judge(sub) == Settle(sub, IF Exact(sub) THEN RefsTrusted(sub.plan, {}, sub.st)
                                ELSE [yes |-> FALSE, st |-> sub.st])
  IN  Judge(Build(operand, r.st))

(* withResidualNegation: a negation is attached where its operand is       *)
(* exactly modelled, and dropped, which is noted, where it is not.         *)
WithResidualNegation(b, nots) ==
  LET Noted(r) == IF r.dropped THEN Dropping(r.st) ELSE r.st
      Told(r) == IF r.emitted
                 THEN Built([r.plan EXCEPT !.cap = Worse(@, Level.RawEvaluation)], Noting("Cost", Noted(r)))
                 ELSE Built(r.plan, Noted(r))
  IN  Told(FoldLeft(BuildNegated, [plan |-> b.plan, st |-> b.st, emitted |-> FALSE, dropped |-> FALSE], nots))

BuildAll(es, st) ==
  LET k == Kinds(<<"all", es>>)
      c == Components(es)
  IN  IF k = {} \/ c.never THEN Built(NeverPlan, st)
      ELSE WithResidualNegation(BuildConjunction(k, [c EXCEPT !.nots = <<>>], st), c.nots)

(* buildLiteral: the leaf of its kind, as it is of a conjunction of one.   *)
Build(e, st) ==
  CASE e[1] = "any"     -> Built(AnyPlan, st)
    [] e[1] = "never"   -> Built(NeverPlan, st)
    [] e[1] = "ref"     -> BuildRef(e, st)
    [] e[1] \in {"anyOf", "exactlyOne"} -> BuildUnion(Kinds(e), e, NoComponents, st)
    [] OTHER            -> BuildAll(IF e[1] = "all" THEN e[2] ELSE <<e>>, st)
=============================================================================

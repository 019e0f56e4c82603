--------------------------- MODULE PlanInterpreter ---------------------------
(***************************************************************************)
(* plan: the compilation plan, and internal/planterp: what a plan accepts. *)
(* The interpreter is the reference the compiled validator is held to, and *)
(* the meaning the planner's output is compared by.                        *)
(*                                                                         *)
(* A plan is a record: its representation, its guarded checks in order,    *)
(* its dispatch, its capability, and whether its resolution is a dynamic   *)
(* reference graph.  Representations, predicate expressions and dispatches *)
(* are tuples headed by the name of their Go type; <<>> is a nil pointer,  *)
(* <<p>> a pointer to p.  Of bounds that differ only in what they measure  *)
(* on a scalar, `minimum` and `multipleOf` stand for all.                  *)
(*                                                                         *)
(* Evaluating stops at the first rejection and at an internal error        *)
(* ("failed").  What a run could not enforce it notes as approximated; the *)
(* order in which Go ranges over the names of an object decides what is    *)
(* noted before a rejection, so it is part of the environment.             *)
(* The interpreter calls itself on the plans a plan holds: Interpret is a  *)
(* parameter, given InterpretBy.                                           *)
(***************************************************************************)
EXTENDS Expressions, SequencesExt

CONSTANT
  Interpret(_, _, _, _)   (* plan, instance, references followed, environment *)

-----------------------------------------------------------------------------
(* Plans.                                                                  *)

Level == [DirectGoType |-> 0, GoTypeWithValidation |-> 1, StaticDispatch |-> 2,
          RawEvaluation |-> 3, EvaluationStateValidation |-> 4,
          DynamicSchemaResolution |-> 5, Unsupported |-> 6]

Guarded(on, e) == [on |-> on, assert |-> FALSE, expr |-> e]
Asserting(on, e) == [on |-> on, assert |-> TRUE, expr |-> e]
Nil == <<"nil">>

PlanOf(rep, checks, dispatch, capability) ==
  [rep |-> rep, checks |-> checks, dispatch |-> dispatch, cap |-> capability, dynamic |-> FALSE]

AnyPlan == PlanOf(<<"any">>, <<>>, <<"none">>, Level.DirectGoType)
NeverPlan == PlanOf(<<"never">>, <<Asserting({}, Nil)>>, <<"none">>, Level.DirectGoType)

(* What a representation already holds needs no check of its own.          *)
ObjectRestates(rep, e) ==
  LET Declared(fs) == [i \in DOMAIN fs |-> <<fs[i].name, fs[i].required, fs[i].nullable>>]
      PatternsOf(rs) == [i \in DOMAIN rs |-> rs[i][1]]
  IN  /\ Declared(rep[2]) = Declared(e[2])
      /\ PatternsOf(rep[3]) = PatternsOf(e[3])
      /\ rep[4] = e[4]

ArrayRestates(rep, e) == Len(rep[2]) = Len(e[2]) /\ (rep[3] = <<>> <=> e[3] = <<>>)

DischargedBy(rep, e) ==
  CASE e[1] = "nil"       -> TRUE
    [] e[1] = "domain"    -> rep[1] = "primitive" /\ rep[3] = e[2]
    [] e[1] = "reference" -> rep = e
    [] e[1] = "object"    -> rep[1] = "object" /\ ObjectRestates(rep, e)
    [] e[1] = "array"     -> rep[1] = "array" /\ ArrayRestates(rep, e)
    [] OTHER              -> FALSE

ResidualChecks(rep, checks) == SelectSeq(checks, LAMBDA g : ~ DischargedBy(rep, g.expr))

-----------------------------------------------------------------------------
(* Verdicts.                                                               *)

Verdict(v, approximated) == [verdict |-> v, approximated |-> approximated]
Accepted == Verdict("accepted", FALSE)
Rejected == Verdict("rejected", FALSE)
Failed == Verdict("failed", FALSE)
If(test) == IF test THEN Accepted ELSE Rejected

(* The list of approximations belongs to the whole run.                    *)
After(r, s) == [s EXCEPT !.approximated = r.approximated \/ @]

(* Steps 1 .. n in turn, until one does not accept.                        *)
InTurn(step, n) ==
  LET upto[i \in 0 .. n] ==
        LET r == upto[i - 1]
        IN  IF i = 0 THEN Accepted
            ELSE IF r.verdict = "accepted" THEN After(r, step[i]) ELSE r
  IN  upto[n]

(* All of them, and the number of those that accept.                       *)
Counting(r, s) ==
  [verdict |-> IF s.verdict = "failed" THEN "failed" ELSE "accepted",
   approximated |-> r.approximated \/ s.approximated,
   count |-> r.count + IF s.verdict = "accepted" THEN 1 ELSE 0]

CountAccepted(step, n) ==
  LET upto[i \in 0 .. n] ==
        LET r == upto[i - 1]
        IN  IF i = 0 THEN [verdict |-> "accepted", approximated |-> FALSE, count |-> 0]
            ELSE IF r.verdict = "failed" THEN r ELSE Counting(r, step[i])
  IN  upto[n]

Within(counted, minimum, maximum) ==
  IF counted.verdict = "failed" THEN Failed
  ELSE Verdict(IF counted.count \in minimum .. maximum THEN "accepted" ELSE "rejected",
               counted.approximated)

-----------------------------------------------------------------------------
(* The interpreter.  env.defs is the definition table, env.order the order *)
(* in which names come out of an object; active holds the references being *)
(* followed at this instance value.                                        *)

(* SelectSeq for membership in a set.                                      *)
Listed(list, S) ==
  LET upto[i \in 0 .. Len(list)] ==
        LET before == upto[i - 1]
        IN  IF i = 0 THEN <<>>
            ELSE IF list[i] \in S THEN Append(before, list[i]) ELSE before
  IN  upto[Len(list)]

NamesOf(v, env) == Listed(env.order, DOMAIN v[2])

(* field: what is absent, and an explicit null where null is allowed, is   *)
(* settled without the field's own plan.                                   *)
Field(f, v, env) ==
  IF f.name \notin DOMAIN v[2] THEN If(~ f.required)
  ELSE IF f.nullable /\ KindOf(v[2][f.name]) = "null" THEN Accepted
  ELSE Interpret(f.plan, v[2][f.name], {}, env)

(* An undeclared name is checked by every pattern that matches it, by the  *)
(* additional plan if none may.                                            *)
PatternRules(rules, name, x, env) ==
  InTurn([i \in DOMAIN rules |->
            CASE MatchString(rules[i][1], name) = "Match"   -> Interpret(rules[i][2], x, {}, env)
              [] MatchString(rules[i][1], name) = "NoMatch" -> Accepted
              [] MatchString(rules[i][1], name) = "Unknown" -> Verdict("accepted", TRUE)],
         Len(rules))

Undeclared(e, name, x, env) ==
  LET ruled == PatternRules(e[3], name, x, env)
      matched == \E i \in DOMAIN e[3] : MatchString(e[3][i][1], name) # "NoMatch"
  IN  IF ruled.verdict # "accepted" \/ matched \/ e[4] = <<>> THEN ruled
      ELSE After(ruled, Interpret(e[4][1], x, {}, env))

ObjectAgainst(e, v, env) ==
  LET declared == InTurn([i \in DOMAIN e[2] |-> Field(e[2][i], v, env)], Len(e[2]))
      names == Listed(env.order, DOMAIN v[2] \ {e[2][i].name : i \in DOMAIN e[2]})
  IN  IF declared.verdict # "accepted" THEN declared
      ELSE After(declared,
                 InTurn([i \in DOMAIN names |-> Undeclared(e, names[i], v[2][names[i]], env)], Len(names)))

ArrayAgainst(e, v, env) ==
  InTurn([i \in DOMAIN v[2] |->
            CASE i <= Len(e[2]) -> Interpret(e[2][i], v[2][i], {}, env)
              [] i > Len(e[2]) /\ e[3] = <<>> -> Rejected
              [] i > Len(e[2]) /\ e[3] # <<>> -> Interpret(e[3][1], v[2][i], {}, env)],
         Len(v[2]))

(* "An acceptance the sub-run had to approximate yields an acceptance here *)
(* too": only ever wider.                                                  *)
Negated(p, v, env) ==
  LET r == Interpret(p, v, {}, env)
  IN  IF r.verdict = "failed" THEN r
      ELSE IF r.verdict = "rejected" \/ r.approximated THEN Verdict("accepted", r.approximated)
      ELSE Rejected

Reference(name, v, active, env) ==
  IF name \in active \/ name \notin DOMAIN env.defs THEN Failed
  ELSE Interpret(env.defs[name], v, active \cup {name}, env)

InDomain(domain, v) == domain = "AnyNumber" \/ (domain = "IntegerOnly" <=> IsInteger(v))

PropertyNames(p, v, env) ==
  LET names == NamesOf(v, env)
  IN  InTurn([i \in DOMAIN names |-> Interpret(p, <<"string", names[i]>>, {}, env)], Len(names))

(* Bounds of scalars; a number that is not finite, no divisor, or a domain *)
(* asked of what is no number, is an error.                                *)
ScalarTest(e, v) ==
  CASE e[1] = "minimum"    -> If(KindOf(v) = "number" => v[2] >= e[2])
    [] e[1] = "multipleOf" -> IF KindOf(v) # "number" THEN Accepted
                              ELSE IF e[2] = 0 THEN Failed
                              ELSE If(v[2] % e[2] = 0)
    [] e[1] = "domain"     -> IF KindOf(v) # "number" THEN Failed ELSE If(InDomain(e[2], v))

PatternTest(e, v) ==
  IF KindOf(v) # "string" THEN Accepted
  ELSE Verdict(IF MatchString(e[2], v[2]) = "NoMatch" THEN "rejected" ELSE "accepted",
               MatchString(e[2], v[2]) = "Unknown")

CountTest(e, v) ==
  CASE e[1] = "minItems"      -> If(KindOf(v) = "array" => Len(v[2]) >= e[2])
    [] e[1] = "maxItems"      -> If(KindOf(v) = "array" => Len(v[2]) <= e[2])
    [] e[1] = "minProperties" -> If(KindOf(v) = "object" => Cardinality(DOMAIN v[2]) >= e[2])
    [] e[1] = "maxProperties" -> If(KindOf(v) = "object" => Cardinality(DOMAIN v[2]) <= e[2])

ContainsCount(e, v, env) ==
  IF KindOf(v) # "array" THEN Accepted
  ELSE Within(CountAccepted([i \in DOMAIN v[2] |-> Interpret(e[2], v[2][i], {}, env)], Len(v[2])),
              e[3], IF e[4] = <<>> THEN Len(v[2]) ELSE e[4][1])

NamesTest(e, v) ==
  LET Has(n) == n \in DOMAIN v[2]
  IN  CASE KindOf(v) # "object" -> Accepted
        [] KindOf(v) = "object" /\ e[1] = "required"  -> If(\A i \in DOMAIN e[2] : Has(e[2][i]))
        [] KindOf(v) = "object" /\ e[1] = "dependent" ->
             If(Has(e[2]) => \A i \in DOMAIN e[3] : Has(e[3][i]))

(* predicate: outside the kind it is about, every predicate accepts.       *)
Predicate(e, v, active, env) ==
  LET isObject == KindOf(v) = "object"
  IN  CASE e[1] = "nil"           -> Accepted
        [] e[1] = "format"        -> Verdict("accepted", TRUE)
        [] e[1] = "pattern"       -> PatternTest(e, v)
        [] e[1] = "uniqueItems"   -> If(KindOf(v) = "array" => IsInjective(v[2]))
        [] e[1] = "contains"      -> ContainsCount(e, v, env)
        [] e[1] = "propertyNames" -> IF isObject THEN PropertyNames(e[2], v, env) ELSE Accepted
        [] e[1] = "object"        -> IF isObject THEN ObjectAgainst(e, v, env) ELSE Accepted
        [] e[1] = "array"         -> IF KindOf(v) = "array" THEN ArrayAgainst(e, v, env) ELSE Accepted
        [] e[1] = "reference"     -> Reference(e[2], v, active, env)
        [] e[1] = "not"           -> Negated(e[2], v, env)
        [] e[1] = "shape"         -> Interpret(e[2], v, {}, env)
        [] e[1] \in {"minimum", "multipleOf", "domain"} -> ScalarTest(e, v)
        [] e[1] \in {"minItems", "maxItems", "minProperties", "maxProperties"} -> CountTest(e, v)
        [] e[1] \in {"required", "dependent"} -> NamesTest(e, v)

(* A guard that does not fire passes, an assertion rejects.                *)
Validation(checks, v, active, env) ==
  InTurn([i \in DOMAIN checks |->
            IF KindOf(v) \in checks[i].on THEN Predicate(checks[i].expr, v, active, env)
            ELSE If(~ checks[i].assert)],
         Len(checks))

(* The first case with an equal literal; cases are <<literal, plan>>.      *)
SelectCase(cases, selector, v, active, env) ==
  LET equal == {i \in DOMAIN cases : cases[i][1] = selector}
  IN  IF equal = {} THEN Rejected
      ELSE Interpret(cases[CHOOSE i \in equal : \A j \in equal : i <= j][2], v, active, env)

Dispatch(d, v, active, env) ==
  LET isObject == KindOf(v) = "object"
      has == isObject /\ d[2] \in DOMAIN v[2]
  IN  CASE d[1] = "none"     -> Accepted
        [] d[1] = "kind"     -> IF KindOf(v) \in DOMAIN d[2]
                                THEN Interpret(d[2][KindOf(v)], v, active, env)
                                ELSE Rejected
        [] d[1] = "literal"  -> SelectCase(d[2], v, v, active, env)
        [] d[1] = "property" -> IF has THEN SelectCase(d[3], v[2][d[2]], v, active, env) ELSE Rejected
        [] d[1] = "presence" -> IF ~ isObject THEN Verdict("accepted", TRUE)
                                ELSE Interpret(IF has THEN d[3] ELSE d[4], v, active, env)
        [] d[1] = "count"    ->
             Within(CountAccepted([i \in DOMAIN d[2] |-> Interpret(d[2][i], v, active, env)], Len(d[2])),
                    d[3], d[4])

(* plan and accept: acceptance is the checks and the dispatch, and never   *)
(* the representation.                                                     *)
InterpretBy(p, v, active, env) ==
  LET r == Validation(p.checks, v, active, env)
  IN  IF r.verdict # "accepted" THEN r ELSE After(r, Dispatch(p.dispatch, v, active, env))
=============================================================================

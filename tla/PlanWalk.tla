------------------------------ MODULE PlanWalk ------------------------------
(***************************************************************************)
(* internal/planwalk: the one traversal of a plan, and the rules every     *)
(* plan the planner makes has to keep.  References are leaves: what they   *)
(* lead to is held once, by the document.                                  *)
(***************************************************************************)
EXTENDS PlanInterpreter

KindOrder == <<"null", "boolean", "number", "string", "array", "object">>

-----------------------------------------------------------------------------
(* The plans nested in a part of a plan, in the order of children.go.      *)

Plans(named) == [i \in DOMAIN named |-> named[i][2]]

FieldPlans(fields) == [i \in DOMAIN fields |-> fields[i].plan]

RECURSIVE RepresentationPlans(_)
RepresentationPlans(rep) ==
  CASE rep[1] = "object" -> FieldPlans(rep[2]) \o rep[4] \o Plans(rep[3])
    [] rep[1] = "array"  -> rep[2] \o rep[3]
    [] rep[1] = "union"  -> FlattenSeq([i \in DOMAIN rep[2] |-> RepresentationPlans(rep[2][i])])
    [] OTHER             -> <<>>

DispatchPlans(d) ==
  CASE d[1] = "kind"     -> LET cases == SelectSeq(KindOrder, LAMBDA k : k \in DOMAIN d[2])
                            IN  [i \in DOMAIN cases |-> d[2][cases[i]]]
    [] d[1] = "literal"  -> Plans(d[2])
    [] d[1] = "property" -> Plans(d[3])
    [] d[1] = "presence" -> <<d[3], d[4]>>
    [] d[1] = "count"    -> d[2]
    [] OTHER             -> <<>>

PredicatePlans(e) ==
  CASE e[1] \in {"contains", "not", "propertyNames", "shape"} -> <<e[2]>>
    [] e[1] = "object" -> FieldPlans(e[2]) \o Plans(e[3]) \o e[4]
    [] e[1] = "array"  -> e[2] \o e[3]
    [] OTHER           -> <<>>

ValidationPlans(checks) ==
  FlattenSeq([i \in DOMAIN checks |-> PredicatePlans(checks[i].expr)])

SubPlans(p) == RepresentationPlans(p.rep) \o DispatchPlans(p.dispatch) \o ValidationPlans(p.checks)

(* planwalk.Representation: a representation and those it is made of.      *)
RECURSIVE Alternatives(_)
Alternatives(rep) ==
  IF rep[1] # "union" THEN <<rep>>
  ELSE <<rep>> \o FlattenSeq([i \in DOMAIN rep[2] |-> Alternatives(rep[2][i])])

(* The reference targets planwalk.Plan comes by, in its order.             *)
RECURSIVE ReferencesIn(_)
ReferencesIn(p) ==
  LET own == SelectSeq(Alternatives(p.rep), LAMBDA r : r[1] = "reference")
      subs == SubPlans(p)
  IN  [i \in DOMAIN own |-> own[i][2]] \o FlattenSeq([i \in DOMAIN subs |-> ReferencesIn(subs[i])])

-----------------------------------------------------------------------------
(* ContractViolations.                                                     *)

(* The kinds a predicate says something about.                             *)
MeaningfulKinds(e) ==
  CASE e[1] \in {"pattern"}                           -> {"string"}
    [] e[1] \in {"minimum", "multipleOf", "domain"}   -> {"number"}
    [] e[1] \in {"minItems", "maxItems", "uniqueItems", "contains", "array"} -> {"array"}
    [] e[1] \in {"required", "minProperties", "maxProperties", "dependent", "propertyNames", "object"}
                                                      -> {"object"}
    [] e[1] \in {"format", "reference", "not", "shape", "nil"} -> AllKinds

(* A slot that holds no plan: neither anything nor nothing is admitted.    *)
NilPlanSlot(r) == (r[1] = "object" /\ r[4] = <<>>) \/ (r[1] = "array" /\ r[3] = <<>>)

NilPlanSlots(p) ==
  \/ \E i \in DOMAIN Alternatives(p.rep) : NilPlanSlot(Alternatives(p.rep)[i])
  \/ \E i \in DOMAIN p.checks : NilPlanSlot(p.checks[i].expr)

UndispatchedUnion(p) == p.rep[1] = "union" /\ p.dispatch[1] = "none"

OverbroadGuards(p) ==
  \E i \in DOMAIN p.checks :
    p.checks[i].expr # Nil /\ ~ (p.checks[i].on \subseteq MeaningfulKinds(p.checks[i].expr))

RECURSIVE ContractViolations(_)
ContractViolations(p) ==
  \/ NilPlanSlots(p) \/ UndispatchedUnion(p) \/ OverbroadGuards(p)
  \/ \E i \in DOMAIN SubPlans(p) : ContractViolations(SubPlans(p)[i])
=============================================================================

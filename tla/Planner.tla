------------------------------- MODULE Planner -------------------------------
(***************************************************************************)
(* internal/planner behind internal/norm: a schema is compiled, rewritten  *)
(* until nothing changes or the loop gives up, and planned; the targets of *)
(* its references are planned apart, each by a Build call of its own.      *)
(***************************************************************************)
EXTENDS PlanBuilder

CONSTANT Names   (* the property names in the order a run meets them       *)

VARIABLE built   (* what Build returned for the schema and each target     *)

plannerVars == <<schema, inner, expr, detail, budget, passes, phase, built>>

(* The schema itself, among the units that are planned.                    *)
Root == ""

(* buildDefinitionsExcept: a target is normalized with a budget of its own *)
NormalTargets ==
  [d \in DOMAIN Defs |->
     Renormalize(Compile(Defs[d]), [budget |-> renormalizeBudget, detail |-> Anything], maxFixpointIters).out]

(* and planned by a Build call with a cell, a memo and gaps of its own.    *)
Units == NormalTargets @@ (Root :> expr)

PlannerInit == Init /\ built = <<>>

Rewriting == Pass /\ UNCHANGED built

(* buildPlan.                                                              *)
Analyze ==
  /\ phase # "rewriting"
  /\ built = <<>>
  /\ built' = [u \in DOMAIN Units |-> Build(Units[u], Fresh(IF u = Root THEN detail ELSE Anything))]
  /\ UNCHANGED vars

PlannerNext == Rewriting \/ Analyze

PlannerSpec == PlannerInit /\ [][PlannerNext]_plannerVars

-----------------------------------------------------------------------------

Plan == built[Root].plan

(* What is reported of the document: of the schema and of every target.    *)
Reported ==
  LET reached == Closure({e[1] : e \in RefsOf(schema, FALSE)}, TRUE)
  IN  built[Root].st.diags \cup UNION {built[d].st.diags : d \in reached}

DefPlans == [d \in DOMAIN Defs |-> built[d].plan]

Answer(p, v) == Interpret(p, v, {}, [defs |-> DefPlans, order |-> Names])

(* "it never permits a plan to reject" (docs/integration.md:69): whatever  *)
(* was distributed, dispatched on, negated or dropped, and wherever the    *)
(* budget ran out, a valid value is accepted, unless the document was      *)
(* reported to rely on a declaration or to be beyond the planner.          *)
NeverRejectsValid ==
  built # <<>> /\ Reported \cap {"Assumed", "Unsupported"} = {} =>
    \A v \in Values : Valid(schema, inner, v) => Answer(Plan, v).verdict = "accepted"

(* What is accepted too much is either reported by the planner or noted by *)
(* the run: an invalid value is accepted silently by no plan.              *)
ExactUnlessReported ==
  built # <<>> /\ Reported \cap {"Unenforced", "Assumed", "Unsupported"} = {} =>
    \A v \in Values : Answer(Plan, v) = Accepted => Valid(schema, inner, v)

(* A negation rests on the memo of refTrusted, made while some part of     *)
(* some other plan was being built: a target it trusts has a plan of its   *)
(* own, from a Build call of its own, that accepts exactly what it should. *)
TrustedTargetsExact ==
  built # <<>> =>
    \A d \in {x \in DOMAIN built[Root].st.trust : built[Root].st.trust[x]}, v \in Values :
      Answer(DefPlans[d], v) = IF Valid(Defs[d], <<>>, v) THEN Accepted ELSE Rejected

(* "the overall result is never lower than any nested part"                *)
(* (classify.go:5-9).                                                      *)
RECURSIVE CoversParts(_)
CoversParts(p) ==
  \A i \in DOMAIN SubPlans(p) : SubPlans(p)[i].cap <= p.cap /\ CoversParts(SubPlans(p)[i])

CapabilityCoversParts == built # <<>> => CoversParts(Plan)

(* planwalk.ContractViolations: what every consumer of a plan may rely on. *)
KeepsPlanContract == built # <<>> => ~ ContractViolations(Plan)
=============================================================================

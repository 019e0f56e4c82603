-------------------------- MODULE CapabilityRollup --------------------------
(***************************************************************************)
(* capability.go: rollUpCapabilities.  A plan is reduced to its capability *)
(* level and to the names its $ref leaves carry.  The function ranges over *)
(* a Go map three times over, so every order of visits is a behaviour:     *)
(* first each plan collects its dependencies and reports its dangling      *)
(* references, then passes over all the plans raise each one to the worst  *)
(* of its dependencies until a whole pass changes nothing.                 *)
(***************************************************************************)
EXTENDS Naturals

CONSTANTS
  Names,        (* what a $ref leaf can name: schema ids, raw references   *)
  Unsupported   (* the top rung of the capability ladder                   *)

ASSUME LadderAssumption == Unsupported \in Nat

VARIABLES
  ids, refs, declared,   (* the map handed in: keys, $ref leaves, levels   *)
  plans,     (* plans[id]: the capability of the plan, updated in place    *)
  deps,      (* deps[id]: the plans it references, collected once          *)
  diags,     (* <<id, name>>: an Unsupported diagnostic was appended       *)
  phase,     (* "collect" | "fixpoint" | "done": which loop is running     *)
  todo,      (* the keys the running range has not visited yet             *)
  changed    (* the loop variable of the fixed point                       *)

vars == <<ids, refs, declared, plans, deps, diags, phase, todo, changed>>
input == <<ids, refs, declared>>

(* The promise this function is held to, on the same map.                  *)
Promise == INSTANCE RolledUp WITH done <- phase = "done"

Levels == Promise!Levels

-----------------------------------------------------------------------------

IsMax(level, S) == level \in S /\ \A l \in S : l <= level

Init ==
  /\ ids \in SUBSET Names
  /\ refs \in [ids -> SUBSET Names]
  /\ declared \in [ids -> Levels]
  /\ plans = declared
  /\ deps = [id \in ids |-> {}]
  /\ diags = {}
  /\ phase = "collect"
  /\ todo = ids
  /\ changed = TRUE

(* Mutant of Collect: a dangling name is kept as a dependency.             *)
CollectKeepingDangling(id) ==
  LET others == refs[id] \ {id}
  IN  /\ phase = "collect"
      /\ id \in todo
      /\ deps' = [deps EXCEPT ![id] = others]
      /\ plans' = [plans EXCEPT ![id] = IF others \subseteq ids THEN @ ELSE Unsupported]
      /\ diags' = diags \cup ({id} \X (others \ ids))
      /\ todo' = todo \ {id}
      /\ UNCHANGED <<input, phase, changed>>

(* Mutant of Collect: dangling names are reported only by plans that have  *)
(* no other reference.                                                     *)
CollectReportingLess(id) ==
  LET others   == refs[id] \ {id}
      dangling == others \ ids
  IN  /\ phase = "collect"
      /\ id \in todo
      /\ deps' = [deps EXCEPT ![id] = others \cap ids]
      /\ plans' = [plans EXCEPT ![id] = IF dangling = {} THEN @ ELSE Unsupported]
      /\ diags' = diags \cup (IF others = dangling THEN {id} \X dangling ELSE {})
      /\ todo' = todo \ {id}
      /\ UNCHANGED <<input, phase, changed>>

(* One iteration of the first range: a reference to the plan itself is     *)
(* ignored, one that has a plan becomes a dependency, any other is         *)
(* dangling, makes the plan Unsupported and is reported.                   *)
Collect(id) ==
  LET others   == refs[id] \ {id}
      dangling == others \ ids
  IN  /\ phase = "collect"
      /\ id \in todo
      /\ deps' = [deps EXCEPT ![id] = others \cap ids]
      /\ plans' = [plans EXCEPT ![id] = IF dangling = {} THEN @ ELSE Unsupported]
      /\ diags' = diags \cup ({id} \X dangling)
      /\ todo' = todo \ {id}
      /\ UNCHANGED <<input, phase, changed>>

(* Mutant of BeginPass: the flag is not reset.                             *)
BeginPassStillChanged ==
  /\ phase \in {"collect", "fixpoint"}
  /\ todo = {}
  /\ changed
  /\ phase' = "fixpoint"
  /\ todo' = ids
  /\ UNCHANGED <<input, plans, deps, diags, changed>>

(* The head of `for changed := true; changed;`, taken once the range       *)
(* before it is exhausted.                                                 *)
BeginPass ==
  /\ phase \in {"collect", "fixpoint"}
  /\ todo = {}
  /\ changed
  /\ phase' = "fixpoint"
  /\ changed' = FALSE
  /\ todo' = ids
  /\ UNCHANGED <<input, plans, deps, diags>>

(* Mutant of Raise: the pass does not notice that it raised a plan.        *)
RaiseUnnoticed(id) ==
  /\ phase = "fixpoint"
  /\ id \in todo
  /\ \E level \in Levels :
       /\ IsMax(level, {plans[id]} \cup {plans[d] : d \in deps[id]})
       /\ plans' = [plans EXCEPT ![id] = level]
  /\ todo' = todo \ {id}
  /\ UNCHANGED <<input, deps, diags, phase, changed>>

(* One iteration of a fixed-point pass.                                    *)
Raise(id) ==
  /\ phase = "fixpoint"
  /\ id \in todo
  /\ \E level \in Levels :
       /\ IsMax(level, {plans[id]} \cup {plans[d] : d \in deps[id]})
       /\ plans' = [plans EXCEPT ![id] = level]
       /\ changed' = (changed \/ level # plans[id])
  /\ todo' = todo \ {id}
  /\ UNCHANGED <<input, deps, diags, phase>>

(* Mutant of Return: one pass is taken to be enough.                       *)
ReturnAfterOnePass ==
  /\ phase = "fixpoint"
  /\ todo = {}
  /\ phase' = "done"
  /\ UNCHANGED <<input, plans, deps, diags, todo, changed>>

Return ==
  /\ phase = "fixpoint"
  /\ todo = {}
  /\ ~ changed
  /\ phase' = "done"
  /\ UNCHANGED <<input, plans, deps, diags, todo, changed>>

Next ==
  \/ \E id \in ids : Collect(id) \/ Raise(id)
  \/ BeginPass
  \/ Return

Spec == Init /\ [][Next]_vars

(* A sequential function that is called runs to its return.                *)
Fairness == WF_vars(Next)
FairSpec == Spec /\ Fairness

-----------------------------------------------------------------------------

TypeOK ==
  /\ ids \subseteq Names
  /\ refs \in [ids -> SUBSET Names]
  /\ declared \in [ids -> Levels]
  /\ plans \in [ids -> Levels]
  /\ deps \in [ids -> SUBSET ids]
  /\ diags \subseteq ids \X Names
  /\ phase \in {"collect", "fixpoint", "done"}
  /\ todo \subseteq ids
  /\ changed \in BOOLEAN

(* When rollUpCapabilities returns, every plan carries exactly the worst   *)
(* level among the plans its references reach, whatever the visit order    *)
(* and whatever cycles the references form.                                *)
SettledAtWorst ==
  phase = "done" =>
    \A id \in ids : Promise!IsWorstReachable(plans[id], id)

(* At no moment does a plan carry a level that neither it nor a plan it    *)
(* reaches has: the roll-up never overstates what a schema costs.          *)
NeverOverstated ==
  \A id \in ids :
    \/ plans[id] = declared[id]
    \/ \E m \in Promise!Reachable(id) : plans[id] = Promise!OwnLevel(m)

(* A plan that comes out Unsupported reaches a plan the planner declared   *)
(* Unsupported, or one whose dangling reference was reported: no plan is   *)
(* refused without an explanation in the diagnostics.                      *)
UnsupportedExplained ==
  phase = "done" =>
    \A id \in ids : plans[id] = Unsupported =>
      \E m \in Promise!Reachable(id) :
        \/ declared[m] = Unsupported
        \/ \E n \in Names : <<m, n>> \in diags

(* The loops terminate on cyclic references too.                           *)
Termination == <>(phase = "done")

(* Every step of the loops is one the promise allows.                      *)
ImplementsPromise == Promise!Spec
=============================================================================

------------------------------ MODULE RolledUp ------------------------------
(***************************************************************************)
(* What the capability roll-up promises (capability.go, the doc comment of *)
(* rollUpCapabilities): when it returns, the level of every plan is the    *)
(* worst level of any plan it reaches through references, a plan with a    *)
(* reference that names no plan counting as Unsupported.  On the way       *)
(* levels only climb, and only to a level some reachable plan justifies.   *)
(***************************************************************************)
EXTENDS Naturals

CONSTANTS
  Names,        (* what a $ref leaf can name: schema ids, raw references   *)
  Unsupported   (* the top rung of the capability ladder                   *)

VARIABLES
  ids,        (* the names that have a plan                                *)
  refs,       (* refs[id]: the names the $ref leaves of that plan carry    *)
  declared,   (* declared[id]: the level the planner gave the plan         *)
  plans,      (* plans[id]: the level of the plan now                      *)
  done        (* the roll-up has returned                                  *)

vars == <<ids, refs, declared, plans, done>>

Levels == 0 .. Unsupported

(***************************************************************************)
(* The reference graph: a plan depends on the plans it references, itself  *)
(* excepted, and reaches what every set of plans closed under              *)
(* dependencies and holding it must hold.                                  *)
(***************************************************************************)
Dependencies(id) == (refs[id] \cap ids) \ {id}

Closed(S) == \A m \in S : Dependencies(m) \subseteq S

Reachable(id) ==
  {m \in ids : \A S \in SUBSET ids : id \in S /\ Closed(S) => m \in S}

Dangling(id) == refs[id] \ ids

OwnLevel(id) == IF Dangling(id) = {} THEN declared[id] ELSE Unsupported

IsWorstReachable(level, id) ==
  /\ \E m \in Reachable(id) : level = OwnLevel(m)
  /\ \A m \in Reachable(id) : OwnLevel(m) <= level

-----------------------------------------------------------------------------

Init ==
  /\ ids \in SUBSET Names
  /\ refs \in [ids -> SUBSET Names]
  /\ declared \in [ids -> Levels]
  /\ plans = declared
  /\ done = FALSE

Climb ==
  /\ ~ done
  /\ plans' \in [ids -> Levels]
  /\ \A id \in ids :
       \/ plans'[id] = plans[id]
       \/ /\ plans[id] < plans'[id]
          /\ \E m \in Reachable(id) : plans'[id] = OwnLevel(m)
  /\ UNCHANGED <<ids, refs, declared, done>>

Return ==
  /\ ~ done
  /\ \A id \in ids : IsWorstReachable(plans[id], id)
  /\ done' = TRUE
  /\ UNCHANGED <<ids, refs, declared, plans>>

Next == Climb \/ Return

Spec == Init /\ [][Next]_vars
=============================================================================

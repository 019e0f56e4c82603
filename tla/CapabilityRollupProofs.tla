----------------------- MODULE CapabilityRollupProofs -----------------------
(***************************************************************************)
(* For every set of names, every height of the ladder and every reference  *)
(* graph: the roll-up is type correct, never overstates a level, settles   *)
(* at the worst reachable level and implements its promise.                *)
(*                                                                         *)
(* Reachability is the intersection of closed sets, so no proof needs      *)
(* induction over paths: to bound what id reaches, exhibit a closed set.   *)
(***************************************************************************)
EXTENDS CapabilityRollup, TLAPS

USE LadderAssumption DEF LadderAssumption

(* The first loop is past the plan id.                                     *)
Collected(id) == phase # "collect" \/ id \notin todo

(* What holds of a plan before and after the first loop visits it.         *)
PlanInv ==
  \A id \in ids :
    /\ ~ Collected(id) => plans[id] = declared[id]
    /\ Collected(id) =>
         /\ deps[id] = Promise!Dependencies(id)
         /\ \A n \in Promise!Dangling(id) : <<id, n>> \in diags
         /\ Promise!OwnLevel(id) <= plans[id]
         /\ \E m \in Promise!Reachable(id) : plans[id] = Promise!OwnLevel(m)

(* A pass that has changed nothing so far leaves the plans it visited at   *)
(* least as high as their dependencies.                                    *)
PassInv ==
  /\ phase = "collect" => changed
  /\ phase = "done" => todo = {} /\ ~ changed
  /\ ~ changed => \A id \in ids \ todo : \A d \in deps[id] : plans[d] <= plans[id]

IInv == TypeOK /\ PlanInv /\ PassInv

-----------------------------------------------------------------------------

(* A plan reaches itself.                                                  *)
LEMMA ReachesItself == \A id \in ids : id \in Promise!Reachable(id)
BY DEF Promise!Reachable

(* What a dependency reaches, the plan reaches.                            *)
LEMMA ReachesThrough ==
  ASSUME NEW id \in ids, NEW d \in Promise!Dependencies(id)
  PROVE  Promise!Reachable(d) \subseteq Promise!Reachable(id)
<1> SUFFICES ASSUME NEW m \in Promise!Reachable(d),
                    NEW S \in SUBSET ids, id \in S, Promise!Closed(S)
             PROVE  m \in S
  BY DEF Promise!Reachable
<1>1. d \in S
  BY DEF Promise!Closed
<1> QED
  BY <1>1 DEF Promise!Reachable

(* A level function that never drops along a dependency bounds every       *)
(* reachable plan.                                                         *)
LEMMA LevelsBoundReachable ==
  ASSUME plans \in [ids -> Levels],
         \A m \in ids : \A d \in Promise!Dependencies(m) : plans[d] <= plans[m],
         NEW id \in ids, NEW m \in Promise!Reachable(id)
  PROVE  plans[m] <= plans[id]
<1> DEFINE S == {k \in ids : plans[k] <= plans[id]}
<1>1. id \in S
  BY DEF Levels, Promise!Levels
<1>2. Promise!Closed(S)
  <2> SUFFICES ASSUME NEW k \in S, NEW d \in Promise!Dependencies(k)
               PROVE  d \in S
    BY DEF Promise!Closed
  <2>1. d \in ids /\ plans[d] <= plans[k] /\ plans[k] <= plans[id]
    BY DEF Promise!Dependencies
  <2> QED
    BY <2>1 DEF Levels, Promise!Levels
<1> QED
  BY <1>1, <1>2 DEF Promise!Reachable
-----------------------------------------------------------------------------

(* Every step keeps the types.                                             *)
LEMMA TypePreserves == TypeOK /\ [Next]_vars => TypeOK'
<1> USE DEF Levels, Promise!Levels
<1> SUFFICES ASSUME TypeOK, [Next]_vars PROVE TypeOK'
  OBVIOUS
<1> USE DEF TypeOK, input
<1>1. ASSUME NEW id \in ids, Collect(id) PROVE TypeOK'
  <2>1. diags' \subseteq ids \X Names
    BY <1>1 DEF Collect
  <2> QED
    BY <1>1, <2>1 DEF Collect
<1>2. ASSUME NEW id \in ids, Raise(id) PROVE TypeOK'
  BY <1>2 DEF Raise
<1>3. CASE BeginPass
  BY <1>3 DEF BeginPass
<1>4. CASE Return
  BY <1>4 DEF Return
<1>5. CASE UNCHANGED vars
  BY <1>5 DEF vars
<1> QED
  BY <1>1, <1>2, <1>3, <1>4, <1>5 DEF Next

(* Every variable of the roll-up keeps its type.                           *)
THEOREM TypeCorrect == Spec => []TypeOK
<1>1. Init => TypeOK
  BY DEF Init, TypeOK, Levels, Promise!Levels
<1> QED
  BY <1>1, TypePreserves, PTL DEF Spec

-----------------------------------------------------------------------------

(* The inputs never change, so neither does what is reachable, dangling or *)
(* a plan's own level.                                                     *)
LEMMA GraphIsConstant ==
  ASSUME UNCHANGED input
  PROVE  /\ ids' = ids /\ declared' = declared
         /\ \A id : /\ Promise!Dependencies(id)' = Promise!Dependencies(id)
                    /\ Promise!Dangling(id)' = Promise!Dangling(id)
                    /\ Promise!OwnLevel(id)' = Promise!OwnLevel(id)
                    /\ Promise!Reachable(id)' = Promise!Reachable(id)
BY DEF input, Promise!Dependencies, Promise!Dangling, Promise!OwnLevel,
       Promise!Reachable, Promise!Closed

(* Own levels are levels, and so is what a justified plan carries.         *)
LEMMA OwnLevelIsLevel ==
  ASSUME TypeOK, NEW id \in ids
  PROVE  Promise!OwnLevel(id) \in Levels
BY DEF TypeOK, Promise!OwnLevel, Levels, Promise!Levels

LEMMA InitEstablishes == Init => IInv
<1> SUFFICES ASSUME Init PROVE IInv
  OBVIOUS
<1>1. TypeOK
  BY DEF Init, TypeOK, Levels, Promise!Levels
<1>2. PlanInv /\ PassInv
  BY DEF Init, PlanInv, PassInv, Collected
<1> QED
  BY <1>1, <1>2 DEF IInv

LEMMA CollectPreserves ==
  ASSUME IInv, NEW id \in ids, Collect(id)
  PROVE  PlanInv' /\ PassInv'
<1> USE DEF IInv, TypeOK
<1>1. UNCHANGED input
  BY DEF Collect
<1>2. PlanInv'
  <2> SUFFICES ASSUME NEW k \in ids
               PROVE  /\ ~ Collected(k)' => plans'[k] = declared[k]
                      /\ Collected(k)' =>
                           /\ deps'[k] = Promise!Dependencies(k)
                           /\ \A n \in Promise!Dangling(k) : <<k, n>> \in diags'
                           /\ Promise!OwnLevel(k) <= plans'[k]
                           /\ \E m \in Promise!Reachable(k) :
                                plans'[k] = Promise!OwnLevel(m)
    BY <1>1, GraphIsConstant DEF PlanInv
  <2>1. CASE k = id
    <3>1. deps'[id] = Promise!Dependencies(id)
      BY DEF Collect, Promise!Dependencies
    <3>2. Promise!Dangling(id) = (refs[id] \ {id}) \ ids
      BY DEF Promise!Dangling
    <3>3. \A n \in Promise!Dangling(id) : <<id, n>> \in diags'
      BY <3>2 DEF Collect
    <3>4. plans'[id] = Promise!OwnLevel(id)
      BY <3>2 DEF Collect, PlanInv, Collected, Promise!OwnLevel
    <3>5. ~ Collected(id)' = FALSE
      BY DEF Collect, Collected
    <3>6. Promise!OwnLevel(id) <= plans'[id]
      BY <3>4, OwnLevelIsLevel DEF Levels, Promise!Levels
    <3> QED
      BY <2>1, <3>1, <3>3, <3>4, <3>5, <3>6, ReachesItself
  <2>2. CASE k # id
    <3>1. plans'[k] = plans[k] /\ deps'[k] = deps[k] /\ diags \subseteq diags'
      BY <2>2 DEF Collect
    <3>2. Collected(k)' = Collected(k)
      BY <2>2 DEF Collect, Collected
    <3> QED
      BY <3>1, <3>2 DEF PlanInv
  <2> QED
    BY <2>1, <2>2
<1>3. PassInv'
  BY DEF Collect, PassInv
<1> QED
  BY <1>2, <1>3

LEMMA RaisePreserves ==
  ASSUME IInv, NEW id \in ids, Raise(id)
  PROVE  PlanInv' /\ PassInv'
<1> USE DEF IInv, TypeOK
<1>1. UNCHANGED input
  BY DEF Raise
<1>2. PICK level \in Levels :
        /\ IsMax(level, {plans[id]} \cup {plans[d] : d \in deps[id]})
        /\ plans' = [plans EXCEPT ![id] = level]
        /\ changed' = (changed \/ level # plans[id])
  BY DEF Raise
<1>3. phase = "fixpoint" /\ phase' = phase /\ deps' = deps /\ diags' = diags
      /\ todo' = todo \ {id}
  BY DEF Raise
<1>4. \A k \in ids : Collected(k) /\ Collected(k)'
  BY <1>3 DEF Collected
<1>5. deps[id] = Promise!Dependencies(id)
  BY <1>4 DEF PlanInv
<1>6. plans[id] <= level /\ \A d \in deps[id] : plans[d] <= level
  BY <1>2 DEF IsMax
<1>7. \E m \in Promise!Reachable(id) : level = Promise!OwnLevel(m)
  <2>1. CASE level = plans[id]
    BY <2>1, <1>4 DEF PlanInv
  <2>2. ASSUME NEW d \in deps[id], level = plans[d]
        PROVE  \E m \in Promise!Reachable(id) : level = Promise!OwnLevel(m)
    <3>1. d \in ids
      OBVIOUS
    <3>2. PICK m \in Promise!Reachable(d) : plans[d] = Promise!OwnLevel(m)
      BY <3>1, <1>4 DEF PlanInv
    <3>3. m \in Promise!Reachable(id)
      BY <1>5, ReachesThrough
    <3> QED
      BY <2>2, <3>2, <3>3
  <2> QED
    BY <1>2, <2>1, <2>2 DEF IsMax
<1>8. PlanInv'
  <2> SUFFICES ASSUME NEW k \in ids
               PROVE  /\ deps[k] = Promise!Dependencies(k)
                      /\ \A n \in Promise!Dangling(k) : <<k, n>> \in diags
                      /\ Promise!OwnLevel(k) <= plans'[k]
                      /\ \E m \in Promise!Reachable(k) :
                           plans'[k] = Promise!OwnLevel(m)
    BY <1>1, <1>3, <1>4, GraphIsConstant DEF PlanInv
  <2>1. /\ deps[k] = Promise!Dependencies(k)
        /\ \A n \in Promise!Dangling(k) : <<k, n>> \in diags
        /\ Promise!OwnLevel(k) <= plans[k]
        /\ \E m \in Promise!Reachable(k) : plans[k] = Promise!OwnLevel(m)
    BY <1>4 DEF PlanInv
  <2>2. CASE k = id
    <3>1. plans'[k] = level
      BY <2>2, <1>2
    <3>2. Promise!OwnLevel(k) <= level
      BY <2>1, <2>2, <1>6, OwnLevelIsLevel DEF Levels, Promise!Levels
    <3> QED
      BY <2>1, <2>2, <3>1, <3>2, <1>7
  <2>3. CASE k # id
    <3>1. plans'[k] = plans[k]
      BY <2>3, <1>2
    <3> QED
      BY <2>1, <3>1
  <2> QED
    BY <2>2, <2>3
<1>9. PassInv'
  <2>1. ASSUME ~ changed'
        PROVE  \A k \in ids \ todo' : \A d \in deps[k] : plans'[d] <= plans'[k]
    <3>1. ~ changed /\ plans' = plans
      BY <1>2, <2>1
    <3>2. \A k \in ids \ todo : \A d \in deps[k] : plans[d] <= plans[k]
      BY <3>1 DEF PassInv
    <3>3. \A d \in deps[id] : plans[d] <= plans[id]
      BY <1>2, <1>6, <2>1, <3>1
    <3> QED
      BY <1>3, <3>1, <3>2, <3>3
  <2> QED
    BY <1>1, <1>3, <2>1 DEF PassInv, input
<1> QED
  BY <1>8, <1>9

LEMMA NextPreserves == IInv /\ [Next]_vars => PlanInv' /\ PassInv'
<1> SUFFICES ASSUME IInv, [Next]_vars PROVE PlanInv' /\ PassInv'
  OBVIOUS
<1>1. ASSUME NEW id \in ids, Collect(id) PROVE PlanInv' /\ PassInv'
  BY <1>1, CollectPreserves
<1>2. ASSUME NEW id \in ids, Raise(id) PROVE PlanInv' /\ PassInv'
  BY <1>2, RaisePreserves
<1>3. CASE BeginPass
  <2>1. UNCHANGED input
    BY <1>3 DEF BeginPass
  <2>2. PlanInv'
    BY <1>3, <2>1, GraphIsConstant DEF BeginPass, IInv, PlanInv, Collected
  <2> QED
    BY <1>3, <2>2 DEF BeginPass, PassInv, input
<1>4. CASE Return
  <2>1. UNCHANGED input
    BY <1>4 DEF Return
  <2>2. PlanInv'
    BY <1>4, <2>1, GraphIsConstant DEF Return, IInv, PlanInv, Collected
  <2> QED
    BY <1>4, <2>2 DEF Return, IInv, PassInv, input
<1>5. CASE UNCHANGED vars
  <2>1. UNCHANGED input
    BY <1>5 DEF vars, input
  <2> QED
    BY <1>5, <2>1, GraphIsConstant DEF vars, IInv, PlanInv, PassInv, Collected
<1> QED
  BY <1>1, <1>2, <1>3, <1>4, <1>5 DEF Next

(* The inductive invariant holds of every behaviour.                       *)
THEOREM Invariance == Spec => []IInv
<1>1. PlanInv /\ PassInv /\ TypeOK /\ [Next]_vars => PlanInv' /\ PassInv'
  BY NextPreserves DEF IInv
<1>2. Init => PlanInv /\ PassInv
  BY InitEstablishes DEF IInv
<1>3. Spec => [](PlanInv /\ PassInv)
  BY <1>1, <1>2, TypeCorrect, PTL DEF Spec
<1>4. TypeOK /\ PlanInv /\ PassInv => IInv
  BY DEF IInv
<1> QED
  BY <1>3, <1>4, TypeCorrect, PTL

-----------------------------------------------------------------------------

(* When nothing is left to raise, every plan sits at its worst reachable   *)
(* level: the levels never drop along a dependency, so they bound          *)
(* everything reachable.                                                   *)
LEMMA StableMeansSettled ==
  ASSUME IInv, phase = "fixpoint" \/ phase = "done", todo = {}, ~ changed
  PROVE  \A id \in ids : Promise!IsWorstReachable(plans[id], id)
<1> USE DEF IInv
<1>1. \A k \in ids : Collected(k)
  BY DEF Collected
<1>2. \A k \in ids : \A d \in Promise!Dependencies(k) : plans[d] <= plans[k]
  BY <1>1 DEF PlanInv, PassInv
<1> SUFFICES ASSUME NEW id \in ids
             PROVE  Promise!IsWorstReachable(plans[id], id)
  OBVIOUS
<1>3. \E m \in Promise!Reachable(id) : plans[id] = Promise!OwnLevel(m)
  BY <1>1 DEF PlanInv
<1>4. ASSUME NEW m \in Promise!Reachable(id)
      PROVE  Promise!OwnLevel(m) <= plans[id]
  <2>1. m \in ids
    BY DEF Promise!Reachable
  <2>2. plans[m] <= plans[id]
    BY <1>2, LevelsBoundReachable DEF TypeOK
  <2>3. Promise!OwnLevel(m) <= plans[m]
    BY <2>1, <1>1 DEF PlanInv
  <2>4. Promise!OwnLevel(m) \in Nat /\ plans[m] \in Nat /\ plans[id] \in Nat
    BY <2>1, OwnLevelIsLevel DEF TypeOK, Levels, Promise!Levels
  <2> QED
    BY <2>2, <2>3, <2>4
<1> QED
  BY <1>3, <1>4 DEF Promise!IsWorstReachable

(* What the invariant says of the levels: on the way none is overstated,   *)
(* and at the end each is the worst reachable one and is explained.        *)
LEMMA InvariantJustifies == IInv => SettledAtWorst /\ NeverOverstated
BY StableMeansSettled DEF IInv, PlanInv, PassInv, SettledAtWorst, NeverOverstated

LEMMA InvariantExplains == IInv => UnsupportedExplained
<1> SUFFICES ASSUME IInv, phase = "done", NEW id \in ids, plans[id] = Unsupported
             PROVE  \E m \in Promise!Reachable(id) :
                      \/ declared[m] = Unsupported
                      \/ \E n \in Names : <<m, n>> \in diags
  BY DEF UnsupportedExplained
<1>1. \A k \in ids : Collected(k)
  BY DEF Collected
<1>2. PICK m \in Promise!Reachable(id) : plans[id] = Promise!OwnLevel(m)
  BY <1>1 DEF IInv, PlanInv
<1>3. m \in ids
  BY DEF Promise!Reachable
<1>4. CASE Promise!Dangling(m) = {}
  BY <1>2, <1>4 DEF Promise!OwnLevel
<1>5. ASSUME NEW n \in Promise!Dangling(m)
      PROVE  \E k \in Names : <<m, k>> \in diags
  <2>1. <<m, n>> \in diags
    BY <1>1, <1>3 DEF IInv, PlanInv
  <2>2. n \in Names
    BY <1>3 DEF IInv, TypeOK, Promise!Dangling
  <2> QED
    BY <2>1, <2>2
<1> QED
  BY <1>4, <1>5

(* The roll-up returns the worst reachable level of every plan.            *)
THEOREM SettlesAtWorst == Spec => []SettledAtWorst
BY InvariantJustifies, Invariance, PTL

(* No intermediate level is one the plan's references do not justify.      *)
THEOREM OverstatesNothing == Spec => []NeverOverstated
BY InvariantJustifies, Invariance, PTL

(* An Unsupported result always has a declared cause or a diagnostic.      *)
THEOREM ExplainsUnsupported == Spec => []UnsupportedExplained
BY InvariantExplains, Invariance, PTL

(* The loops implement the promise: a visit is a climb or a stutter, the   *)
(* return happens only at the worst reachable levels.                      *)
THEOREM KeepsPromise == Spec => ImplementsPromise
<1>1. Init => Promise!Init
  BY DEF Init, Promise!Init, Levels
<1>2. IInv /\ IInv' /\ [Next]_vars => [Promise!Next]_(Promise!vars)
  <2> SUFFICES ASSUME IInv, IInv', [Next]_vars
               PROVE  Promise!Next \/ UNCHANGED Promise!vars
    BY DEF Promise!vars
  <2> USE DEF Promise!vars, input
  <2>1. ASSUME UNCHANGED input, phase # "done", phase' # "done",
               \A k \in ids : plans'[k] = plans[k] \/
                 (plans[k] < plans'[k] /\ Collected(k)')
        PROVE  Promise!Climb
    <3>1. plans' \in [ids -> Promise!Levels]
      BY <2>1 DEF IInv, TypeOK, Levels
    <3>2. ASSUME NEW k \in ids, Collected(k)'
          PROVE  \E m \in Promise!Reachable(k) : plans'[k] = Promise!OwnLevel(m)
      BY <2>1, <3>2, GraphIsConstant DEF IInv, PlanInv
    <3> QED
      BY <2>1, <3>1, <3>2 DEF Promise!Climb
  <2>2. ASSUME NEW id \in ids, Collect(id)
        PROVE  Promise!Next \/ UNCHANGED Promise!vars
    <3>1. \A k \in ids : plans'[k] = plans[k] \/
            (plans[k] < plans'[k] /\ Collected(k)')
      BY <2>2 DEF Collect, Collected, IInv, TypeOK, Levels, Promise!Levels
    <3> QED
      BY <2>1, <2>2, <3>1 DEF Collect, Promise!Next
  <2>3. ASSUME NEW id \in ids, Raise(id)
        PROVE  Promise!Next \/ UNCHANGED Promise!vars
    <3>1. \A k \in ids : plans'[k] = plans[k] \/
            (plans[k] < plans'[k] /\ Collected(k)')
      BY <2>3 DEF Raise, IsMax, Collected, IInv, TypeOK, Levels, Promise!Levels
    <3> QED
      BY <2>1, <2>3, <3>1 DEF Raise, Promise!Next
  <2>4. CASE BeginPass
    BY <2>4 DEF BeginPass
  <2>5. CASE Return
    <3>1. \A id \in ids : Promise!IsWorstReachable(plans[id], id)
      BY <2>5, StableMeansSettled DEF Return
    <3> QED
      BY <2>5, <3>1 DEF Return, Promise!Next, Promise!Return
  <2>6. CASE UNCHANGED vars
    BY <2>6 DEF vars
  <2> QED
    BY <2>2, <2>3, <2>4, <2>5, <2>6 DEF Next
<1> QED
  BY <1>1, <1>2, Invariance, PTL DEF Spec, Promise!Spec, ImplementsPromise
=============================================================================

------------------------- MODULE InhabitationProofs -------------------------
(***************************************************************************)
(* For every registry: the analysis flags a schema wrongly only through    *)
(* the one construct RequiredNamesDeclared excludes, and within the        *)
(* constructs it models it misses no empty recursion.  Inhabitable is a    *)
(* least fixed point given as an intersection: it is closed, because       *)
(* building instances is monotone, and included in every closed set.       *)
(***************************************************************************)
EXTENDS Inhabitation, TLAPS

USE NodesAssumption DEF NodesAssumption

(* A pass that has proven nothing so far has nothing to prove among the    *)
(* nodes behind it; the report lists nodes outside the fixed point.  No    *)
(* false schema is ever proven.                                            *)
PassInv ==
  /\ \A n \in inhabited : schema[n].always # "false"
  /\ ~ changed => \A n \in Nodes : n < i => n \in inhabited \/ ~ NodeInhabited(n, inhabited)
  /\ phase = "done" => i = N + 1 /\ ~ changed
  /\ uninhabited = (IF phase = "done"
                    THEN {n \in Nodes \ inhabited :
                            Recursive(n) /\ schema[n].required # {}}
                    ELSE {})

IInv == TypeOK /\ PassInv

(* Every variable keeps its type.                                          *)
THEOREM TypeCorrect == Spec => []TypeOK
<1>1. Init => TypeOK
  <2>1. 1 \in 1 .. N + 1
    OBVIOUS
  <2> QED
    BY <2>1 DEF Init, TypeOK
<1>2. TypeOK /\ [Next]_vars => TypeOK'
  <2> SUFFICES ASSUME TypeOK, [Next]_vars PROVE TypeOK'
    OBVIOUS
  <2> USE DEF TypeOK
  <2>0. 1 \in 1 .. N + 1
    OBVIOUS
  <2>1. CASE Visit
    <3>1. i \in Nodes /\ i' \in 1 .. N + 1
      BY <2>1 DEF Visit, Nodes
    <3> QED
      BY <2>1, <3>1 DEF Visit
  <2>2. CASE NextPass
    BY <2>0, <2>2 DEF NextPass
  <2>3. CASE Report
    BY <2>3 DEF Report
  <2>4. CASE UNCHANGED vars
    BY <2>4 DEF vars
  <2> QED
    BY <2>1, <2>2, <2>3, <2>4 DEF Next
<1> QED
  BY <1>1, <1>2, PTL DEF Spec

(* The keywords do not change, so neither do the operators over them.      *)
LEMMA KeywordsAreConstant ==
  ASSUME UNCHANGED schema
  PROVE  /\ \A n, S : NodeInhabited(n, S)' = NodeInhabited(n, S')
         /\ \A n : Recursive(n)' = Recursive(n)
         /\ Inhabitable' = Inhabitable
         /\ RequiredNamesDeclared' = RequiredNamesDeclared
         /\ OnlyModelled' = OnlyModelled
BY DEF NodeInhabited, RequiredInhabited, Recursive, Successors, Inhabitable,
       HasInstance, Selected, RequiredNamesDeclared, OnlyModelled
-----------------------------------------------------------------------------

LEMMA InitEstablishes == Init => PassInv
<1> SUFFICES ASSUME Init PROVE PassInv
  OBVIOUS
<1>1. \A n \in Nodes : ~ (n < 1)
  BY DEF Nodes
<1> QED
  BY <1>1 DEF Init, PassInv

LEMMA NextPreserves == TypeOK /\ PassInv /\ [Next]_vars => PassInv'
<1> SUFFICES ASSUME TypeOK, PassInv, [Next]_vars PROVE PassInv'
  OBVIOUS
<1>1. CASE Visit
  <2>1. UNCHANGED schema /\ i \in Nodes /\ i' = i + 1 /\ phase = "scan" /\ phase' = "scan"
        /\ uninhabited' = uninhabited
    BY <1>1 DEF Visit, TypeOK, Nodes
  <2>2. ASSUME ~ changed', NEW n \in Nodes, n < i'
        PROVE  n \in inhabited' \/ ~ NodeInhabited(n, inhabited')
    <3>1. /\ inhabited' = inhabited /\ ~ changed
          /\ i \in inhabited \/ ~ NodeInhabited(i, inhabited)
      BY <1>1, <2>2 DEF Visit
    <3>2. n < i \/ n = i
      BY <2>1, <2>2 DEF Nodes
    <3> QED
      BY <3>1, <3>2 DEF PassInv
  <2>3. \A n \in Nodes : NodeInhabited(n, inhabited)' = NodeInhabited(n, inhabited')
    BY <2>1, KeywordsAreConstant
  <2>4. \A n \in inhabited' : schema'[n].always # "false"
    <3>1. NodeInhabited(i, inhabited) => schema[i].always # "false"
      BY DEF NodeInhabited
    <3> QED
      BY <1>1, <2>1, <3>1 DEF Visit, PassInv
  <2> QED
    BY <2>1, <2>2, <2>3, <2>4 DEF PassInv
<1>2. CASE NextPass
  <2>1. \A n \in Nodes : ~ (n < 1)
    BY DEF Nodes
  <2>2. /\ i' = 1 /\ phase' = "scan" /\ phase = "scan"
        /\ UNCHANGED <<uninhabited, schema, inhabited>>
    BY <1>2 DEF NextPass
  <2> QED
    BY <2>1, <2>2 DEF PassInv
<1>3. CASE Report
  <2>1. /\ UNCHANGED <<schema, inhabited, i, changed>>
        /\ ~ changed /\ phase' = "done" /\ phase = "scan"
        /\ uninhabited' = {n \in Nodes \ inhabited :
                             Recursive(n) /\ schema[n].required # {}}
    BY <1>3 DEF Report
  <2>2. i = N + 1
    BY <1>3 DEF Report, TypeOK
  <2>3. /\ \A n \in Nodes : NodeInhabited(n, inhabited)' = NodeInhabited(n, inhabited)
        /\ \A n \in Nodes : Recursive(n)' = Recursive(n)
    BY <2>1, KeywordsAreConstant
  <2>4. uninhabited' = {n \in Nodes \ inhabited' :
                          Recursive(n)' /\ schema'[n].required # {}}
    BY <2>1, <2>3
  <2> QED
    BY <2>1, <2>2, <2>3, <2>4 DEF PassInv
<1>4. CASE UNCHANGED vars
  <2>1. UNCHANGED <<schema, inhabited, i, changed, phase, uninhabited>>
    BY <1>4 DEF vars
  <2>2. /\ \A n \in Nodes : NodeInhabited(n, inhabited)' = NodeInhabited(n, inhabited)
        /\ \A n \in Nodes : Recursive(n)' = Recursive(n)
    BY <2>1, KeywordsAreConstant
  <2> QED
    BY <2>1, <2>2 DEF PassInv
<1> QED
  BY <1>1, <1>2, <1>3, <1>4 DEF Next

(* The inductive invariant holds of every behaviour.                       *)
THEOREM Invariance == Spec => []IInv
<1>1. TypeOK /\ PassInv => IInv
  BY DEF IInv
<1> QED
  BY <1>1, InitEstablishes, NextPreserves, TypeCorrect, PTL DEF Spec

-----------------------------------------------------------------------------

(* Every set closed under building instances holds what is inhabitable.    *)
LEMMA LeastClosed ==
  ASSUME NEW S \in SUBSET Nodes, \A m \in Nodes : HasInstance(m, S) => m \in S
  PROVE  Inhabitable \subseteq S
BY DEF Inhabitable

(* Outside the analysis' fixed point nothing can be built, if required     *)
(* names are declared: what the meaning of the keywords can build from the *)
(* proven nodes, the analysis proves.                                      *)
LEMMA BuiltMeansProven ==
  ASSUME TypeOK, PassInv, RequiredNamesDeclared,
         NEW n \in Nodes, HasInstance(n, inhabited)
  PROVE  NodeInhabited(n, inhabited)
<1> DEFINE s == schema[n]
<1>1. s \in Schemas
  BY DEF TypeOK
<1>2. CASE s.always = "true"
  BY <1>2 DEF NodeInhabited
<1>3. CASE s.always # "true"
  <2>1. s.always = "unset" /\ (s.ref # 0 => s.ref \in inhabited)
    BY <1>3 DEF HasInstance
  <2>2. ASSUME s.combinator = 0, s.objectOnly, NEW p \in s.required
        PROVE  RequiredInhabited(s, p, inhabited)
    <3>1. Selected(s, p) \subseteq inhabited
      BY <1>3, <2>2 DEF HasInstance
    <3>2. CASE s.property[p] # 0
      BY <3>1, <3>2 DEF Selected, RequiredInhabited
    <3>3. CASE s.property[p] = 0 /\ s.pattern[p] # 0
      BY <2>2, <3>3 DEF RequiredNamesDeclared, RequiredInhabited
    <3>4. CASE s.property[p] = 0 /\ s.pattern[p] = 0 /\ s.additional # 0
      <4>1. s.additional \in inhabited
        BY <3>1, <3>4 DEF Selected
      <4>2. s.additional \in Nodes /\ schema[s.additional].always # "false"
        BY <4>1 DEF TypeOK, PassInv
      <4> QED
        BY <3>4, <4>2 DEF RequiredInhabited
    <3>5. CASE s.property[p] = 0 /\ s.additional = 0
      BY <3>5 DEF RequiredInhabited
    <3> QED
      BY <3>2, <3>3, <3>4, <3>5
  <2> QED
    BY <2>1, <2>2 DEF NodeInhabited
<1> QED
  BY <1>2, <1>3

-----------------------------------------------------------------------------

(* A satisfiable schema is never wrongly flagged: with the required names  *)
(* declared, the fixed point is closed under building instances, so it     *)
(* holds every inhabitable node and the report lists none.                 *)
THEOREM FlagsNothingSatisfiable ==
  Spec /\ RequiredNamesDeclared => []NeverWronglyFlagged
<1>1. IInv /\ RequiredNamesDeclared => NeverWronglyFlagged
  <2> SUFFICES ASSUME TypeOK, PassInv, RequiredNamesDeclared
               PROVE  NeverWronglyFlagged
    BY DEF IInv
  <2>1. CASE phase # "done"
    BY <2>1 DEF PassInv, NeverWronglyFlagged
  <2>2. CASE phase = "done"
    <3>1. \A m \in Nodes : m < i
      BY <2>2 DEF PassInv, Nodes
    <3>2. \A m \in Nodes : NodeInhabited(m, inhabited) => m \in inhabited
      BY <2>2, <3>1 DEF PassInv
    <3>3. \A m \in Nodes : HasInstance(m, inhabited) => m \in inhabited
      BY <3>2, BuiltMeansProven
    <3>4. Inhabitable \subseteq inhabited
      BY <3>3, LeastClosed DEF TypeOK
    <3>5. uninhabited \cap inhabited = {}
      BY <2>2 DEF PassInv
    <3> QED
      BY <3>4, <3>5 DEF NeverWronglyFlagged
  <2> QED
    BY <2>1, <2>2
<1>2. RequiredNamesDeclared /\ [Next]_vars => RequiredNamesDeclared'
  <2> SUFFICES ASSUME RequiredNamesDeclared, [Next]_vars
               PROVE  RequiredNamesDeclared'
    OBVIOUS
  <2>1. UNCHANGED schema
    BY DEF Next, Visit, NextPass, Report, vars
  <2> QED
    BY <2>1, KeywordsAreConstant
<1> QED
  BY <1>1, <1>2, Invariance, PTL DEF Spec

-----------------------------------------------------------------------------

(* What can be built from fewer parts can be built from more.              *)
LEMMA BuildingIsMonotone ==
  ASSUME NEW S, NEW T, S \subseteq T, NEW n, HasInstance(n, S)
  PROVE  HasInstance(n, T)
BY DEF HasInstance

(* So what can be built from inhabitable nodes is inhabitable.             *)
LEMMA InhabitableIsClosed ==
  ASSUME NEW n \in Nodes, HasInstance(n, Inhabitable)
  PROVE  n \in Inhabitable
<1> SUFFICES ASSUME NEW S \in SUBSET Nodes,
                    \A m \in Nodes : HasInstance(m, S) => m \in S
             PROVE  n \in S
  BY DEF Inhabitable
<1>1. Inhabitable \subseteq S
  BY LeastClosed
<1>2. HasInstance(n, S)
  BY <1>1, BuildingIsMonotone
<1> QED
  BY <1>2

(* Within the constructs the analysis models, a node it proves from        *)
(* inhabitable nodes has an instance.                                      *)
LEMMA ProvenMeansBuilt ==
  ASSUME TypeOK, OnlyModelled, inhabited \subseteq Inhabitable,
         NEW n \in Nodes, NodeInhabited(n, inhabited)
  PROVE  n \in Inhabitable
<1> DEFINE s == schema[n]
<1>1. s \in Schemas
  BY DEF TypeOK
<1>2. CASE s.always = "true"
  BY <1>2, InhabitableIsClosed DEF HasInstance
<1>3. CASE s.always # "true"
  <2>1. s.always = "unset" /\ {s.ref} \ {0} \subseteq Inhabitable
    BY <1>3 DEF NodeInhabited
  <2>2. ASSUME s.combinator = 0, s.objectOnly, NEW p \in s.required
        PROVE  Selected(s, p) \subseteq Inhabitable
    <3>1. RequiredInhabited(s, p, inhabited)
      BY <1>3, <2>2 DEF NodeInhabited
    <3>2. p \in Names /\ s.pattern[p] = 0
      BY <1>1, <2>2 DEF Schemas, OnlyModelled
    <3>3. CASE s.property[p] # 0
      BY <3>1, <3>2, <3>3 DEF RequiredInhabited, Selected
    <3>4. CASE s.property[p] = 0 /\ s.additional = 0
      BY <3>2, <3>4 DEF Selected
    <3>5. CASE s.property[p] = 0 /\ s.additional # 0
      <4>1. s.additional \in Nodes /\ schema[s.additional].always # "false"
        BY <3>1, <3>5 DEF RequiredInhabited
      <4>2. schema[s.additional].always # "unset"
        BY <3>5 DEF OnlyModelled
      <4>3. schema[s.additional] \in Schemas
        BY <4>1 DEF TypeOK
      <4>4. schema[s.additional].always = "true"
        BY <4>1, <4>2, <4>3 DEF Schemas
      <4>5. s.additional \in Inhabitable
        BY <4>1, <4>4, InhabitableIsClosed DEF HasInstance
      <4> QED
        BY <3>2, <3>5, <4>5 DEF Selected
    <3> QED
      BY <3>3, <3>4, <3>5
  <2>3. HasInstance(n, Inhabitable)
    BY <2>1, <2>2 DEF HasInstance
  <2> QED
    BY <2>3, InhabitableIsClosed
<1> QED
  BY <1>2, <1>3

(* Every object schema that recursively requires itself is flagged: only   *)
(* inhabitable nodes are ever proven.                                      *)
THEOREM FlagsEmptyRecursion == Spec => []FlagsEveryEmptyRecursion
<1> DEFINE Sound == OnlyModelled => inhabited \subseteq Inhabitable
<1>1. Init => Sound
  BY DEF Init
<1>2. TypeOK /\ Sound /\ [Next]_vars => Sound'
  <2> SUFFICES ASSUME TypeOK, Sound, [Next]_vars, OnlyModelled'
               PROVE  (inhabited \subseteq Inhabitable)'
    OBVIOUS
  <2>1. UNCHANGED schema
    BY DEF Next, Visit, NextPass, Report, vars
  <2>2. OnlyModelled /\ Inhabitable' = Inhabitable
    BY <2>1, KeywordsAreConstant
  <2>3. CASE inhabited' = inhabited
    BY <2>2, <2>3
  <2>4. CASE inhabited' # inhabited
    <3>1. /\ i \in Nodes /\ NodeInhabited(i, inhabited)
          /\ inhabited' = inhabited \cup {i}
      BY <2>4 DEF Next, Visit, NextPass, Report, vars, TypeOK, Nodes
    <3>2. i \in Inhabitable
      BY <2>2, <3>1, ProvenMeansBuilt
    <3> QED
      BY <2>2, <3>1, <3>2
  <2> QED
    BY <2>3, <2>4
<1>3. IInv /\ Sound => FlagsEveryEmptyRecursion
  BY DEF IInv, PassInv, FlagsEveryEmptyRecursion
<1>4. IInv => TypeOK
  BY DEF IInv
<1> QED
  BY <1>1, <1>2, <1>3, <1>4, Invariance, PTL DEF Spec
=============================================================================

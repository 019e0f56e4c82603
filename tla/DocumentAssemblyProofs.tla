----------------------- MODULE DocumentAssemblyProofs -----------------------
(***************************************************************************)
(* For every registry: a document's components are planned once, the graph *)
(* of the plans handed out is complete, and the roll-up keeps its promise  *)
(* on the map the assembly hands it.  Where pointers tell the nodes apart, *)
(* an id names the target of every reference that carries it, and the      *)
(* capability of the result covers everything the entries reach.           *)
(*                                                                         *)
(* The roll-up's own steps are not proved about again: its theorems are    *)
(* instantiated on the variables of the assembly.                          *)
(***************************************************************************)
EXTENDS DocumentAssembly, TLAPS

Loops == INSTANCE CapabilityRollupProofs

USE IdsAssumption, LadderAssumption

(* The nodes lie in one document: no two of them share a pointer.          *)
DistinctPointers == \A m, n \in Nodes : pointer[m] = pointer[n] => m = n

EntryIds == {pointer[n] : n \in entries}
TargetIds == {pointer[n] : n \in Targets}
Assembled == pc \in {"call", "rollup", "done"}
RollUpCalled == pc \in {"rollup", "done"}

TypeInv ==
  /\ mode \in {"schema", "document"}
  /\ entries \in SUBSET Nodes
  /\ mode = "schema" => \A n \in entries : pointer[n] = RootPointer
  /\ pointer \in [Nodes -> Pointers]
  /\ level \in [Nodes -> Levels]
  /\ leaves \in [Nodes -> SUBSET (Nodes \cup RawRefs)]
  /\ pc \in {"entries", "definitions", "call", "rollup", "done"}
  /\ defs \subseteq Pointers
  /\ builds \in [Nodes -> Nat]
  /\ capability \in Levels

(* A plan sits under the pointer of the node it was built from; before the *)
(* definitions the map holds the entries, after them the targets too.      *)
BuiltInv ==
  /\ built \in [DOMAIN built -> Nodes]
  /\ \A p \in DOMAIN built : pointer[built[p]] = p
  /\ pc = "definitions" => DOMAIN built = EntryIds
  /\ Assembled =>
       /\ DOMAIN built = defs \cup EntryIds
       /\ TargetIds \subseteq (IF mode = "schema" THEN defs ELSE DOMAIN built)

(* Nothing is planned before the entries, and they are planned once.       *)
BuildsInv ==
  /\ pc = "entries" => \A n \in Nodes : builds[n] = 0
  /\ pc = "definitions" => \A n \in Nodes : builds[n] = IF n \in entries THEN 1 ELSE 0
  /\ mode = "document" => \A n \in Nodes : builds[n] <= 1

(* The roll-up runs on the assembled map, and its own invariant holds.     *)
RollUpInv ==
  /\ ~ RollUpCalled => phase = "idle" /\ ids = {}
  /\ RollUpCalled =>
       /\ Loops!IInv
       /\ ids = DOMAIN built
       /\ refs = [p \in ids |-> {RefTarget(l) : l \in leaves[built[p]]}]
       /\ declared = [p \in ids |-> level[built[p]]]
  /\ pc = "done" => phase = "done" /\ \A p \in ids : plans[p] <= capability

IInv == TypeInv /\ BuiltInv /\ BuildsInv /\ RollUpInv

-----------------------------------------------------------------------------

(* The roll-up's next-state relation is the one its proofs are about.      *)
LEMMA SameLoops ==
  /\ Rollup!Next => Loops!Next
  /\ UNCHANGED rollup => UNCHANGED Loops!vars
  /\ Loops!Init => Loops!IInv
  /\ Loops!IInv /\ [Loops!Next]_(Loops!vars) => Loops!IInv'
<1>1. Rollup!Next => Loops!Next
  BY DEF Rollup!Next, Loops!Next, Rollup!Collect, Loops!Collect, Rollup!Raise,
         Loops!Raise, Rollup!BeginPass, Loops!BeginPass, Rollup!Return, Loops!Return,
         Rollup!input, Loops!input, Rollup!IsMax, Loops!IsMax, Rollup!Levels,
         Loops!Levels, Rollup!Promise!Levels, Loops!Promise!Levels
<1>2. UNCHANGED rollup => UNCHANGED Loops!vars
  BY DEF rollup, Loops!vars
<1>3. Loops!Init => Loops!IInv
  BY Loops!InitEstablishes DEF Loops!LadderAssumption
<1>4. Loops!IInv /\ [Loops!Next]_(Loops!vars) => Loops!IInv'
  BY Loops!NextPreserves, Loops!TypePreserves DEF Loops!LadderAssumption, Loops!IInv
<1> QED
  BY <1>1, <1>2, <1>3, <1>4

(* The names a plan's leaves carry: a node's is its pointer, a raw string  *)
(* is its own.                                                             *)
LEMMA NamesOfLeaves ==
  ASSUME TypeInv, NEW n \in Nodes, NEW leaf \in leaves[n]
  PROVE  /\ RefTarget(leaf) \in Names
         /\ leaf \in Nodes => leaf \in Targets /\ RefTarget(leaf) = pointer[leaf]
         /\ leaf \notin Nodes => leaf \in RawRefs /\ RefTarget(leaf) = leaf
BY DEF TypeInv, RefTarget, Names, Targets

LEMMA InitEstablishes == Init => IInv
BY DEF Init, IInv, TypeInv, BuiltInv, BuildsInv, RollUpInv, Assembled, RollUpCalled, Levels

LEMMA EntriesPreserve ==
  ASSUME IInv, BuildEntries
  PROVE  IInv'
<1> USE DEF BuildEntries, registry, rollup
<1>1. \A p \in EntryIds : built'[p] \in entries /\ pointer[built'[p]] = p
  <2> SUFFICES ASSUME NEW p \in EntryIds
               PROVE  built'[p] \in entries /\ pointer[built'[p]] = p
    OBVIOUS
  <2>1. built'[p] = CHOOSE n \in entries : pointer[n] = p
    BY DEF EntryIds
  <2>2. \E n \in entries : pointer[n] = p
    BY DEF EntryIds
  <2> QED
    BY <2>1, <2>2
<1>2. DOMAIN built' = EntryIds
  BY DEF EntryIds
<1>3. TypeInv'
  BY DEF IInv, TypeInv, BuildPlans
<1>4. BuiltInv'
  <2>1. built' = [p \in EntryIds |-> built'[p]]
    BY DEF EntryIds
  <2>2. EntryIds' = EntryIds
    BY DEF EntryIds
  <2>3. built' \in [EntryIds -> Nodes]
    BY <1>1, <2>1 DEF IInv, TypeInv
  <2> QED
    BY <1>1, <1>2, <2>2, <2>3 DEF BuiltInv, Assembled
<1>5. BuildsInv'
  BY DEF IInv, TypeInv, BuildsInv, BuildPlans
<1>6. RollUpInv'
  BY DEF IInv, RollUpInv, RollUpCalled
<1> QED
  BY <1>3, <1>4, <1>5, <1>6 DEF IInv

(* The references of the registry find their targets' plans: a document's  *)
(* components keep theirs and no definition is planned on top of one.      *)
LEMMA DefinitionsPreserve ==
  ASSUME IInv, BuildDefinitions
  PROVE  IInv'
<1> USE DEF BuildDefinitions, registry, rollup
<1>0. PICK targets \in RefTargets :
        LET wanted == IF mode = "document"
                      THEN DOMAIN targets \ DOMAIN built ELSE DOMAIN targets
        IN  /\ defs' = wanted
            /\ builds' = BuildPlans({targets[p] : p \in wanted})
            /\ built' = [p \in wanted \cup DOMAIN built |->
                           IF p \in wanted THEN targets[p] ELSE built[p]]
  OBVIOUS
<1> DEFINE wanted == IF mode = "document"
                     THEN DOMAIN targets \ DOMAIN built ELSE DOMAIN targets
<1>1. /\ pc = "definitions" /\ pc' = "call"
      /\ UNCHANGED <<registry, capability, rollup>>
  OBVIOUS
<1>2. /\ defs' = wanted
      /\ builds' = BuildPlans({targets[p] : p \in wanted})
      /\ built' = [p \in wanted \cup DOMAIN built |->
                     IF p \in wanted THEN targets[p] ELSE built[p]]
  BY <1>0
<1>3. /\ DOMAIN targets = TargetIds
      /\ \A p \in TargetIds : targets[p] \in Nodes /\ pointer[targets[p]] = p
  BY DEF RefTargets, IsRefTargets, TargetIds, Targets
<1>4. wanted \subseteq TargetIds
  BY <1>3
<1>5. TargetIds' = TargetIds /\ EntryIds' = EntryIds
  BY <1>1 DEF TargetIds, EntryIds, Targets
<1>6. TargetIds \subseteq Pointers
  BY DEF TargetIds, Targets, IInv, TypeInv
<1>7. TypeInv'
  <2>1. defs' \subseteq Pointers
    BY <1>2, <1>4, <1>6
  <2>2. builds' \in [Nodes -> Nat]
    BY <1>2 DEF BuildPlans, IInv, TypeInv
  <2> QED
    BY <1>1, <2>1, <2>2 DEF IInv, TypeInv
<1>8. BuiltInv'
  <2>1. DOMAIN built = EntryIds
    BY <1>1 DEF IInv, BuiltInv
  <2>2. DOMAIN built' = defs' \cup EntryIds
    BY <1>2, <2>1
  <2>3. \A p \in DOMAIN built' : built'[p] \in Nodes /\ pointer[built'[p]] = p
    BY <1>2, <1>3, <1>4 DEF IInv, BuiltInv
  <2>4. built' \in [DOMAIN built' -> Nodes]
    BY <1>2, <2>3
  <2>5. TargetIds \subseteq (IF mode = "schema" THEN defs' ELSE DOMAIN built')
    BY <1>2, <1>3, <2>1, <2>2 DEF IInv, TypeInv
  <2> QED
    BY <1>1, <1>5, <2>2, <2>3, <2>4, <2>5 DEF BuiltInv
<1>9. BuildsInv'
  <2> SUFFICES ASSUME mode = "document", NEW n \in Nodes
               PROVE  builds'[n] <= 1
    BY <1>1 DEF BuildsInv
  <2>1. builds[n] = IF n \in entries THEN 1 ELSE 0
    BY <1>1 DEF IInv, BuildsInv
  <2>2. builds'[n] = IF n \in {targets[p] : p \in wanted} THEN builds[n] + 1 ELSE builds[n]
    BY <1>2 DEF BuildPlans
  <2>3. ASSUME NEW p \in wanted, n = targets[p]
        PROVE  n \notin entries
    <3>1. pointer[n] = p /\ p \notin EntryIds
      BY <2>3, <1>1, <1>3, <1>4 DEF IInv, BuiltInv
    <3> QED
      BY <3>1 DEF EntryIds
  <2> QED
    BY <2>1, <2>2, <2>3
<1>10. RollUpInv'
  BY <1>1 DEF IInv, RollUpInv, RollUpCalled
<1> QED
  BY <1>7, <1>8, <1>9, <1>10 DEF IInv

(* The call hands the roll-up a map it can start on.                       *)
LEMMA CallPreserves ==
  ASSUME IInv, CallRollUp
  PROVE  IInv'
<1> USE DEF CallRollUp, registry
<1>1. DOMAIN built \subseteq Pointers
  BY DEF IInv, BuiltInv, TypeInv, Assembled, EntryIds
<1>2. Loops!Init'
  <2>1. ids' \subseteq Names
    BY <1>1 DEF Names
  <2>2. refs' \in [ids' -> SUBSET Names]
    <3>1. ASSUME NEW p \in DOMAIN built
          PROVE  {RefTarget(l) : l \in leaves[built[p]]} \subseteq Names
      BY NamesOfLeaves DEF IInv, BuiltInv
    <3> QED
      BY <3>1
  <2>3. declared' \in [ids' -> Levels]
    BY DEF IInv, BuiltInv, TypeInv
  <2> QED
    BY <2>1, <2>2, <2>3 DEF Loops!Init, Loops!Levels, Loops!Promise!Levels, Levels
<1>3. Loops!IInv'
  BY <1>2, SameLoops, PTL
<1>4. TypeInv' /\ BuiltInv' /\ BuildsInv'
  BY DEF IInv, TypeInv, BuiltInv, BuildsInv, Assembled, EntryIds, TargetIds, Targets
<1>5. RollUpInv'
  BY <1>3 DEF RollUpInv, RollUpCalled, RefTarget
<1> QED
  BY <1>4, <1>5 DEF IInv

(* A step of the roll-up changes nothing but the levels and the loops.     *)
LEMMA RollUpPreserves ==
  ASSUME IInv, RollUp
  PROVE  IInv'
<1> USE DEF RollUp, registry, assembly
<1>1. Loops!IInv'
  BY SameLoops DEF IInv, RollUpInv, RollUpCalled
<1>2. UNCHANGED <<ids, refs, declared>>
  BY DEF Rollup!Next, Rollup!Collect, Rollup!Raise, Rollup!BeginPass, Rollup!Return,
         Rollup!input
<1>3. TypeInv' /\ BuiltInv' /\ BuildsInv'
  BY DEF IInv, TypeInv, BuiltInv, BuildsInv, Assembled, EntryIds, TargetIds, Targets
<1>4. RollUpInv'
  BY <1>1, <1>2 DEF IInv, RollUpInv, RollUpCalled, RefTarget
<1> QED
  BY <1>3, <1>4 DEF IInv

(* In either mode the ids whose levels enter the result are all of them.   *)
LEMMA FinishPreserves ==
  ASSUME IInv, Finish
  PROVE  IInv'
<1> USE DEF Finish, registry, rollup
<1>1. ids = defs \cup EntryIds
  BY DEF IInv, BuiltInv, RollUpInv, Assembled, RollUpCalled
<1>2. \A p \in ids : plans[p] <= capability'
  BY <1>1 DEF Rollup!IsMax, EntryIds, IInv, TypeInv
<1>3. Loops!IInv'
  <2>1. Loops!IInv /\ UNCHANGED Loops!vars
    BY SameLoops DEF IInv, RollUpInv, RollUpCalled
  <2> QED
    BY <2>1, SameLoops
<1>4. TypeInv' /\ BuiltInv' /\ BuildsInv'
  BY DEF IInv, TypeInv, BuiltInv, BuildsInv, Assembled, EntryIds, TargetIds, Targets
<1>5. RollUpInv'
  BY <1>2, <1>3 DEF IInv, RollUpInv, RollUpCalled, RefTarget
<1> QED
  BY <1>4, <1>5 DEF IInv

LEMMA StutterPreserves ==
  ASSUME IInv, UNCHANGED vars
  PROVE  IInv'
<1> USE DEF vars, registry, assembly, rollup
<1>1. RollUpCalled => Loops!IInv'
  <2>1. UNCHANGED Loops!vars
    BY SameLoops
  <2> QED
    BY <2>1, SameLoops DEF IInv, RollUpInv
<1>2. TypeInv' /\ BuiltInv' /\ BuildsInv'
  BY DEF IInv, TypeInv, BuiltInv, BuildsInv, Assembled, EntryIds, TargetIds, Targets
<1>3. RollUpInv'
  BY <1>1 DEF IInv, RollUpInv, RollUpCalled, RefTarget
<1> QED
  BY <1>2, <1>3 DEF IInv

(* The inductive invariant holds of every behaviour of the assembly.       *)
THEOREM AssemblyKeepsInvariant == Spec => []IInv
<1>1. IInv /\ [Next]_vars => IInv'
  BY EntriesPreserve, DefinitionsPreserve, CallPreserves, RollUpPreserves,
     FinishPreserves, StutterPreserves DEF Next
<1> QED
  BY <1>1, InitEstablishes, PTL DEF Spec

-----------------------------------------------------------------------------

(* A document plans each of its components and definitions once, whatever  *)
(* ids they share: what buildDefinitionsExcept skips is what CompileDocument*)
(* has planned already.                                                    *)
THEOREM PlansComponentsOnce == Spec => []ComponentsPlannedOnce
<1>1. IInv => ComponentsPlannedOnce
  BY DEF IInv, BuildsInv, ComponentsPlannedOnce
<1> QED
  BY <1>1, AssemblyKeepsInvariant, PTL

(* When the roll-up has run, each plan stands under a level that is at     *)
(* least the one the planner gave it, and one with a dangling reference    *)
(* stands under the top one and has reported it.                           *)
LEMMA PlansAreCollected ==
  ASSUME IInv, RollUpCalled, phase # "collect", NEW p \in ids
  PROVE  /\ level[built[p]] <= plans[p]
         /\ \A leaf \in leaves[built[p]] :
              RefTarget(leaf) \notin ids =>
                plans[p] = Unsupported /\ <<p, RefTarget(leaf)>> \in diags
<1>1. Loops!IInv /\ built[p] \in Nodes
  BY DEF IInv, RollUpInv, BuiltInv
<1>2. /\ plans[p] \in 0 .. Unsupported /\ declared[p] \in 0 .. Unsupported
      /\ declared[p] = level[built[p]]
      /\ refs[p] = {RefTarget(l) : l \in leaves[built[p]]}
  BY <1>1 DEF IInv, RollUpInv, Loops!IInv, Loops!TypeOK, Loops!Levels, Loops!Promise!Levels
<1>3. /\ \A n \in Loops!Promise!Dangling(p) : <<p, n>> \in diags
      /\ Loops!Promise!OwnLevel(p) <= plans[p]
  BY <1>1 DEF Loops!IInv, Loops!PlanInv, Loops!Collected
<1>4. level[built[p]] <= plans[p]
  BY <1>2, <1>3 DEF Loops!Promise!OwnLevel
<1>5. ASSUME NEW leaf \in leaves[built[p]], RefTarget(leaf) \notin ids
      PROVE  plans[p] = Unsupported /\ <<p, RefTarget(leaf)>> \in diags
  <2>1. RefTarget(leaf) \in Loops!Promise!Dangling(p)
    BY <1>2, <1>5 DEF Loops!Promise!Dangling
  <2>2. Loops!Promise!OwnLevel(p) = Unsupported
    BY <2>1 DEF Loops!Promise!OwnLevel
  <2> QED
    BY <1>2, <1>3, <2>1, <2>2 DEF LadderAssumption
<1> QED
  BY <1>4, <1>5

(* Whatever pointers the nodes share, and raw references with them, a      *)
(* generator that follows references from plan to plan is never led to an  *)
(* id without a named definition, unless the plan it came from is          *)
(* Unsupported and names the id.  A root that nothing refers to is no      *)
(* named definition, and the empty pointer it has spells no raw reference. *)
THEOREM CompletesGraph == Spec => []GraphIsComplete
<1>1. IInv => GraphIsComplete
  <2> SUFFICES ASSUME IInv, pc = "done", NEW p \in ids, NEW leaf \in leaves[built[p]]
               PROVE  \/ RefTarget(leaf) \in (IF mode = "schema" THEN defs ELSE ids)
                      \/ plans[p] = Unsupported /\ <<p, RefTarget(leaf)>> \in diags
    BY DEF GraphIsComplete
  <2>1. built[p] \in Nodes /\ phase = "done" /\ RollUpCalled /\ Assembled
    BY DEF IInv, RollUpInv, BuiltInv, RollUpCalled, Assembled
  <2>2. CASE leaf \in Nodes
    <3>1. RefTarget(leaf) \in TargetIds
      BY <2>1, <2>2, NamesOfLeaves DEF IInv, TargetIds
    <3> QED
      BY <3>1, <2>1 DEF IInv, BuiltInv, RollUpInv
  <2>3. CASE RefTarget(leaf) \notin ids
    BY <2>1, <2>3, PlansAreCollected
  <2>4. CASE leaf \notin Nodes /\ RefTarget(leaf) \in ids /\ mode = "schema"
    <3>1. RefTarget(leaf) # RootPointer
      BY <2>1, <2>4, NamesOfLeaves DEF IInv, IdsAssumption
    <3>2. ids = defs \cup EntryIds
      BY <2>1 DEF IInv, BuiltInv, RollUpInv
    <3>3. EntryIds \subseteq {RootPointer}
      BY <2>4 DEF IInv, TypeInv, EntryIds
    <3> QED
      BY <2>4, <3>1, <3>2, <3>3
  <2> QED
    BY <2>2, <2>3, <2>4
<1> QED
  BY <1>1, AssemblyKeepsInvariant, PTL

(* No step moves a node.                                                   *)
LEMMA PointersStayDistinct ==
  DistinctPointers /\ [Next]_vars => DistinctPointers'
<1> SUFFICES ASSUME [Next]_vars PROVE UNCHANGED pointer
  BY DEF DistinctPointers
<1> QED
  BY DEF Next, vars, registry, BuildEntries, BuildDefinitions, CallRollUp, RollUp, Finish

(* Where the pointers differ, an id that a reference carries names its     *)
(* target.                                                                 *)
LEMMA TargetsAreFound ==
  ASSUME IInv, Assembled, DistinctPointers,
         NEW n \in Nodes, NEW leaf \in leaves[n] \cap Nodes
  PROVE  RefTarget(leaf) \in DOMAIN built /\ built[RefTarget(leaf)] = leaf
<1>1. leaf \in Targets /\ RefTarget(leaf) = pointer[leaf]
  BY NamesOfLeaves DEF IInv
<1>2. pointer[leaf] \in DOMAIN built
  BY <1>1 DEF TargetIds, IInv, BuiltInv
<1>3. pointer[built[pointer[leaf]]] = pointer[leaf] /\ built[pointer[leaf]] \in Nodes
  BY <1>2 DEF IInv, BuiltInv
<1> QED
  BY <1>1, <1>2, <1>3 DEF DistinctPointers

(* In one document a schema id names one resource: what is filed under the *)
(* id a reference carries is its target's plan.                            *)
THEOREM NamesTargets == Spec /\ DistinctPointers => []IdNamesItsTarget
<1>1. IInv /\ DistinctPointers => IdNamesItsTarget
  <2> SUFFICES ASSUME IInv, DistinctPointers, pc = "done", NEW p \in ids,
                      NEW leaf \in leaves[built[p]] \cap Nodes
               PROVE  RefTarget(leaf) \in ids /\ built[RefTarget(leaf)] = leaf
    BY DEF IdNamesItsTarget
  <2>1. built[p] \in Nodes /\ ids = DOMAIN built /\ Assembled
    BY DEF IInv, RollUpInv, BuiltInv, RollUpCalled, Assembled
  <2> QED
    BY <2>1, TargetsAreFound
<1> QED
  BY <1>1, AssemblyKeepsInvariant, PointersStayDistinct, PTL DEF Spec

(* In one document the capability of the result covers every definition    *)
(* the entries reach, with a dangling reference counted unless it spells   *)
(* an id of the map: the nodes whose own plan is on the map hold the       *)
(* entries and are closed under references.                                *)
THEOREM CoversReachable == Spec /\ DistinctPointers => []CoversEveryReachable
<1>1. IInv /\ DistinctPointers => CoversEveryReachable
  <2> SUFFICES ASSUME IInv, DistinctPointers, pc = "done", NEW n \in ReachedNodes
               PROVE  TrueLevel(n) <= capability
    BY DEF CoversEveryReachable
  <2> DEFINE Planned == {m \in Nodes : pointer[m] \in ids /\ built[pointer[m]] = m}
  <2>1. /\ RollUpCalled /\ Assembled /\ phase = "done" /\ ids = DOMAIN built
        /\ \A p \in ids : plans[p] <= capability
    BY DEF IInv, RollUpInv, RollUpCalled, Assembled
  <2>2. entries \subseteq Planned
    <3> SUFFICES ASSUME NEW m \in entries PROVE m \in Planned
      OBVIOUS
    <3>1. m \in Nodes /\ pointer[m] \in DOMAIN built
      BY <2>1 DEF IInv, TypeInv, BuiltInv, EntryIds
    <3>2. built[pointer[m]] = m
      BY <3>1 DEF IInv, BuiltInv, DistinctPointers
    <3> QED
      BY <2>1, <3>1, <3>2
  <2>3. \A m \in Planned : leaves[m] \cap Nodes \subseteq Planned
    <3> SUFFICES ASSUME NEW m \in Planned, NEW leaf \in leaves[m] \cap Nodes
                 PROVE  leaf \in Planned
      OBVIOUS
    <3>1. RefTarget(leaf) = pointer[leaf]
      BY NamesOfLeaves DEF IInv
    <3> QED
      BY <2>1, <3>1, TargetsAreFound
  <2>4. n \in Planned
    BY <2>2, <2>3 DEF ReachedNodes
  <2> DEFINE p == pointer[n]
  <2>5. p \in ids /\ built[p] = n
    BY <2>4
  <2>6. level[n] <= plans[p] /\ plans[p] <= capability
    BY <2>1, <2>5, PlansAreCollected
  <2>7. ASSUME ~ (leaves[n] \cap RawRefs \subseteq ids)
        PROVE  plans[p] = Unsupported
    <3>1. PICK leaf \in leaves[n] \cap RawRefs : leaf \notin ids
      BY <2>7
    <3>2. RefTarget(leaf) \notin ids
      BY <3>1 DEF RefTarget, IdsAssumption
    <3> QED
      BY <2>1, <2>5, <3>1, <3>2, PlansAreCollected
  <2>8. level[n] \in Nat /\ plans[p] \in Nat /\ capability \in Nat
    BY <2>4, <2>5 DEF IInv, TypeInv, Levels, RollUpInv, Loops!IInv, Loops!TypeOK,
                      Loops!Levels, Loops!Promise!Levels, RollUpCalled
  <2> QED
    BY <2>6, <2>7, <2>8 DEF TrueLevel
<1> QED
  BY <1>1, AssemblyKeepsInvariant, PointersStayDistinct, PTL DEF Spec

(* The roll-up keeps its promises on the map it is called with: its result *)
(* is the worst reachable level of every plan, no level on the way is      *)
(* overstated, and what comes out Unsupported is explained.                *)
THEOREM AssemblyRollsUp ==
  Spec => [](/\ Rollup!SettledAtWorst
             /\ Rollup!NeverOverstated
             /\ Rollup!UnsupportedExplained)
<1> DEFINE Promises == /\ Loops!SettledAtWorst
                       /\ Loops!NeverOverstated
                       /\ Loops!UnsupportedExplained
<1>1. IInv => Promises
  <2>1. CASE RollUpCalled
    BY <2>1, Loops!InvariantJustifies, Loops!InvariantExplains
    DEF IInv, RollUpInv, Loops!LadderAssumption
  <2>2. IInv /\ ~ RollUpCalled => phase = "idle" /\ ids = {}
    BY DEF IInv, RollUpInv
  <2>3. phase = "idle" /\ ids = {} => Promises
    BY DEF Loops!SettledAtWorst, Loops!NeverOverstated, Loops!UnsupportedExplained
  <2> QED
    BY <2>1, <2>2, <2>3
<1>2. Promises => /\ Rollup!SettledAtWorst
                  /\ Rollup!NeverOverstated
                  /\ Rollup!UnsupportedExplained
  BY DEF Loops!SettledAtWorst, Loops!NeverOverstated, Loops!UnsupportedExplained,
         Rollup!SettledAtWorst, Rollup!NeverOverstated, Rollup!UnsupportedExplained,
         Loops!Promise!IsWorstReachable, Rollup!Promise!IsWorstReachable,
         Loops!Promise!Reachable, Rollup!Promise!Reachable,
         Loops!Promise!Closed, Rollup!Promise!Closed,
         Loops!Promise!Dependencies, Rollup!Promise!Dependencies,
         Loops!Promise!OwnLevel, Rollup!Promise!OwnLevel,
         Loops!Promise!Dangling, Rollup!Promise!Dangling
<1> QED
  BY <1>1, <1>2, AssemblyKeepsInvariant, PTL

=============================================================================

-------------------------- MODULE DocumentAssembly --------------------------
(***************************************************************************)
(* Whole-document assembly: schemacompiler.go (compileSchema) and          *)
(* compile_document.go (CompileDocument) turn a loaded registry into one   *)
(* plan per schema id, roll the capabilities up over the reference graph   *)
(* (module CapabilityRollup, whose steps are taken here as they are) and   *)
(* compute the capability of the document.                                 *)
(*                                                                         *)
(* A schema node is what a plan is built from: an entry schema or the      *)
(* target of a $ref.  Its plan is reduced to the capability level the      *)
(* planner gives it and to its $ref leaves.  A leaf is resolved to a node  *)
(* or dangling; the id it carries is the target's JSON Pointer within ITS  *)
(* document, or the raw reference string; the two share one namespace, and *)
(* a $ref that forgot its # is spelled like a pointer.                     *)
(***************************************************************************)
EXTENDS Naturals, FiniteSets

CONSTANTS
  Nodes,        (* schema nodes of the registry                            *)
  Pointers,     (* document-relative JSON Pointers, the schema ids         *)
  RootPointer,  (* the empty pointer, that of a document's root            *)
  RawRefs,      (* $ref strings that resolve to nothing; an empty $ref is  *)
                (* no reference                                            *)
  Unsupported   (* the top rung of the capability ladder                   *)

ASSUME IdsAssumption == Nodes \cap RawRefs = {} /\ RootPointer \in Pointers \ RawRefs
ASSUME LadderAssumption == Unsupported \in Nat

VARIABLES
  mode,        (* "schema": compileSchema, "document": CompileDocument     *)
  entries,     (* the root node, or the component nodes                    *)
  pointer,     (* pointer[n]: Node.Pointer                                 *)
  level,       (* level[n]: the capability the planner gives n's plan      *)
  leaves,      (* leaves[n]: the $ref leaves of n's plan                   *)
  pc,          (* the next statement of the assembly                       *)
  built,       (* built[id]: the node whose plan sits in the map under id  *)
  defs,        (* the ids of defs.plans, the named definitions             *)
  builds,      (* builds[n]: how often n went through the pipeline         *)
  capability   (* Result.Capability                                        *)

(* The variables of the roll-up.                                           *)
VARIABLES ids, refs, declared, plans, deps, diags, phase, todo, changed

registry == <<mode, entries, pointer, level, leaves>>
assembly == <<pc, built, defs, builds, capability>>
rollup == <<ids, refs, declared, plans, deps, diags, phase, todo, changed>>
vars == <<registry, assembly, rollup>>

Names == Pointers \cup RawRefs
Levels == 0 .. Unsupported

Rollup == INSTANCE CapabilityRollup

-----------------------------------------------------------------------------

(* ir.refTarget: a resolved reference is keyed by its target's pointer, an *)
(* unresolved one by the raw string.  Nothing tells the two apart: the raw *)
(* string may spell the pointer of some node.                              *)
RefTarget(leaf) == IF leaf \in Nodes THEN pointer[leaf] ELSE leaf

(* Registry.RefTargets: the targets of every static $ref of the registry,  *)
(* keyed by pointer.  Targets that share a pointer overwrite one another   *)
(* in discovery order, so any of them may be the one that stays.           *)
(* Mutant of Targets: only the entries' own references count.              *)
TargetsOfEntries == Nodes \cap UNION {leaves[n] : n \in entries}

Targets == Nodes \cap UNION {leaves[n] : n \in Nodes}

(* Mutant of IsRefTargets: a target is filed under another's pointer.      *)
IsMisfiled(targets) ==
  /\ DOMAIN targets = {pointer[n] : n \in Targets}
  /\ \A p \in DOMAIN targets : targets[p] \in Targets

IsRefTargets(targets) ==
  /\ DOMAIN targets = {pointer[n] : n \in Targets}
  /\ \A p \in DOMAIN targets : targets[p] \in Targets /\ pointer[targets[p]] = p

RefTargets ==
  {t \in [{pointer[n] : n \in Targets} -> Targets] : IsRefTargets(t)}

(* One trip through ir.Compile, norm.Normalize and planner.BuildAt for     *)
(* every node of S.                                                        *)
BuildPlans(S) == [n \in Nodes |-> IF n \in S THEN builds[n] + 1 ELSE builds[n]]

Init ==
  /\ mode \in {"schema", "document"}
  /\ entries \in (SUBSET Nodes) \ {{}}
  /\ pointer \in [Nodes -> Pointers]
  /\ level \in [Nodes -> Levels]
  /\ leaves \in [Nodes -> SUBSET (Nodes \cup RawRefs)]
  /\ mode = "schema" => Cardinality(entries) = 1
  /\ \A n \in entries : mode = "schema" <=> pointer[n] = RootPointer
  /\ \A m, n \in entries : pointer[m] = pointer[n] => m = n
  /\ pc = "entries"
  /\ built = [p \in {} |-> 0]
  /\ defs = {}
  /\ builds = [n \in Nodes |-> 0]
  /\ capability = 0
  /\ ids = {} /\ refs = built /\ declared = built /\ plans = built /\ deps = built
  /\ diags = {} /\ phase = "idle" /\ todo = {} /\ changed = FALSE

(* The plans of the entry schemas.                                         *)
BuildEntries ==
  /\ pc = "entries"
  /\ builds' = BuildPlans(entries)
  /\ built' = [p \in {pointer[n] : n \in entries} |->
                 CHOOSE n \in entries : pointer[n] = p]
  /\ pc' = "definitions"
  /\ UNCHANGED <<registry, defs, capability, rollup>>

(* Mutant of BuildDefinitions: a document plans its components again.      *)
BuildDefinitionsAgain ==
  /\ pc = "definitions"
  /\ \E targets \in RefTargets :
       /\ defs' = DOMAIN targets
       /\ builds' = BuildPlans({targets[p] : p \in DOMAIN targets})
       /\ built' = [p \in DOMAIN targets \cup DOMAIN built |->
                      IF p \in DOMAIN targets THEN targets[p] ELSE built[p]]
  /\ pc' = "call"
  /\ UNCHANGED <<registry, capability, rollup>>

(* buildDefinitionsExcept: the plans of the reference targets.  A document *)
(* skips the ids its components already have.  compileSchema skips none    *)
(* and then joins the root under its own pointer unless a definition has   *)
(* taken that id.                                                          *)
BuildDefinitions ==
  /\ pc = "definitions"
  /\ \E targets \in RefTargets :
       LET wanted == IF mode = "document"
                     THEN DOMAIN targets \ DOMAIN built ELSE DOMAIN targets
       IN  /\ defs' = wanted
           /\ builds' = BuildPlans({targets[p] : p \in wanted})
           /\ built' = [p \in wanted \cup DOMAIN built |->
                          IF p \in wanted THEN targets[p] ELSE built[p]]
  /\ pc' = "call"
  /\ UNCHANGED <<registry, capability, rollup>>

(* The call of rollUpCapabilities on the assembled map.                    *)
CallRollUp ==
  /\ pc = "call"
  /\ ids' = DOMAIN built
  /\ refs' = [p \in DOMAIN built |-> {RefTarget(l) : l \in leaves[built[p]]}]
  /\ declared' = [p \in DOMAIN built |-> level[built[p]]]
  /\ plans' = declared'
  /\ deps' = [p \in DOMAIN built |-> {}]
  /\ diags' = {}
  /\ phase' = "collect"
  /\ todo' = DOMAIN built
  /\ changed' = TRUE
  /\ pc' = "rollup"
  /\ UNCHANGED <<registry, built, defs, builds, capability>>

RollUp ==
  /\ pc = "rollup"
  /\ Rollup!Next
  /\ UNCHANGED <<registry, assembly>>

(* Mutant of Finish: the levels the planner gave the entries, before the   *)
(* roll-up.                                                                *)
FinishOnEntries ==
  /\ pc = "rollup"
  /\ phase = "done"
  /\ capability' \in Levels
  /\ Rollup!IsMax(capability', {level[n] : n \in entries})
  /\ pc' = "done"
  /\ UNCHANGED <<registry, built, defs, builds, rollup>>

(* The capability of the result: compileSchema takes the level that came   *)
(* out under the root's id and the levels of the definitions,              *)
(* CompileDocument those of every plan.                                    *)
Finish ==
  /\ pc = "rollup"
  /\ phase = "done"
  /\ capability' \in Levels
  /\ Rollup!IsMax(capability', {0} \cup {plans[p] : p \in
       IF mode = "schema" THEN defs \cup {pointer[n] : n \in entries} ELSE ids})
  /\ pc' = "done"
  /\ UNCHANGED <<registry, built, defs, builds, rollup>>

Next == BuildEntries \/ BuildDefinitions \/ CallRollUp \/ RollUp \/ Finish

Spec == Init /\ [][Next]_vars

-----------------------------------------------------------------------------

(* What the entry schemas reach by following references to their targets,  *)
(* whatever ids those references carry.                                    *)
ReachedNodes ==
  {n \in Nodes : \A S \in SUBSET Nodes :
     (entries \subseteq S /\ \A m \in S : leaves[m] \cap Nodes \subseteq S) => n \in S}

(* The level of a plan by itself.  A raw reference spelled like an id of   *)
(* the map is taken for that plan's and costs the plan nothing             *)
(* (capability.go:32).                                                     *)
TrueLevel(n) ==
  IF leaves[n] \cap RawRefs \subseteq ids THEN level[n] ELSE Unsupported

(* The capability of the result is at least the worst over the entry       *)
(* schemas and every definition they reach (the comment of compileSchema   *)
(* and DocumentResult.Capability).                                         *)
CoversEveryReachable ==
  pc = "done" => \A n \in ReachedNodes : TrueLevel(n) <= capability

(* A schema id names one resource: the plan found under the id a reference *)
(* carries is the plan of the reference's own target (SchemaID in          *)
(* plan/resolution.go).                                                    *)
IdNamesItsTarget ==
  pc = "done" =>
    \A p \in ids : \A leaf \in leaves[built[p]] \cap Nodes :
      RefTarget(leaf) \in ids /\ built[RefTarget(leaf)] = leaf

(* A generator that follows the references of any plan it was given finds  *)
(* a named definition, or the plan it came from is Unsupported and says    *)
(* why: in schema mode the root itself is a definition only when some      *)
(* reference asks for it.                                                  *)
GraphIsComplete ==
  pc = "done" =>
    LET named == IF mode = "schema" THEN defs ELSE ids
    IN  \A p \in ids : \A leaf \in leaves[built[p]] :
          \/ RefTarget(leaf) \in named
          \/ plans[p] = Unsupported /\ <<p, RefTarget(leaf)>> \in diags

(* A component that is also a $ref target is planned once                  *)
(* (buildDefinitionsExcept), and so is every definition.                   *)
ComponentsPlannedOnce ==
  mode = "document" => \A n \in Nodes : builds[n] <= 1
=============================================================================

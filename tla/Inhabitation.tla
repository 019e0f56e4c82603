---------------------------- MODULE Inhabitation ----------------------------
(***************************************************************************)
(* internal/frontend/inhabit.go: analyzeInhabitation.  A least fixed point *)
(* over the nodes of the registry finds those with a finite JSON instance; *)
(* the recursive nodes it does not reach and that require something are    *)
(* reported as uninhabited.                                                *)
(*                                                                         *)
(* A node is reduced to the keywords the analysis or JSON Schema's meaning *)
(* of `required` looks at; 0 stands for an absent sub-schema.              *)
(***************************************************************************)
EXTENDS Naturals

CONSTANTS
  N,       (* the registry lists the nodes 1 .. N, in discovery order      *)
  Names    (* property names                                               *)

ASSUME NodesAssumption == N \in Nat

VARIABLES
  schema,       (* schema[n]: the keywords of node n                       *)
  inhabited,    (* the nodes proven inhabited so far                       *)
  i,            (* the node the running pass visits next                   *)
  changed,      (* this pass proved a node                                 *)
  phase,        (* "scan" | "done"                                         *)
  uninhabited   (* the nodes reported                                      *)

vars == <<schema, inhabited, i, changed, phase, uninhabited>>

Nodes == 1 .. N
SubSchema == 0 .. N

Schemas ==
  [always     : {"unset", "true", "false"},   (* a boolean schema          *)
   ref        : SubSchema,            (* Resolved, 0 when unset or dangling*)
   combinator : SubSchema,            (* a branch of allOf, anyOf, ...     *)
   objectOnly : BOOLEAN,              (* HasType /\ Types = KindObject     *)
   required   : SUBSET Names,
   property   : [Names -> SubSchema],
   pattern    : [Names -> SubSchema], (* the patternProperties entry that  *)
                                      (* matches the name                  *)
   additional : SubSchema]            (* additionalProperties              *)

-----------------------------------------------------------------------------

(* The edges of the reference graph, and the nodes on a cycle of it        *)
(* (sccIndex; module StronglyConnected has the algorithm).                 *)
Successors(n) ==
  LET s == schema[n]
  IN  ({s.ref, s.combinator, s.additional} \cup
       {s.property[p] : p \in Names} \cup {s.pattern[p] : p \in Names}) \ {0}

Recursive(n) ==
  \A S \in SUBSET Nodes :
    (/\ Successors(n) \subseteq S
     /\ \A m \in S : Successors(m) \subseteq S) => n \in S

(* Mutant of RequiredInhabited: a declared property is not looked into.    *)
RequiredDeclared(s, p, proven) ==
  {s.property[p], s.additional} \ {0} \subseteq {m \in Nodes : schema[m].always # "false"}

(* nodeInhabited, given the nodes proven so far.                           *)
RequiredInhabited(s, p, proven) ==
  IF s.property[p] # 0
  THEN s.property[p] \in proven
  ELSE s.additional \in {0} \cup {m \in Nodes : schema[m].always # "false"}

NodeInhabited(n, proven) ==
  LET s == schema[n]
  IN  \/ s.always = "true"
      \/ /\ s.always = "unset"
         /\ s.ref # 0 => s.ref \in proven
         /\ \/ s.combinator # 0
            \/ ~ s.objectOnly
            \/ \A p \in s.required : RequiredInhabited(s, p, proven)

Init ==
  /\ schema \in [Nodes -> Schemas]
  /\ inhabited = {}
  /\ i = 1
  /\ changed = FALSE
  /\ phase = "scan"
  /\ uninhabited = {}

Visit ==
  /\ phase = "scan"
  /\ i <= N
  /\ IF i \notin inhabited /\ NodeInhabited(i, inhabited)
     THEN inhabited' = inhabited \cup {i} /\ changed' = TRUE
     ELSE UNCHANGED <<inhabited, changed>>
  /\ i' = i + 1
  /\ UNCHANGED <<schema, phase, uninhabited>>

(* Mutant of NextPass: the flag is not reset.                              *)
NextPassStillChanged ==
  /\ phase = "scan"
  /\ i > N
  /\ changed
  /\ i' = 1
  /\ UNCHANGED <<schema, inhabited, changed, phase, uninhabited>>

(* Mutant of NextPass: the pass starts one node early.                     *)
NextPassFromZero ==
  /\ phase = "scan"
  /\ i > N
  /\ changed
  /\ i' = 0
  /\ changed' = FALSE
  /\ UNCHANGED <<schema, inhabited, phase, uninhabited>>

NextPass ==
  /\ phase = "scan"
  /\ i > N
  /\ changed
  /\ i' = 1
  /\ changed' = FALSE
  /\ UNCHANGED <<schema, inhabited, phase, uninhabited>>

(* Mutant of Report: one pass is taken to be enough.                       *)
ReportAfterOnePass ==
  /\ phase = "scan"
  /\ i > N
  /\ uninhabited' = {n \in Nodes \ inhabited :
                       Recursive(n) /\ schema[n].required # {}}
  /\ phase' = "done"
  /\ UNCHANGED <<schema, inhabited, i, changed>>

Report ==
  /\ phase = "scan"
  /\ i > N
  /\ ~ changed
  /\ uninhabited' = {n \in Nodes \ inhabited :
                       Recursive(n) /\ schema[n].required # {}}
  /\ phase' = "done"
  /\ UNCHANGED <<schema, inhabited, i, changed>>

Next == Visit \/ NextPass \/ Report

Spec == Init /\ [][Next]_vars
FairSpec == Spec /\ WF_vars(Next)

-----------------------------------------------------------------------------

(***************************************************************************)
(* What JSON Schema means: an instance of a schema can be built from       *)
(* instances of the schemas in S.  A required property must satisfy every  *)
(* schema its name selects: `properties`, `patternProperties`, and         *)
(* `additionalProperties` when neither names it.  Of a combinator it is    *)
(* only assumed that some instance may satisfy it.                         *)
(***************************************************************************)
Selected(s, p) ==
  IF s.property[p] = 0 /\ s.pattern[p] = 0
  THEN {s.additional} \ {0}
  ELSE {s.property[p], s.pattern[p]} \ {0}

HasInstance(n, S) ==
  LET s == schema[n]
  IN  \/ s.always = "true"
      \/ /\ s.always = "unset"
         /\ {s.ref} \ {0} \subseteq S
         /\ s.combinator = 0 /\ s.objectOnly =>
              \A p \in s.required : Selected(s, p) \subseteq S

(* The schemas with a finite instance: the least set closed under building *)
(* instances.                                                              *)
Inhabitable ==
  {n \in Nodes : \A S \in SUBSET Nodes :
     (\A m \in Nodes : HasInstance(m, S) => m \in S) => n \in S}

TypeOK ==
  /\ schema \in [Nodes -> Schemas]
  /\ inhabited \subseteq Nodes
  /\ i \in 1 .. N + 1
  /\ changed \in BOOLEAN
  /\ phase \in {"scan", "done"}
  /\ uninhabited \subseteq Nodes

(* No object forbids additional properties and requires a name that only   *)
(* patternProperties admits: the one construct whose absence the analysis  *)
(* takes for granted.                                                      *)
RequiredNamesDeclared ==
  \A n \in Nodes : \A p \in schema[n].required :
    schema[n].property[p] = 0 /\ schema[n].pattern[p] # 0 =>
      RequiredInhabited(schema[n], p, {})

(* A satisfiable schema is never wrongly flagged: only false negatives,    *)
(* never false positives (doc comment of analyzeInhabitation).             *)
NeverWronglyFlagged == uninhabited \cap Inhabitable = {}

(* What the analysis leaves unmodelled does not occur: patternProperties   *)
(* on a known name, and additionalProperties with a schema of its own.     *)
OnlyModelled ==
  \A n \in Nodes :
    /\ \A p \in Names : schema[n].pattern[p] = 0
    /\ schema[n].additional # 0 => schema[schema[n].additional].always # "unset"

(* Every object schema that recursively requires itself is flagged.        *)
FlagsEveryEmptyRecursion ==
  phase = "done" /\ OnlyModelled =>
    \A n \in Nodes :
      n \notin Inhabitable /\ Recursive(n) /\ schema[n].required # {}
        => n \in uninhabited

(* The fixed point is reached whatever the references form.                *)
Termination == <>(phase = "done")
=============================================================================

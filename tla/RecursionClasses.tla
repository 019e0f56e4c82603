-------------------------- MODULE RecursionClasses --------------------------
(***************************************************************************)
(* internal/frontend/scc.go: analyzeSCCs finds the components of the       *)
(* reference graph, then runs the same algorithm inside each recursive one *)
(* over the edges that do not descend into the instance: a component that  *)
(* is still cyclic without them is unguarded.  Both runs are runs of       *)
(* StronglyConnected, on whose variables this module builds.               *)
(***************************************************************************)
EXTENDS StronglyConnected

VARIABLES
  plain,    (* edges that stay on the instance: allOf, $ref, ...           *)
  descent,  (* edges into a property, an item, ...                         *)
  phase,    (* "outer" | "classify" | "inner" | "done"                     *)
  left,     (* the components not yet classified                           *)
  sccs      (* Registry.sccs: nodes and class                              *)

vars == <<tarjan, plain, descent, phase, left, sccs>>

-----------------------------------------------------------------------------

(* r.nodes lists every node; successors merges both kinds of edges.        *)
RegistryInit ==
  /\ plain \in [Vertices -> SUBSET Vertices]
  /\ descent \in [Vertices -> SUBSET Vertices]
  /\ roots = Vertices
  /\ graph = [v \in Vertices |-> plain[v] \cup descent[v]]
  /\ pending = roots
  /\ index = <<>> /\ lowlink = <<>> /\ onStack = {}
  /\ stack = <<>> /\ calls = <<>> /\ components = <<>>
  /\ phase = "outer"
  /\ left = <<>>
  /\ sccs = <<>>

(* scc.Recursive: every larger component is a cycle, a single vertex only  *)
(* with an edge to itself.                                                 *)
Recursive(comp, edges) ==
  Cardinality(comp) > 1 \/ \E v \in comp : comp = {v} /\ v \in edges[v]

Search ==
  /\ phase \in {"outer", "inner"}
  /\ Next
  /\ UNCHANGED <<plain, descent, phase, left, sccs>>

OuterReturns ==
  /\ phase = "outer"
  /\ Returned
  /\ left' = components
  /\ phase' = "classify"
  /\ UNCHANGED <<tarjan, plain, descent, sccs>>

Successors == [v \in Vertices |-> plain[v] \cup descent[v]]

(* Mutant of NonDescent: edges may leave the component.                    *)
NonDescentAnywhere(comp) == plain

NonDescent(comp) == [v \in Vertices |-> IF v \in comp THEN plain[v] \cap comp ELSE {}]

(* Mutant of Skip: the component is not taken off the list.                *)
SkipNothing ==
  /\ phase = "classify"
  /\ left # <<>>
  /\ ~ Recursive(Head(left), Successors)
  /\ UNCHANGED <<tarjan, plain, descent, phase, left, sccs>>

Skip ==
  /\ phase = "classify"
  /\ left # <<>>
  /\ ~ Recursive(Head(left), Successors)
  /\ left' = Tail(left)
  /\ UNCHANGED <<tarjan, plain, descent, phase, sccs>>

Classify ==
  /\ phase = "classify"
  /\ left # <<>>
  /\ Recursive(Head(left), Successors)
  /\ Components(Head(left), NonDescent(Head(left)))
  /\ phase' = "inner"
  /\ UNCHANGED <<plain, descent, left, sccs>>

InnerReturns ==
  /\ phase = "inner"
  /\ Returned
  /\ LET class == IF \E k \in DOMAIN components : Recursive(components[k], graph)
                  THEN "unguarded" ELSE "guarded"
     IN  sccs' = Append(sccs, [nodes |-> Head(left), class |-> class])
  /\ left' = Tail(left)
  /\ phase' = "classify"
  /\ UNCHANGED <<tarjan, plain, descent>>

Finish ==
  /\ phase = "classify"
  /\ left = <<>>
  /\ phase' = "done"
  /\ UNCHANGED <<tarjan, plain, descent, left, sccs>>

RegistryNext == Search \/ OuterReturns \/ Skip \/ Classify \/ InnerReturns \/ Finish

RegistrySpec == RegistryInit /\ [][RegistryNext]_vars
FairRegistrySpec == RegistrySpec /\ WF_vars(RegistryNext)

(* ClassifyRecursion, through Registry.sccIndex.                           *)
ClassifyRecursion(v) ==
  LET containing == {k \in DOMAIN sccs : v \in sccs[k].nodes}
  IN  IF containing = {} THEN "not-recursive" ELSE sccs[Max(containing)].class

-----------------------------------------------------------------------------

(* Whether a cycle through v exists in the graph of `edges`.               *)
OnCycle(v, edges) ==
  \A S \in SUBSET Vertices :
    edges[v] \subseteq S /\ (\A u \in S : edges[u] \subseteq S) => v \in S

(* Design 19: a recursive component is guarded if every cycle within it    *)
(* crosses at least one instance-descent edge.                             *)
MeaningOf(v) ==
  IF ~ OnCycle(v, Successors) THEN "not-recursive"
  ELSE IF \E u \in Vertices :
            /\ OnCycle(u, plain)
            /\ \A S \in SUBSET Vertices :
                 /\ v \in S /\ (\A x \in S : Successors[x] \subseteq S) => u \in S
                 /\ u \in S /\ (\A x \in S : Successors[x] \subseteq S) => v \in S
       THEN "unguarded"
       ELSE "guarded"

(* Every node gets the class its cycles call for.                          *)
ClassesAreRight ==
  phase = "done" => \A v \in Vertices : ClassifyRecursion(v) = MeaningOf(v)

(* The analysis ends, whatever the graph.                                  *)
Termination == <>(phase = "done")
=============================================================================

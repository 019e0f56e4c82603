-------------------------- MODULE StronglyConnected --------------------------
(***************************************************************************)
(* internal/scc/scc.go: Tarjan's algorithm, one step per turn of its loops *)
(* with the recursion's frames explicit.  Edges and roots are taken in any *)
(* order: the callers' slices fix one, and it must not matter.             *)
(***************************************************************************)
EXTENDS SequencesExt

CONSTANT Vertices

(* `nodes` is a finite slice and so is every list of edges.                *)
ASSUME VerticesAssumption == IsFiniteSet(Vertices)

VARIABLES
  roots,       (* the argument `nodes`                                     *)
  graph,       (* graph[v]: the vertices `edges(v)` lists                  *)
  pending,     (* roots the outer loop has not met                         *)
  index,       (* discovery number of the vertices seen                    *)
  lowlink,
  onStack,
  stack,
  calls,       (* activations of strongconnect: vertex, edges to follow    *)
  components   (* the result so far, each component as a set               *)

tarjan == <<roots, graph, pending, index, lowlink, onStack, stack, calls, components>>

-----------------------------------------------------------------------------

(* A call of Components.                                                   *)
Init ==
  /\ roots \in SUBSET Vertices
  /\ graph \in [Vertices -> SUBSET Vertices]
  /\ pending = roots
  /\ index = <<>>
  /\ lowlink = <<>>
  /\ onStack = {}
  /\ stack = <<>>
  /\ calls = <<>>
  /\ components = <<>>

Components(R, g) ==
  /\ roots' = R
  /\ graph' = g
  /\ pending' = R
  /\ index' = <<>>
  /\ lowlink' = <<>>
  /\ onStack' = {}
  /\ stack' = <<>>
  /\ calls' = <<>>
  /\ components' = <<>>

Returned == pending = {} /\ calls = <<>>

(* The map f after f[v] = n.                                               *)
With(f, v, n) == [u \in DOMAIN f \cup {v} |-> IF u = v THEN n ELSE f[u]]

(* Mutant of Enter: the lowlink is left at its zero value.                 *)
EnterAtZero(v, callers) ==
  LET counter == Cardinality(DOMAIN index)
  IN  /\ index' = With(index, v, counter)
      /\ lowlink' = With(lowlink, v, 0)
      /\ stack' = Append(stack, v)
      /\ onStack' = onStack \cup {v}
      /\ calls' = Append(callers, [vertex |-> v, edges |-> graph[v]])
      /\ UNCHANGED <<roots, graph, components>>

(* The head of strongconnect(v); t.counter is the number of vertices seen. *)
Enter(v, callers) ==
  LET counter == Cardinality(DOMAIN index)
  IN  /\ index' = With(index, v, counter)
      /\ lowlink' = With(lowlink, v, counter)
      /\ stack' = Append(stack, v)
      /\ onStack' = onStack \cup {v}
      /\ calls' = Append(callers, [vertex |-> v, edges |-> graph[v]])
      /\ UNCHANGED <<roots, graph, components>>

NextRoot(n) ==
  /\ calls = <<>>
  /\ n \in pending
  /\ pending' = pending \ {n}
  /\ IF n \in DOMAIN index
     THEN UNCHANGED <<roots, graph, index, lowlink, onStack, stack, calls, components>>
     ELSE Enter(n, <<>>)

Lower(v, bound) == [lowlink EXCEPT ![v] = Min({@, bound})]

(* Mutant of Follow: an edge to a closed component counts as a way back.   *)
FollowClosedToo(w) ==
  /\ calls # <<>>
  /\ w \in Last(calls).edges
  /\ UNCHANGED pending
  /\ LET rest == [calls EXCEPT ![Len(calls)].edges = @ \ {w}]
     IN  \/ w \notin DOMAIN index /\ Enter(w, rest)
         \/ /\ w \in DOMAIN index
            /\ lowlink' = Lower(Last(calls).vertex, index[w])
            /\ calls' = rest
            /\ UNCHANGED <<roots, graph, index, onStack, stack, components>>

(* The loop's turn for the edge to w.                                      *)
Follow(w) ==
  /\ calls # <<>>
  /\ w \in Last(calls).edges
  /\ UNCHANGED pending
  /\ LET rest == [calls EXCEPT ![Len(calls)].edges = @ \ {w}]
     IN  \/ w \notin DOMAIN index /\ Enter(w, rest)
         \/ /\ w \in onStack
            /\ lowlink' = Lower(Last(calls).vertex, index[w])
            /\ calls' = rest
            /\ UNCHANGED <<roots, graph, index, onStack, stack, components>>
         \/ /\ w \in DOMAIN index \ onStack
            /\ calls' = rest
            /\ UNCHANGED <<roots, graph, index, lowlink, onStack, stack, components>>

(* Where popping stops, and what it has popped by then.                    *)
Position(v) == CHOOSE k \in DOMAIN stack : stack[k] = v
Above(v) == {stack[k] : k \in Position(v) .. Len(stack)}

(* Mutant of Return: components are put in front of the earlier ones.      *)
ReturnPrepending ==
  /\ calls # <<>>
  /\ Last(calls).edges = {}
  /\ LET v == Last(calls).vertex
     IN  /\ IF lowlink[v] # index[v]
            THEN UNCHANGED <<stack, onStack, components>>
            ELSE /\ components' = <<Above(v)>> \o components
                 /\ onStack' = onStack \ Above(v)
                 /\ stack' = SubSeq(stack, 1, Position(v) - 1)
         /\ lowlink' = IF Len(calls) = 1 THEN lowlink
                       ELSE Lower(calls[Len(calls) - 1].vertex, lowlink[v])
  /\ calls' = Front(calls)
  /\ UNCHANGED <<roots, graph, pending, index>>

(* The loop is over: a root of a component pops it; back in the caller,    *)
(* the caller's lowlink takes the callee's in.                             *)
Return ==
  /\ calls # <<>>
  /\ Last(calls).edges = {}
  /\ LET v == Last(calls).vertex
     IN  /\ IF lowlink[v] # index[v]
            THEN UNCHANGED <<stack, onStack, components>>
            ELSE /\ components' = Append(components, Above(v))
                 /\ onStack' = onStack \ Above(v)
                 /\ stack' = SubSeq(stack, 1, Position(v) - 1)
         /\ lowlink' = IF Len(calls) = 1 THEN lowlink
                       ELSE Lower(calls[Len(calls) - 1].vertex, lowlink[v])
  /\ calls' = Front(calls)
  /\ UNCHANGED <<roots, graph, pending, index>>

Next ==
  \/ \E n \in Vertices : NextRoot(n)
  \/ \E w \in Vertices : Follow(w)
  \/ Return

Spec == Init /\ [][Next]_tarjan

-----------------------------------------------------------------------------

(* The vertices a path from v leads to, v itself included.                 *)
Reachable(v) ==
  {w \in Vertices : \A S \in SUBSET Vertices :
     (v \in S /\ \A u \in S : graph[u] \subseteq S) => w \in S}

ComponentOf(v) == {w \in Reachable(v) : v \in Reachable(w)}

(* A component is never emitted before all of it is known, nor with a      *)
(* vertex that belongs elsewhere.                                          *)
EmitsComponents ==
  \A k \in DOMAIN components : \A v \in components[k] : components[k] = ComponentOf(v)

(* Reverse topological order: no edge leads to a later component.          *)
EmitsSuccessorsFirst ==
  \A k \in DOMAIN components : \A v \in components[k] : \A w \in graph[v] :
    \E j \in 1 .. k : w \in components[j]

(* What makes popping right: a lowlink names an open vertex that can be    *)
(* reached, and every open vertex reaches the active call's.               *)
LowlinksLeadBack ==
  \A v \in onStack :
    /\ \E w \in onStack \cap Reachable(v) : index[w] = lowlink[v]
    /\ calls # <<>> /\ Last(calls).vertex \in Reachable(v)
=============================================================================

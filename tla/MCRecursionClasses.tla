------------------------- MODULE MCRecursionClasses -------------------------
(* The graphs over the given vertices with at most MaxEdges edges, each of *)
(* one kind, up to a renaming that sorts the vertices by their rank: roots *)
(* and edges are taken in any order, so the vertices are interchangeable.  *)
EXTENDS RecursionClasses

CONSTANT MaxEdges

EdgeSets == UNION {kSubset(k, Vertices \X Vertices) : k \in 0 .. MaxEdges}
GraphOf(E) == [v \in Vertices |-> {w \in Vertices : <<v, w>> \in E}]

(* Outgoing, incoming, descending out and in, compared in this order.      *)
Rank(E, D, v) ==
    125 * Cardinality({e \in E : e[1] = v}) + 25 * Cardinality({e \in E : e[2] = v})
  + 5 * Cardinality({e \in D : e[1] = v}) + Cardinality({e \in D : e[2] = v})

Sorted(E, D) == \A v, w \in Vertices : v < w => Rank(E, D, v) >= Rank(E, D, w)

MCInit ==
  /\ \E E \in EdgeSets : \E D \in SUBSET E :
       /\ Sorted(E, D)
       /\ plain = GraphOf(E \ D) /\ descent = GraphOf(D)
  /\ RegistryInit

MCSpec == MCInit /\ [][RegistryNext]_vars /\ WF_vars(RegistryNext)
=============================================================================

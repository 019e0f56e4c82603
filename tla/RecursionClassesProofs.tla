----------------------- MODULE RecursionClassesProofs -----------------------
(***************************************************************************)
(* First, of StronglyConnected: for every finite set of vertices, every    *)
(* graph and every order of roots and edges, Tarjan's algorithm emits      *)
(* strongly connected components, each in full and after those it leads    *)
(* to.  Then, of RecursionClasses: for every registry, both kinds of       *)
(* searches of analyzeSCCs are sound, and every node gets the class its    *)
(* cycles call for.                                                        *)
(*                                                                         *)
(* Reachability is the intersection of closed sets, so no proof needs      *)
(* induction over paths: what v reaches is bounded by exhibiting a closed  *)
(* set that holds v.                                                       *)
(***************************************************************************)
EXTENDS RecursionClasses, FiniteSetTheorems, TLAPS

Seen == DOMAIN index
Closed == Seen \ onStack

(* v's call is over the edge to w, or v's call is over.                    *)
Followed(v, w) ==
  /\ w \in graph[v]
  /\ \A i \in DOMAIN calls : calls[i].vertex = v => w \notin calls[i].edges

TypeInv ==
  /\ roots \subseteq Vertices /\ pending \subseteq Vertices
  /\ graph \in [Vertices -> SUBSET Vertices]
  /\ Seen \subseteq Vertices
  /\ index \in [Seen -> Nat] /\ lowlink \in [Seen -> Nat]
  /\ stack \in Seq(Vertices)
  /\ calls \in Seq([vertex : Vertices, edges : SUBSET Vertices])
  /\ components \in Seq(SUBSET Vertices)

(* Discovery numbers are below the counter and differ.                     *)
IndexInv ==
  /\ \A v \in Seen : index[v] < Cardinality(Seen)
  /\ \A v, w \in Seen : index[v] = index[w] => v = w

(* The stack holds the open vertices in the order of their discovery.      *)
StackInv ==
  /\ onStack = {stack[k] : k \in DOMAIN stack}
  /\ onStack \subseteq Seen
  /\ \A j, k \in DOMAIN stack : j < k => index[stack[j]] < index[stack[k]]

(* So do the calls, whose vertices are open.                               *)
CallsInv ==
  /\ \A i \in DOMAIN calls :
       /\ calls[i].vertex \in onStack
       /\ calls[i].edges \subseteq graph[calls[i].vertex]
  /\ \A i, j \in DOMAIN calls :
       i < j => index[calls[i].vertex] < index[calls[j].vertex]

(* A followed edge leads to a vertex seen, and from a closed one to a      *)
(* closed one.                                                             *)
EdgesInv ==
  /\ \A v \in Seen, w \in Vertices : Followed(v, w) => w \in Seen
  /\ \A v \in Closed : graph[v] \subseteq Closed

(* An open vertex reaches those above it on the stack, and the vertex of a *)
(* call at or below it.                                                    *)
ReachInv ==
  /\ \A x, y \in onStack : index[x] <= index[y] => y \in Reachable(x)
  /\ \A x \in onStack : \E i \in DOMAIN calls :
       index[calls[i].vertex] <= index[x] /\ calls[i].vertex \in Reachable(x)

(* A lowlink is the number of an open vertex below that can be reached.    *)
LowInv ==
  \A v \in onStack :
    /\ lowlink[v] <= index[v]
    /\ \E w \in onStack \cap Reachable(v) : index[w] = lowlink[v]

(* The open vertices between the vertex of call i and that of the next.    *)
InSegment(x, i) ==
  /\ index[calls[i].vertex] <= index[x]
  /\ \A j \in DOMAIN calls : i < j => index[x] < index[calls[j].vertex]

(* The lowlink of a call's vertex accounts for every edge followed from    *)
(* those vertices.                                                         *)
BoundInv ==
  \A i \in DOMAIN calls : \A x, w \in onStack :
    InSegment(x, i) /\ Followed(x, w) => lowlink[calls[i].vertex] <= index[w]

(* What was emitted: the closed vertices, no component twice.              *)
EmittedInv ==
  /\ Closed = UNION {components[k] : k \in DOMAIN components}
  /\ \A j, k \in DOMAIN components : j # k => components[j] \cap components[k] = {}
  /\ EmitsComponents
  /\ EmitsSuccessorsFirst

(* Every root is still to be met or was seen.                              *)
RootsInv == roots \ pending \subseteq Seen

IInv ==
  /\ TypeInv /\ IndexInv /\ StackInv /\ CallsInv /\ EdgesInv
  /\ ReachInv /\ LowInv /\ BoundInv /\ EmittedInv /\ RootsInv

-----------------------------------------------------------------------------
(* Reachability.                                                           *)

LEMMA ReachesItself == \A v \in Vertices : v \in Reachable(v)
BY DEF Reachable

(* A closed set that holds v holds all v reaches.                          *)
LEMMA ReachesWithin ==
  ASSUME NEW S \in SUBSET Vertices, \A u \in S : graph[u] \subseteq S, NEW v \in S
  PROVE  Reachable(v) \subseteq S
BY DEF Reachable

LEMMA ReachesAlongEdge ==
  ASSUME graph \in [Vertices -> SUBSET Vertices], NEW v \in Vertices, NEW w \in graph[v]
  PROVE  w \in Reachable(v)
BY DEF Reachable

LEMMA ReachesThrough ==
  ASSUME NEW v \in Vertices, NEW u \in Reachable(v)
  PROVE  Reachable(u) \subseteq Reachable(v)
BY DEF Reachable

(* As long as the graph stays, so does what is reachable.                  *)
LEMMA GraphIsConstant ==
  ASSUME UNCHANGED graph
  PROVE  \A v : Reachable(v)' = Reachable(v) /\ ComponentOf(v)' = ComponentOf(v)
BY DEF Reachable, ComponentOf

(* All of the stack reaches the vertex of the active call.                 *)
LEMMA AllReachActive ==
  ASSUME TypeInv, StackInv, CallsInv, ReachInv, NEW x \in onStack
  PROVE  calls # <<>> /\ Last(calls).vertex \in Reachable(x)
<1>1. PICK i \in DOMAIN calls : calls[i].vertex \in Reachable(x)
  BY DEF ReachInv
<1>2. calls # <<>> /\ Len(calls) \in DOMAIN calls
  BY <1>1 DEF TypeInv
<1>3. calls[Len(calls)].vertex \in onStack /\ calls[i].vertex \in onStack
  BY <1>1, <1>2 DEF CallsInv
<1>4. index[calls[i].vertex] <= index[calls[Len(calls)].vertex]
  <2>1. i \in Nat /\ i <= Len(calls)
    BY <1>1 DEF TypeInv
  <2>2. CASE i = Len(calls)
    BY <1>3, <2>2 DEF TypeInv, StackInv
  <2>3. CASE i < Len(calls)
    BY <1>1, <1>2, <1>3, <2>3 DEF CallsInv, TypeInv, StackInv
  <2> QED
    BY <2>1, <2>2, <2>3 DEF TypeInv
<1>5. calls[Len(calls)].vertex \in Reachable(calls[i].vertex)
  BY <1>3, <1>4 DEF ReachInv
<1> QED
  BY <1>1, <1>2, <1>3, <1>5, ReachesThrough DEF TypeInv, StackInv, Last

(* Hence the stack is empty between the roots.                             *)
LEMMA EmptyBetweenRoots ==
  ASSUME TypeInv, StackInv, CallsInv, ReachInv, calls = <<>>
  PROVE  onStack = {}
BY AllReachActive

-----------------------------------------------------------------------------
(* Entering a vertex: from a root, or along the edge the active call takes *)
(* off its list.                                                           *)

(* callers are the calls, short of at most their edges to w.               *)
ShortOf(callers, w) ==
  /\ callers \in Seq([vertex : Vertices, edges : SUBSET Vertices])
  /\ Len(callers) = Len(calls)
  /\ \A i \in DOMAIN calls :
       /\ callers[i].vertex = calls[i].vertex
       /\ callers[i].edges \subseteq calls[i].edges
       /\ calls[i].edges \subseteq callers[i].edges \cup {w}

(* What Enter does, cell by cell.                                          *)
LEMMA EnterCells ==
  ASSUME IInv, NEW w \in Vertices \ Seen, NEW callers, ShortOf(callers, w),
         Enter(w, callers)
  PROVE  /\ Seen' = Seen \cup {w}
         /\ onStack' = onStack \cup {w}
         /\ Closed' = Closed
         /\ index' \in [Seen' -> Nat] /\ lowlink' \in [Seen' -> Nat]
         /\ index'[w] = Cardinality(Seen) /\ lowlink'[w] = Cardinality(Seen)
         /\ \A v \in Seen : index'[v] = index[v] /\ lowlink'[v] = lowlink[v]
         /\ Cardinality(Seen) \in Nat
         /\ Cardinality(Seen') = Cardinality(Seen) + 1
         /\ \A v \in Seen : index[v] < Cardinality(Seen)
         /\ stack' = Append(stack, w)
         /\ calls' = Append(callers, [vertex |-> w, edges |-> graph[w]])
         /\ UNCHANGED <<graph, components>>
<1>1. IsFiniteSet(Seen)
  BY VerticesAssumption, FS_Subset DEF IInv, TypeInv
<1>2. /\ Cardinality(Seen) \in Nat
      /\ Cardinality(Seen \cup {w}) = Cardinality(Seen) + 1
  BY <1>1, FS_CardinalityType, FS_AddElement
<1>3. /\ index' = With(index, w, Cardinality(Seen))
      /\ lowlink' = With(lowlink, w, Cardinality(Seen))
      /\ onStack' = onStack \cup {w}
      /\ stack' = Append(stack, w)
      /\ calls' = Append(callers, [vertex |-> w, edges |-> graph[w]])
      /\ UNCHANGED <<graph, components>>
  BY DEF Enter, Seen
<1>4. /\ index' = [v \in Seen \cup {w} |-> IF v = w THEN Cardinality(Seen) ELSE index[v]]
      /\ lowlink' = [v \in Seen \cup {w} |-> IF v = w THEN Cardinality(Seen) ELSE lowlink[v]]
  BY <1>3 DEF With, Seen, IInv, TypeInv
<1>5. Seen' = Seen \cup {w}
  BY <1>4 DEF Seen
<1>6. Closed' = Closed
  BY <1>3, <1>5 DEF Closed, StackInv, IInv
<1>7. /\ index' \in [Seen' -> Nat] /\ lowlink' \in [Seen' -> Nat]
      /\ index'[w] = Cardinality(Seen) /\ lowlink'[w] = Cardinality(Seen)
      /\ \A v \in Seen : index'[v] = index[v] /\ lowlink'[v] = lowlink[v]
  BY <1>2, <1>4, <1>5 DEF IInv, TypeInv
<1> QED
  BY <1>2, <1>3, <1>5, <1>6, <1>7 DEF IndexInv, IInv

(* The calls after it, and the edges followed by then.                     *)
LEMMA EnterCalls ==
  ASSUME IInv, NEW w \in Vertices \ Seen, NEW callers, ShortOf(callers, w),
         Enter(w, callers)
  PROVE  /\ Len(calls) \in Nat /\ DOMAIN calls = 1 .. Len(calls)
         /\ DOMAIN calls' = 1 .. (Len(calls) + 1)
         /\ \A i \in DOMAIN calls :
              /\ calls'[i].vertex = calls[i].vertex
              /\ calls'[i].edges \subseteq calls[i].edges
         /\ calls'[Len(calls) + 1].vertex = w
         /\ calls'[Len(calls) + 1].edges = graph[w]
         /\ \A u : ~ Followed(w, u)'
         /\ \A v, u : Followed(v, u)' => Followed(v, u) \/ u = w
<1>1. /\ Len(calls) \in Nat /\ DOMAIN calls = 1 .. Len(calls)
      /\ DOMAIN callers = 1 .. Len(calls)
      /\ calls' = Append(callers, [vertex |-> w, edges |-> graph[w]])
      /\ graph' = graph
  <2>1. calls' = Append(callers, [vertex |-> w, edges |-> graph[w]]) /\ graph' = graph
    BY DEF Enter
  <2> QED
    BY <2>1 DEF IInv, TypeInv, ShortOf
<1>2. /\ DOMAIN calls' = 1 .. (Len(calls) + 1)
      /\ \A i \in DOMAIN calls : calls'[i] = callers[i]
      /\ calls'[Len(calls) + 1] = [vertex |-> w, edges |-> graph[w]]
  BY <1>1 DEF ShortOf
<1>3. /\ \A i \in DOMAIN calls :
           /\ calls'[i].vertex = calls[i].vertex
           /\ calls'[i].edges \subseteq calls[i].edges
           /\ calls[i].edges \subseteq calls'[i].edges \cup {w}
      /\ calls'[Len(calls) + 1].vertex = w
      /\ calls'[Len(calls) + 1].edges = graph[w]
  BY <1>1, <1>2 DEF ShortOf
<1>4. \A u : ~ Followed(w, u)'
  BY <1>1, <1>2, <1>3 DEF Followed
<1>5. \A v, u : Followed(v, u)' => Followed(v, u) \/ u = w
  BY <1>1, <1>2, <1>3 DEF Followed
<1> QED
  BY <1>1, <1>2, <1>3, <1>4, <1>5

LEMMA EnterPreserves ==
  ASSUME IInv, NEW w \in Vertices \ Seen, NEW callers, ShortOf(callers, w),
         Enter(w, callers), pending' \in SUBSET Vertices, roots' = roots,
         \A x \in onStack : w \in Reachable(x),
         roots \ pending' \subseteq Seen \cup {w}
  PROVE  IInv'
<1> DEFINE c == Cardinality(Seen)
           n == Len(calls)
<1>1. /\ Seen' = Seen \cup {w}
      /\ onStack' = onStack \cup {w}
      /\ Closed' = Closed
      /\ index' \in [Seen' -> Nat] /\ lowlink' \in [Seen' -> Nat]
      /\ index'[w] = c /\ lowlink'[w] = c
      /\ \A v \in Seen : index'[v] = index[v] /\ lowlink'[v] = lowlink[v]
      /\ c \in Nat
      /\ Cardinality(Seen') = c + 1
      /\ \A v \in Seen : index[v] \in Nat /\ index[v] < c
      /\ stack' = Append(stack, w)
      /\ calls' = Append(callers, [vertex |-> w, edges |-> graph[w]])
      /\ UNCHANGED <<graph, components>>
  BY EnterCells DEF IInv, TypeInv
<1>2. /\ n \in Nat /\ DOMAIN calls = 1 .. n
      /\ DOMAIN calls' = 1 .. (n + 1)
      /\ \A i \in DOMAIN calls :
           /\ calls'[i].vertex = calls[i].vertex
           /\ calls'[i].edges \subseteq calls[i].edges
      /\ calls'[n + 1].vertex = w
      /\ calls'[n + 1].edges = graph[w]
      /\ \A u : ~ Followed(w, u)'
      /\ \A v, u : Followed(v, u)' => Followed(v, u) \/ u = w
  BY EnterCalls
<1>3. /\ \A v : Reachable(v)' = Reachable(v) /\ ComponentOf(v)' = ComponentOf(v)
      /\ w \in Reachable(w)
  BY <1>1, GraphIsConstant, ReachesItself
<1>4. onStack \subseteq Seen /\ w \notin onStack /\ Seen \subseteq Vertices
  BY DEF IInv, StackInv, TypeInv
<1> HIDE DEF c, n
<1>5. TypeInv'
  <2>1. calls' \in Seq([vertex : Vertices, edges : SUBSET Vertices])
    <3>1. [vertex |-> w, edges |-> graph[w]] \in [vertex : Vertices, edges : SUBSET Vertices]
      BY DEF IInv, TypeInv
    <3> QED
      BY <1>1, <3>1 DEF ShortOf
  <2> QED
    BY <1>1, <2>1 DEF IInv, TypeInv
<1>6. IndexInv'
  <2> SUFFICES /\ \A v \in Seen' : index'[v] < c + 1
               /\ \A v, u \in Seen' : index'[v] = index'[u] => v = u
    BY <1>1 DEF IndexInv
  <2>1. ASSUME NEW v \in Seen' PROVE index'[v] < c + 1
    BY <1>1
  <2>2. ASSUME NEW v \in Seen', NEW u \in Seen', index'[v] = index'[u] PROVE v = u
    <3>1. CASE v \in Seen /\ u \in Seen
      BY <1>1, <2>2, <3>1 DEF IInv, IndexInv
    <3>2. CASE v = w \/ u = w
      BY <1>1, <2>2, <3>2
    <3> QED
      BY <1>1, <3>1, <3>2
  <2> QED
    BY <2>1, <2>2
<1>7. StackInv'
  <2>1. /\ DOMAIN stack' = 1 .. (Len(stack) + 1)
        /\ DOMAIN stack = 1 .. Len(stack) /\ Len(stack) \in Nat
        /\ \A k \in DOMAIN stack : stack'[k] = stack[k] /\ stack[k] \in onStack
        /\ stack'[Len(stack) + 1] = w
    BY <1>1 DEF IInv, TypeInv, StackInv
  <2>2. onStack' = {stack'[k] : k \in DOMAIN stack'}
    <3>1. onStack = {stack[k] : k \in DOMAIN stack}
      BY DEF IInv, StackInv
    <3>2. {stack'[k] : k \in DOMAIN stack'} = {stack[k] : k \in DOMAIN stack} \cup {w}
      BY <2>1
    <3> QED
      BY <1>1, <3>1, <3>2
  <2>3. ASSUME NEW j \in DOMAIN stack', NEW k \in DOMAIN stack', j < k
        PROVE  index'[stack'[j]] < index'[stack'[k]]
    <3>1. j \in DOMAIN stack /\ stack[j] \in Seen
      BY <1>4, <2>1, <2>3
    <3>2. CASE k \in DOMAIN stack
      <4>1. stack[k] \in Seen /\ index[stack[j]] < index[stack[k]]
        BY <1>4, <2>1, <2>3, <3>1, <3>2 DEF IInv, StackInv
      <4> QED
        BY <1>1, <2>1, <3>1, <3>2, <4>1
    <3>3. CASE k = Len(stack) + 1
      BY <1>1, <2>1, <3>1, <3>3
    <3> QED
      BY <2>1, <3>2, <3>3
  <2> QED
    BY <1>1, <1>4, <2>2, <2>3 DEF StackInv
<1>8. CallsInv'
  <2>1. ASSUME NEW i \in DOMAIN calls
        PROVE  /\ calls[i].vertex \in onStack /\ calls[i].vertex \in Seen
               /\ calls[i].edges \subseteq graph[calls[i].vertex]
    BY <1>4 DEF IInv, CallsInv
  <2>2. ASSUME NEW i \in DOMAIN calls'
        PROVE  /\ calls'[i].vertex \in onStack'
               /\ calls'[i].edges \subseteq graph'[calls'[i].vertex]
    <3>1. CASE i \in DOMAIN calls
      <4>1. /\ calls'[i].vertex = calls[i].vertex
            /\ calls'[i].edges \subseteq calls[i].edges
        BY <1>2, <3>1
      <4> QED
        BY <1>1, <2>1, <3>1, <4>1
    <3>2. CASE i = n + 1
      BY <1>1, <1>2, <3>2
    <3> QED
      BY <1>2, <3>1, <3>2
  <2>3. ASSUME NEW i \in DOMAIN calls', NEW j \in DOMAIN calls', i < j
        PROVE  index'[calls'[i].vertex] < index'[calls'[j].vertex]
    <3>1. i \in DOMAIN calls
      BY <1>2, <2>3
    <3>2. CASE j \in DOMAIN calls
      <4>1. index[calls[i].vertex] < index[calls[j].vertex]
        BY <2>3, <3>1, <3>2 DEF IInv, CallsInv
      <4> QED
        BY <1>1, <1>2, <2>1, <3>1, <3>2, <4>1
    <3>3. CASE j = n + 1
      BY <1>1, <1>2, <2>1, <3>1, <3>3
    <3> QED
      BY <1>2, <3>2, <3>3
  <2> QED
    BY <2>2, <2>3 DEF CallsInv
<1>9. EdgesInv'
  BY <1>1, <1>2 DEF IInv, EdgesInv
<1>10. ReachInv'
  <2>1. ASSUME NEW x \in onStack', NEW y \in onStack', index'[x] <= index'[y]
        PROVE  y \in Reachable(x)
    <3>1. CASE x \in onStack /\ y \in onStack
      BY <1>1, <1>4, <2>1, <3>1 DEF IInv, ReachInv
    <3>2. CASE x \in onStack /\ y = w
      BY <3>2
    <3>3. CASE x = w /\ y \in onStack
      BY <1>1, <1>4, <2>1, <3>3
    <3> QED
      BY <1>1, <1>3, <3>1, <3>2, <3>3
  <2>2. ASSUME NEW x \in onStack'
        PROVE  \E i \in DOMAIN calls' :
                 index'[calls'[i].vertex] <= index'[x] /\ calls'[i].vertex \in Reachable(x)
    <3>1. CASE x = w
      BY <1>1, <1>2, <1>3, <3>1
    <3>2. CASE x \in onStack
      <4>1. PICK i \in DOMAIN calls :
              index[calls[i].vertex] <= index[x] /\ calls[i].vertex \in Reachable(x)
        BY <3>2 DEF IInv, ReachInv
      <4>2. calls[i].vertex \in Seen
        BY <1>4 DEF IInv, CallsInv
      <4>3. i \in DOMAIN calls' /\ calls'[i].vertex = calls[i].vertex
        BY <1>2
      <4>4. index'[calls[i].vertex] <= index'[x]
        BY <1>1, <1>4, <3>2, <4>1, <4>2
      <4> QED
        BY <4>1, <4>3, <4>4
    <3> QED
      BY <1>1, <3>1, <3>2
  <2> QED
    BY <1>3, <2>1, <2>2 DEF ReachInv
<1>11. LowInv'
  <2> SUFFICES ASSUME NEW v \in onStack'
               PROVE  /\ lowlink'[v] <= index'[v]
                      /\ \E u \in onStack' \cap Reachable(v) : index'[u] = lowlink'[v]
    BY <1>3 DEF LowInv
  <2>1. CASE v = w
    BY <1>1, <1>3, <2>1
  <2>2. CASE v \in onStack
    BY <1>1, <1>4, <2>2 DEF IInv, LowInv
  <2> QED
    BY <1>1, <2>1, <2>2
<1>12. BoundInv'
  <2> SUFFICES ASSUME NEW i \in DOMAIN calls', NEW x \in onStack', NEW u \in onStack',
                      InSegment(x, i)', Followed(x, u)'
               PROVE  lowlink'[calls'[i].vertex] <= index'[u]
    BY DEF BoundInv
  <2>1. x \in onStack /\ (Followed(x, u) \/ u = w)
    BY <1>1, <1>2
  <2>2. i \in DOMAIN calls
    <3>1. SUFFICES ASSUME i = n + 1 PROVE FALSE
      BY <1>2
    <3>2. index'[w] <= index'[x]
      BY <1>2, <3>1 DEF InSegment
    <3> QED
      BY <1>1, <1>4, <2>1, <3>2
  <2>3. calls[i].vertex \in onStack /\ calls'[i].vertex = calls[i].vertex
    BY <1>2, <2>2 DEF IInv, CallsInv
  <2>4. CASE u = w
    <3>1. lowlink[calls[i].vertex] <= index[calls[i].vertex]
      BY <2>3 DEF IInv, LowInv
    <3>2. lowlink[calls[i].vertex] \in Nat
      BY <1>4, <2>3 DEF IInv, TypeInv
    <3> QED
      BY <1>1, <1>4, <2>3, <2>4, <3>1, <3>2
  <2>5. CASE u # w
    <3>1. u \in onStack /\ Followed(x, u)
      BY <1>1, <2>1, <2>5
    <3>2. InSegment(x, i)
      <4>1. index[calls[i].vertex] <= index[x]
        BY <1>1, <1>4, <2>1, <2>3 DEF InSegment
      <4>2. ASSUME NEW j \in DOMAIN calls, i < j PROVE index[x] < index[calls[j].vertex]
        <5>1. calls[j].vertex \in Seen
          BY <1>4 DEF IInv, CallsInv
        <5>2. j \in DOMAIN calls' /\ calls'[j].vertex = calls[j].vertex
          BY <1>2
        <5>3. index'[x] < index'[calls'[j].vertex]
          BY <4>2, <5>2 DEF InSegment
        <5> QED
          BY <1>1, <1>4, <2>1, <5>1, <5>2, <5>3
      <4> QED
        BY <4>1, <4>2 DEF InSegment
    <3>3. lowlink[calls[i].vertex] <= index[u]
      BY <2>1, <2>2, <3>1, <3>2 DEF IInv, BoundInv
    <3> QED
      BY <1>1, <1>4, <2>3, <3>1, <3>3
  <2> QED
    BY <2>4, <2>5
<1>13. EmittedInv'
  BY <1>1, <1>3 DEF IInv, EmittedInv, EmitsComponents, EmitsSuccessorsFirst
<1>14. RootsInv'
  BY <1>1 DEF RootsInv
<1> QED
  BY <1>5, <1>6, <1>7, <1>8, <1>9, <1>10, <1>11, <1>12, <1>13, <1>14 DEF IInv

-----------------------------------------------------------------------------

LEMMA InitEstablishes == Init => IInv
<1> SUFFICES ASSUME Init PROVE IInv
  OBVIOUS
<1> USE DEF Init
<1>1. Seen = {} /\ DOMAIN stack = {} /\ DOMAIN calls = {} /\ DOMAIN components = {}
  BY DEF Seen
<1>2. TypeInv
  BY <1>1 DEF TypeInv
<1>3. IndexInv /\ StackInv /\ CallsInv /\ EdgesInv /\ RootsInv
  BY <1>1 DEF IndexInv, StackInv, CallsInv, EdgesInv, RootsInv, Closed
<1>4. ReachInv /\ LowInv /\ BoundInv
  BY <1>1 DEF ReachInv, LowInv, BoundInv
<1>5. EmittedInv
  BY <1>1 DEF EmittedInv, EmitsComponents, EmitsSuccessorsFirst, Closed
<1> QED
  BY <1>2, <1>3, <1>4, <1>5 DEF IInv

(* Of the roots only RootsInv speaks, of pending it and TypeInv.           *)
LEMMA NothingElseChanges ==
  ASSUME IInv, TypeInv', RootsInv',
         UNCHANGED <<graph, index, lowlink, onStack, stack, calls, components>>
  PROVE  IInv'
<1>1. UNCHANGED <<Seen, Closed>>
  BY DEF Seen, Closed
<1>2. IndexInv' /\ StackInv' /\ CallsInv'
  BY <1>1 DEF IInv, IndexInv, StackInv, CallsInv
<1>3. EdgesInv'
  BY <1>1 DEF IInv, EdgesInv, Followed
<1>4. ReachInv' /\ LowInv'
  BY <1>1, GraphIsConstant DEF IInv, ReachInv, LowInv
<1>5. BoundInv'
  BY <1>1 DEF IInv, BoundInv, InSegment, Followed
<1>6. EmittedInv'
  BY <1>1, GraphIsConstant DEF IInv, EmittedInv, EmitsComponents, EmitsSuccessorsFirst
<1> QED
  BY <1>2, <1>3, <1>4, <1>5, <1>6 DEF IInv

LEMMA RootPreserves ==
  ASSUME IInv, NEW n \in Vertices, NextRoot(n)
  PROVE  IInv'
<1>1. calls = <<>> /\ n \in pending /\ pending' = pending \ {n}
  BY DEF NextRoot
<1>2. CASE n \in Seen
  <2>1. UNCHANGED <<roots, graph, index, lowlink, onStack, stack, calls, components>>
    BY <1>2 DEF NextRoot, Seen
  <2>2. UNCHANGED <<Seen, Closed>>
    BY <2>1 DEF Seen, Closed
  <2>3. TypeInv' /\ RootsInv'
    BY <1>1, <1>2, <2>1, <2>2 DEF IInv, TypeInv, RootsInv
  <2> QED
    BY <2>1, <2>3, NothingElseChanges
<1>3. CASE n \notin Seen
  <2>1. Enter(n, <<>>) /\ roots' = roots
    BY <1>3 DEF NextRoot, Enter, Seen
  <2>2. ShortOf(<<>>, n)
    BY <1>1 DEF ShortOf
  <2>3. onStack = {}
    BY <1>1, EmptyBetweenRoots DEF IInv
  <2>4. pending' \in SUBSET Vertices /\ roots \ pending' \subseteq Seen \cup {n}
    BY <1>1 DEF IInv, TypeInv, RootsInv
  <2> QED
    BY <1>3, <2>1, <2>2, <2>3, <2>4, EnterPreserves
<1> QED
  BY <1>2, <1>3

-----------------------------------------------------------------------------
(* A turn of the loop.                                                     *)

LEMMA MinOfTwo ==
  ASSUME NEW a \in Nat, NEW b \in Nat
  PROVE  Min({a, b}) = IF a <= b THEN a ELSE b
BY DEF Min

LEMMA LowerCells ==
  ASSUME IInv, NEW v \in Seen, NEW b \in Nat
  PROVE  /\ Lower(v, b) \in [Seen -> Nat]
         /\ Lower(v, b)[v] = IF lowlink[v] <= b THEN lowlink[v] ELSE b
         /\ \A u \in Seen : u # v => Lower(v, b)[u] = lowlink[u]
<1>1. lowlink \in [Seen -> Nat]
  BY DEF IInv, TypeInv
<1>2. Min({lowlink[v], b}) = IF lowlink[v] <= b THEN lowlink[v] ELSE b
  BY <1>1, MinOfTwo
<1>3. Lower(v, b) = [lowlink EXCEPT ![v] = Min({lowlink[v], b})]
  BY DEF Lower
<1> QED
  BY <1>1, <1>2, <1>3

Rest(w) == [calls EXCEPT ![Len(calls)].edges = @ \ {w}]

LEMMA RestCells ==
  ASSUME IInv, calls # <<>>, NEW w
  PROVE  /\ Len(calls) \in Nat \ {0} /\ DOMAIN calls = 1 .. Len(calls)
         /\ ShortOf(Rest(w), w)
         /\ DOMAIN Rest(w) = 1 .. Len(calls)
         /\ Rest(w)[Len(calls)].edges = calls[Len(calls)].edges \ {w}
         /\ \A i \in DOMAIN calls :
              /\ Rest(w)[i].vertex = calls[i].vertex
              /\ i # Len(calls) => Rest(w)[i].edges = calls[i].edges
<1> DEFINE n == Len(calls)
           C == [vertex : Vertices, edges : SUBSET Vertices]
<1>1. calls \in Seq(C) /\ n \in Nat \ {0} /\ DOMAIN calls = 1 .. n
  BY DEF IInv, TypeInv
<1>2. \A i \in 1 .. n : calls[i] \in C
  <2> HIDE DEF C
  <2> QED
    BY <1>1
<1>3. /\ DOMAIN Rest(w) = 1 .. n
      /\ \A i \in 1 .. n : i # n => Rest(w)[i] = calls[i]
      /\ Rest(w)[n] = [calls[n] EXCEPT !.edges = @ \ {w}]
  <2> DEFINE last == [calls[n] EXCEPT !.edges = calls[n].edges \ {w}]
  <2>1. Rest(w) = [calls EXCEPT ![n] = last]
    BY DEF Rest
  <2>2. /\ DOMAIN Rest(w) = 1 .. n
        /\ \A i \in 1 .. n : i # n => Rest(w)[i] = calls[i]
        /\ Rest(w)[n] = last
    <3> HIDE DEF C, n, last
    <3> QED
      BY <1>1, <2>1
  <2> QED
    BY <2>2
<1>4. /\ Rest(w)[n].vertex = calls[n].vertex
      /\ Rest(w)[n].edges = calls[n].edges \ {w}
      /\ Rest(w)[n] \in C
  BY <1>1, <1>2, <1>3
<1>5. Rest(w) \in Seq(C) /\ Len(Rest(w)) = n
  <2>1. Rest(w) \in [1 .. n -> C]
    BY <1>1, <1>2, <1>3, <1>4 DEF Rest
  <2> QED
    BY <1>1, <2>1
<1> QED
  BY <1>1, <1>2, <1>3, <1>4, <1>5 DEF ShortOf

(* The active vertex is open, and so is all the way to it.                 *)
LEMMA FollowPreserves ==
  ASSUME IInv, NEW w \in Vertices, Follow(w)
  PROVE  IInv'
<1> DEFINE n == Len(calls)
           a == Last(calls).vertex
<1>1. calls # <<>> /\ w \in calls[n].edges /\ pending' = pending /\ a = calls[n].vertex
  BY DEF Follow, Last
<1>2. /\ n \in Nat \ {0} /\ DOMAIN calls = 1 .. n
      /\ ShortOf(Rest(w), w)
      /\ DOMAIN Rest(w) = 1 .. n
      /\ Rest(w)[n].edges = calls[n].edges \ {w}
      /\ \A i \in DOMAIN calls :
           /\ Rest(w)[i].vertex = calls[i].vertex
           /\ i # n => Rest(w)[i].edges = calls[i].edges
  BY <1>1, RestCells
<1>3. a \in onStack /\ a \in Seen /\ a \in Vertices /\ w \in graph[a] /\ w \in Reachable(a)
  <2>1. a \in onStack /\ w \in graph[a]
    BY <1>1, <1>2 DEF IInv, CallsInv
  <2>2. a \in Seen /\ a \in Vertices
    BY <2>1 DEF IInv, StackInv, TypeInv
  <2> QED
    BY <2>1, <2>2, ReachesAlongEdge DEF IInv, TypeInv
<1>4. CASE w \notin Seen
  <2>1. Enter(w, Rest(w)) /\ roots' = roots
    BY <1>4 DEF Follow, Rest, Enter, Seen, IInv, StackInv
  <2>2. \A x \in onStack : w \in Reachable(x)
    <3> SUFFICES ASSUME NEW x \in onStack PROVE w \in Reachable(x)
      OBVIOUS
    <3>1. a \in Reachable(x) /\ x \in Vertices
      BY AllReachActive DEF IInv, StackInv, TypeInv
    <3> QED
      BY <1>3, <3>1, ReachesThrough
  <2>3. pending' \in SUBSET Vertices /\ roots \ pending' \subseteq Seen \cup {w}
    BY <1>1 DEF IInv, TypeInv, RootsInv
  <2> QED
    BY <1>2, <1>4, <2>1, <2>2, <2>3, EnterPreserves
<1>5. CASE w \in Seen
  <2>1. /\ calls' = Rest(w)
        /\ UNCHANGED <<roots, pending, graph, index, onStack, stack, components>>
        /\ IF w \in onStack THEN lowlink' = Lower(a, index[w]) ELSE lowlink' = lowlink
    BY <1>1, <1>5 DEF Follow, Rest, Seen
  <2>2. Seen' = Seen /\ Closed' = Closed
    BY <2>1 DEF Seen, Closed
  <2>3. /\ lowlink' \in [Seen -> Nat] /\ lowlink \in [Seen -> Nat] /\ index \in [Seen -> Nat]
        /\ \A v \in Seen : lowlink'[v] <= lowlink[v] /\ (v # a => lowlink'[v] = lowlink[v])
        /\ w \in onStack => lowlink'[a] = IF lowlink[a] <= index[w] THEN lowlink[a] ELSE index[w]
        /\ w \notin onStack => lowlink' = lowlink
    <3>1. lowlink \in [Seen -> Nat] /\ index \in [Seen -> Nat]
      BY DEF IInv, TypeInv
    <3>2. CASE w \in onStack
      <4>1. lowlink' = Lower(a, index[w]) /\ index[w] \in Nat
        BY <1>5, <2>1, <3>1, <3>2
      <4>2. /\ Lower(a, index[w]) \in [Seen -> Nat]
            /\ Lower(a, index[w])[a] = IF lowlink[a] <= index[w] THEN lowlink[a] ELSE index[w]
            /\ \A u \in Seen : u # a => Lower(a, index[w])[u] = lowlink[u]
        BY <1>3, <4>1, LowerCells
      <4> QED
        BY <1>3, <3>1, <3>2, <4>1, <4>2
    <3>3. CASE w \notin onStack
      BY <2>1, <3>1, <3>3
    <3> QED
      BY <3>1, <3>2, <3>3
  <2>4. \A v, u : Followed(v, u)' => Followed(v, u) \/ (v = a /\ u = w)
    <3> SUFFICES ASSUME NEW v, NEW u, Followed(v, u)', ~ (v = a /\ u = w)
                 PROVE  Followed(v, u)
      OBVIOUS
    <3>1. u \in graph[v]
      BY <2>1 DEF Followed
    <3>2. ASSUME NEW i \in DOMAIN calls, calls[i].vertex = v PROVE u \notin calls[i].edges
      <4>1. u \notin Rest(w)[i].edges
        BY <1>2, <2>1, <3>2 DEF Followed
      <4> QED
        BY <1>1, <1>2, <3>2, <4>1
    <3> QED
      BY <3>1, <3>2 DEF Followed
  <2>5. \A v : Reachable(v)' = Reachable(v) /\ ComponentOf(v)' = ComponentOf(v)
    BY <2>1, GraphIsConstant
  <2> HIDE DEF a, n
  <2>6. TypeInv'
    BY <1>2, <2>1, <2>2, <2>3 DEF IInv, TypeInv, ShortOf
  <2>7. IndexInv' /\ StackInv' /\ RootsInv'
    BY <2>1, <2>2 DEF IInv, IndexInv, StackInv, RootsInv
  <2>8. CallsInv'
    <3>1. \A i \in DOMAIN calls : calls'[i].edges \subseteq calls[i].edges
      BY <1>2, <2>1
    <3> QED
      BY <1>2, <2>1, <3>1 DEF IInv, CallsInv
  <2>9. EdgesInv'
    BY <1>5, <2>1, <2>2, <2>4 DEF IInv, EdgesInv
  <2>10. ReachInv'
    BY <1>2, <2>1, <2>5 DEF IInv, ReachInv
  <2>11. LowInv'
    <3> SUFFICES ASSUME NEW v \in onStack
                 PROVE  /\ lowlink'[v] <= index[v]
                        /\ \E u \in onStack \cap Reachable(v) : index[u] = lowlink'[v]
      BY <2>1, <2>5 DEF LowInv
    <3>1. /\ v \in Seen /\ lowlink[v] <= index[v]
          /\ \E u \in onStack \cap Reachable(v) : index[u] = lowlink[v]
      BY DEF IInv, LowInv, StackInv
    <3>2. CASE lowlink'[v] = lowlink[v]
      BY <3>1, <3>2
    <3>3. CASE v = a /\ w \in onStack /\ lowlink'[a] = index[w]
      BY <1>3, <1>5, <2>3, <3>1, <3>3
    <3> QED
      BY <2>3, <3>1, <3>2, <3>3
  <2>12. BoundInv'
    <3> SUFFICES ASSUME NEW i \in DOMAIN calls, NEW x \in onStack, NEW u \in onStack,
                        InSegment(x, i), Followed(x, u)'
                 PROVE  lowlink'[calls[i].vertex] <= index[u]
      BY <1>2, <2>1 DEF BoundInv, InSegment
    <3>1. calls[i].vertex \in Seen /\ u \in Seen
      BY DEF IInv, CallsInv, StackInv
    <3>2. CASE Followed(x, u)
      <4>1. lowlink[calls[i].vertex] <= index[u]
        BY <3>2 DEF IInv, BoundInv
      <4> QED
        BY <2>3, <3>1, <4>1
    <3>3. CASE x = a /\ u = w
      <4>1. i = n
        <5>1. i < n => index[x] < index[calls[n].vertex]
          BY <1>2 DEF InSegment
        <5> QED
          BY <1>1, <1>2, <1>3, <2>3, <3>3, <5>1
      <4>2. calls[i].vertex = a /\ w \in onStack
        BY <1>1, <3>3, <4>1
      <4> QED
        BY <1>3, <2>3, <3>1, <3>3, <4>2
    <3> QED
      BY <2>4, <3>2, <3>3
  <2>13. EmittedInv'
    BY <2>1, <2>2, <2>5 DEF IInv, EmittedInv, EmitsComponents, EmitsSuccessorsFirst
  <2> QED
    BY <2>6, <2>7, <2>8, <2>9, <2>10, <2>11, <2>12, <2>13 DEF IInv
<1> QED
  BY <1>4, <1>5

-----------------------------------------------------------------------------
(* The end of a call.                                                      *)

Active == calls[Len(calls)].vertex

(* What Return does to the calls; what lies above the active vertex has    *)
(* every edge followed.                                                    *)
LEMMA ReturnCells ==
  ASSUME IInv, Return
  PROVE  /\ Len(calls) \in Nat \ {0} /\ DOMAIN calls = 1 .. Len(calls)
         /\ calls' \in Seq([vertex : Vertices, edges : SUBSET Vertices])
         /\ DOMAIN calls' = 1 .. (Len(calls) - 1)
         /\ \A i \in DOMAIN calls' : i \in DOMAIN calls /\ calls'[i] = calls[i]
         /\ Active \in onStack /\ Active \in Seen /\ Active \in Vertices
         /\ \A i \in DOMAIN calls' : index[calls[i].vertex] < index[Active]
         /\ \A x, u : Followed(x, u)' => Followed(x, u)
         /\ \A x \in onStack : index[Active] <= index[x] =>
              \A u \in graph[x] : Followed(x, u)
         /\ \A x \in onStack : Active \in Reachable(x)
<1> DEFINE n == Len(calls)
<1>1. calls # <<>> /\ calls[n].edges = {} /\ calls' = Front(calls) /\ graph' = graph
  BY DEF Return, Last
<1>2. /\ n \in Nat \ {0} /\ DOMAIN calls = 1 .. n
      /\ DOMAIN calls' = 1 .. (n - 1)
      /\ \A i \in 1 .. (n - 1) : calls'[i] = calls[i]
  BY <1>1 DEF Front, IInv, TypeInv
<1>3. Active \in onStack /\ Active \in Seen /\ Active \in Vertices
  <2>1. calls[n].vertex \in onStack
    BY <1>2 DEF IInv, CallsInv
  <2> QED
    BY <2>1 DEF IInv, StackInv, TypeInv, Active
<1>4. \A i \in 1 .. (n - 1) : index[calls[i].vertex] < index[Active]
  BY <1>2 DEF IInv, CallsInv, Active
<1>5. ASSUME NEW x, NEW u, Followed(x, u)' PROVE Followed(x, u)
  <2>1. u \in graph[x] /\ \A i \in 1 .. (n - 1) : calls[i].vertex = x => u \notin calls[i].edges
    BY <1>1, <1>2, <1>5 DEF Followed
  <2> QED
    BY <1>1, <1>2, <2>1 DEF Followed
<1>6. ASSUME NEW x \in onStack, index[Active] <= index[x], NEW u \in graph[x]
      PROVE  Followed(x, u)
  <2>1. index[x] \in Nat /\ index[Active] \in Nat
    BY <1>3 DEF IInv, StackInv, TypeInv
  <2>2. \A i \in 1 .. (n - 1) : calls[i].vertex # x
    BY <1>4, <1>6, <2>1
  <2> QED
    BY <1>1, <1>2, <2>2 DEF Followed
<1>7. \A x \in onStack : Active \in Reachable(x)
  BY AllReachActive DEF IInv, Active, Last
<1>8. calls' \in Seq([vertex : Vertices, edges : SUBSET Vertices])
  <2> DEFINE C == [vertex : Vertices, edges : SUBSET Vertices]
  <2>1. calls \in Seq(C)
    BY DEF IInv, TypeInv
  <2> HIDE DEF C
  <2>2. calls' \in Seq(C)
    BY <1>1, <1>2, <2>1 DEF Front
  <2> QED
    BY <2>2 DEF C
<1> QED
  BY <1>2, <1>3, <1>4, <1>5, <1>6, <1>7, <1>8

(* The caller's lowlink takes the callee's in.                             *)
LEMMA ReturnLowers ==
  ASSUME IInv, Return
  PROVE  /\ lowlink' \in [Seen -> Nat]
         /\ \A u \in Seen : lowlink'[u] <= lowlink[u]
         /\ Len(calls) = 1 => lowlink' = lowlink
         /\ Len(calls) # 1 =>
              LET p == calls[Len(calls) - 1].vertex
              IN  /\ p \in onStack /\ p \in Seen /\ index[p] < index[Active]
                  /\ \A u \in Seen : u # p => lowlink'[u] = lowlink[u]
                  /\ lowlink'[p] =
                       IF lowlink[p] <= lowlink[Active] THEN lowlink[p] ELSE lowlink[Active]
<1>1. lowlink \in [Seen -> Nat] /\ Active \in Seen /\ Len(calls) \in Nat \ {0}
  BY ReturnCells DEF IInv, TypeInv
<1>2. lowlink' = IF Len(calls) = 1 THEN lowlink
                 ELSE Lower(calls[Len(calls) - 1].vertex, lowlink[Active])
  BY DEF Return, Active, Last
<1>3. CASE Len(calls) = 1
  BY <1>1, <1>2, <1>3
<1>4. CASE Len(calls) # 1
  <2> DEFINE p == calls[Len(calls) - 1].vertex
  <2>1. Len(calls) - 1 \in DOMAIN calls'
    BY <1>1, <1>4, ReturnCells
  <2>2. p \in onStack /\ p \in Seen /\ index[p] < index[Active]
    BY <2>1, ReturnCells DEF IInv, CallsInv, StackInv
  <2>3. lowlink[Active] \in Nat
    BY <1>1
  <2>4. /\ Lower(p, lowlink[Active]) \in [Seen -> Nat]
        /\ Lower(p, lowlink[Active])[p] =
             IF lowlink[p] <= lowlink[Active] THEN lowlink[p] ELSE lowlink[Active]
        /\ \A u \in Seen : u # p => Lower(p, lowlink[Active])[u] = lowlink[u]
    BY <2>2, <2>3, LowerCells
  <2>5. lowlink' = Lower(p, lowlink[Active])
    BY <1>2, <1>4
  <2> HIDE DEF p
  <2>6. \A u \in Seen : lowlink'[u] <= lowlink[u]
    BY <1>1, <2>2, <2>3, <2>4, <2>5
  <2> QED
    BY <1>4, <2>2, <2>4, <2>5, <2>6 DEF p
<1> QED
  BY <1>3, <1>4

(* A vertex that reaches further down stays on the stack.                  *)
LEMMA ReturnOpenPreserves ==
  ASSUME IInv, Return, lowlink[Active] # index[Active]
  PROVE  IInv'
<1> DEFINE n == Len(calls)
           a == Active
           p == calls[n - 1].vertex
<1>1. /\ UNCHANGED <<roots, pending, graph, index, onStack, stack, components>>
      /\ Seen' = Seen /\ Closed' = Closed
  BY DEF Return, Active, Last, Seen, Closed
<1>2. /\ n \in Nat \ {0} /\ DOMAIN calls = 1 .. n
      /\ DOMAIN calls' = 1 .. (n - 1)
      /\ \A i \in DOMAIN calls' : i \in DOMAIN calls /\ calls'[i] = calls[i]
      /\ a \in onStack /\ a \in Seen /\ a \in Vertices
      /\ \A i \in DOMAIN calls' : index[calls[i].vertex] < index[a]
      /\ \A x, u : Followed(x, u)' => Followed(x, u)
  BY ReturnCells
<1>3. /\ lowlink' \in [Seen -> Nat]
      /\ \A u \in Seen : lowlink'[u] <= lowlink[u]
      /\ n = 1 => lowlink' = lowlink
      /\ n # 1 =>
           /\ p \in onStack /\ p \in Seen /\ index[p] < index[a]
           /\ \A u \in Seen : u # p => lowlink'[u] = lowlink[u]
           /\ lowlink'[p] = IF lowlink[p] <= lowlink[a] THEN lowlink[p] ELSE lowlink[a]
  BY ReturnLowers
<1>4. /\ \A u \in Seen : index[u] \in Nat /\ lowlink[u] \in Nat
      /\ onStack \subseteq Seen /\ Seen \subseteq Vertices
      /\ \A i \in DOMAIN calls : calls[i].vertex \in onStack
  BY DEF IInv, TypeInv, StackInv, CallsInv
<1>5. \A v : Reachable(v)' = Reachable(v) /\ ComponentOf(v)' = ComponentOf(v)
  BY <1>1, GraphIsConstant
<1>6. lowlink[a] < index[a]
  BY <1>2, <1>4 DEF IInv, LowInv
<1>7. PICK d \in onStack : d \in Reachable(a) /\ index[d] = lowlink[a]
  BY <1>2 DEF IInv, LowInv
<1>8. calls[n].vertex = a
  BY DEF Active
<1> HIDE DEF a, n, p
<1>9. TypeInv'
  BY <1>1, <1>3, ReturnCells DEF IInv, TypeInv
<1>10. IndexInv' /\ StackInv' /\ RootsInv'
  BY <1>1 DEF IInv, IndexInv, StackInv, RootsInv
<1>11. CallsInv'
  BY <1>1, <1>2 DEF IInv, CallsInv
<1>12. EdgesInv'
  BY <1>1, <1>2 DEF IInv, EdgesInv
<1>13. ReachInv'
  <2> SUFFICES ASSUME NEW x \in onStack
               PROVE  \E i \in DOMAIN calls' :
                        index[calls[i].vertex] <= index[x] /\ calls[i].vertex \in Reachable(x)
    BY <1>1, <1>2, <1>5 DEF IInv, ReachInv
  <2>1. PICK i \in DOMAIN calls :
          index[calls[i].vertex] <= index[x] /\ calls[i].vertex \in Reachable(x)
    BY DEF IInv, ReachInv
  <2>2. CASE i # n
    BY <1>2, <2>1, <2>2
  <2>3. CASE i = n
    <3>1. PICK j \in DOMAIN calls :
            index[calls[j].vertex] <= index[d] /\ calls[j].vertex \in Reachable(d)
      BY DEF IInv, ReachInv
    <3>2. index[calls[j].vertex] < index[a]
      BY <1>2, <1>4, <1>6, <1>7, <3>1
    <3>3. j # n
      BY <1>2, <1>4, <1>8, <3>2
    <3>4. calls[j].vertex \in Reachable(x)
      BY <1>2, <1>4, <1>7, <1>8, <2>1, <2>3, <3>1, ReachesThrough
    <3>5. index[calls[j].vertex] <= index[x]
      BY <1>2, <1>4, <1>8, <2>1, <2>3, <3>2
    <3> QED
      BY <1>2, <3>1, <3>3, <3>4, <3>5
  <2> QED
    BY <2>2, <2>3
<1>14. LowInv'
  <2> SUFFICES ASSUME NEW v \in onStack
               PROVE  /\ lowlink'[v] <= index[v]
                      /\ \E u \in onStack \cap Reachable(v) : index[u] = lowlink'[v]
    BY <1>1, <1>5 DEF LowInv
  <2>1. /\ v \in Seen /\ lowlink[v] <= index[v] /\ lowlink'[v] \in Nat
        /\ \E u \in onStack \cap Reachable(v) : index[u] = lowlink[v]
    BY <1>3, <1>4 DEF IInv, LowInv
  <2>2. CASE lowlink'[v] = lowlink[v]
    BY <2>1, <2>2
  <2>3. CASE n # 1 /\ v = p /\ lowlink'[p] = lowlink[a]
    <3>1. a \in Reachable(p)
      BY <1>2, <1>3, <1>4, <2>3 DEF IInv, ReachInv
    <3>2. d \in Reachable(v)
      BY <1>3, <1>4, <1>7, <2>3, <3>1, ReachesThrough
    <3>3. lowlink'[v] <= index[v]
      BY <1>3, <1>4, <2>1
    <3> QED
      BY <1>7, <2>3, <3>2, <3>3
  <2> QED
    BY <1>3, <2>1, <2>2, <2>3
<1>15. BoundInv'
  <2> SUFFICES ASSUME NEW i \in DOMAIN calls', NEW x \in onStack, NEW u \in onStack,
                      InSegment(x, i)', Followed(x, u)'
               PROVE  lowlink'[calls[i].vertex] <= index[u]
    BY <1>1, <1>2 DEF BoundInv
  <2>1. /\ i \in DOMAIN calls /\ calls[i].vertex \in Seen /\ calls[n].vertex \in Seen
        /\ x \in Seen /\ u \in Seen /\ Followed(x, u)
    BY <1>2, <1>4
  <2>2. /\ index[calls[i].vertex] <= index[x]
        /\ \A j \in DOMAIN calls' : i < j => index[x] < index[calls[j].vertex]
    BY <1>1, <1>2 DEF InSegment
  <2>3. CASE index[x] < index[a]
    <3>1. InSegment(x, i)
      BY <1>2, <1>8, <2>2, <2>3 DEF InSegment
    <3>2. lowlink[calls[i].vertex] <= index[u]
      BY <2>1, <3>1 DEF IInv, BoundInv
    <3> QED
      BY <1>3, <1>4, <2>1, <3>2
  <2>4. CASE index[a] <= index[x]
    <3>1. i = n - 1 /\ n # 1
      <4>1. n - 1 \in DOMAIN calls' => index[calls[n - 1].vertex] < index[a]
        BY <1>2
      <4>2. ~ i < n - 1
        BY <1>2, <1>4, <2>1, <2>2, <2>4, <4>1
      <4> QED
        BY <1>2, <4>2
    <3>2. InSegment(x, n)
      BY <1>2, <1>8, <2>4 DEF InSegment
    <3>3. lowlink[a] <= index[u]
      BY <1>2, <1>8, <2>1, <3>2 DEF IInv, BoundInv
    <3>4. calls[i].vertex = p
      BY <3>1 DEF p
    <3> QED
      BY <1>2, <1>3, <1>4, <2>1, <3>1, <3>3, <3>4
  <2> QED
    BY <1>2, <1>4, <2>1, <2>3, <2>4
<1>16. EmittedInv'
  BY <1>1, <1>5 DEF IInv, EmittedInv, EmitsComponents, EmitsSuccessorsFirst
<1> QED
  BY <1>9, <1>10, <1>11, <1>12, <1>13, <1>14, <1>15, <1>16 DEF IInv

(* What is popped: the open vertices from the active one up.               *)
LEMMA PoppedCells ==
  ASSUME IInv, Return, lowlink[Active] = index[Active]
  PROVE  /\ Above(Active) = {x \in onStack : index[Active] <= index[x]}
         /\ onStack' = {x \in onStack : index[x] < index[Active]}
         /\ stack' \in Seq(Vertices)
         /\ DOMAIN stack' \subseteq DOMAIN stack
         /\ \A k \in DOMAIN stack' : stack'[k] = stack[k]
         /\ onStack' = {stack'[k] : k \in DOMAIN stack'}
         /\ components' = Append(components, Above(Active))
         /\ UNCHANGED <<roots, pending, graph, index>>
         /\ lowlink' = lowlink
<1> DEFINE P == Position(Active)
<1>1. /\ components' = Append(components, Above(Active))
      /\ onStack' = onStack \ Above(Active)
      /\ stack' = SubSeq(stack, 1, P - 1)
      /\ UNCHANGED <<roots, pending, graph, index>>
  BY DEF Return, Active, Last
<1>2. /\ Active \in onStack
      /\ stack \in Seq(Vertices) /\ Len(stack) \in Nat /\ DOMAIN stack = 1 .. Len(stack)
      /\ onStack = {stack[k] : k \in DOMAIN stack}
      /\ onStack \subseteq Seen
      /\ \A j, k \in DOMAIN stack : j < k => index[stack[j]] < index[stack[k]]
      /\ \A u \in onStack : index[u] \in Nat
  BY ReturnCells DEF IInv, TypeInv, StackInv
<1>3. P \in DOMAIN stack /\ stack[P] = Active
  BY <1>2 DEF Position
<1>4. \A k \in DOMAIN stack : index[Active] <= index[stack[k]] <=> P <= k
  <2> SUFFICES ASSUME NEW k \in DOMAIN stack
               PROVE  index[Active] <= index[stack[k]] <=> P <= k
    OBVIOUS
  <2>1. k < P => index[stack[k]] < index[Active]
    BY <1>2, <1>3
  <2>2. P < k => index[Active] < index[stack[k]]
    BY <1>2, <1>3
  <2>3. index[stack[k]] \in Nat /\ index[Active] \in Nat
    BY <1>2
  <2> HIDE DEF P
  <2> QED
    BY <1>2, <1>3, <2>1, <2>2, <2>3
<1> HIDE DEF P
<1>5. Above(Active) = {x \in onStack : index[Active] <= index[x]}
  <2>1. Above(Active) = {stack[k] : k \in P .. Len(stack)}
    BY DEF Above, P
  <2>2. \A k \in DOMAIN stack : k \in P .. Len(stack) <=> P <= k
    BY <1>2, <1>3
  <2>3. P .. Len(stack) \subseteq DOMAIN stack
    BY <1>2, <1>3
  <2> QED
    BY <1>2, <1>4, <2>1, <2>2, <2>3
<1>6. onStack' = {x \in onStack : index[x] < index[Active]}
  BY <1>1, <1>2, <1>5
<1>7. /\ stack' \in Seq(Vertices)
      /\ DOMAIN stack' = 1 .. (P - 1)
      /\ \A k \in 1 .. (P - 1) : k \in DOMAIN stack /\ stack'[k] = stack[k]
  <2>1. stack' = SubSeq(stack, 1, P - 1)
    BY <1>1 DEF P
  <2> QED
    BY <1>2, <1>3, <2>1
<1>8. onStack' = {stack'[k] : k \in DOMAIN stack'}
  <2>1. ASSUME NEW k \in DOMAIN stack' PROVE stack'[k] \in onStack'
    BY <1>2, <1>3, <1>4, <1>6, <1>7, <2>1
  <2>2. ASSUME NEW x \in onStack' PROVE \E k \in DOMAIN stack' : stack'[k] = x
    <3>1. PICK k \in DOMAIN stack : stack[k] = x
      BY <1>2, <1>6, <2>2
    <3>2. k < P
      BY <1>2, <1>3, <1>4, <1>6, <2>2, <3>1
    <3>3. k \in 1 .. (P - 1)
      BY <1>2, <1>3, <3>2
    <3> QED
      BY <1>7, <3>1, <3>3
  <2> QED
    BY <2>1, <2>2
<1>9. lowlink' = lowlink
  <2> DEFINE p == calls[Len(calls) - 1].vertex
  <2>1. lowlink \in [Seen -> Nat] /\ index \in [Seen -> Nat]
    BY DEF IInv, TypeInv
  <2>2. CASE Len(calls) = 1
    BY <2>2, ReturnLowers
  <2>3. CASE Len(calls) # 1
    <3>1. /\ p \in onStack /\ p \in Seen /\ index[p] < index[Active]
          /\ lowlink' \in [Seen -> Nat]
          /\ \A u \in Seen : u # p => lowlink'[u] = lowlink[u]
          /\ lowlink'[p] = IF lowlink[p] <= lowlink[Active] THEN lowlink[p] ELSE lowlink[Active]
      BY <2>3, ReturnLowers
    <3> HIDE DEF p
    <3>2. lowlink[p] <= index[p] /\ Active \in Seen
      BY <1>2, <3>1 DEF IInv, LowInv
    <3>3. lowlink'[p] = lowlink[p]
      BY <2>1, <3>1, <3>2
    <3> QED
      BY <2>1, <3>1, <3>3
  <2> QED
    BY <2>2, <2>3
<1> QED
  BY <1>1, <1>5, <1>6, <1>7, <1>8, <1>9

(* No edge leads from there back below, so it is a component in full.      *)
LEMMA PoppedIsComponent ==
  ASSUME IInv, Return, lowlink[Active] = index[Active]
  PROVE  /\ \A x \in Above(Active) : graph[x] \subseteq Above(Active) \cup Closed
         /\ \A x \in Above(Active) : ComponentOf(x) = Above(Active)
<1> DEFINE A == Above(Active)
           n == Len(calls)
<1>1. /\ A = {x \in onStack : index[Active] <= index[x]}
      /\ Active \in onStack /\ Active \in Vertices
      /\ A \subseteq Vertices /\ A \cap Closed = {}
      /\ \A x \in Closed : graph[x] \subseteq Closed
      /\ Closed \subseteq Vertices
      /\ \A x \in Seen : index[x] \in Nat
  BY PoppedCells, ReturnCells DEF IInv, TypeInv, StackInv, EdgesInv, Closed
<1>2. ASSUME NEW x \in A PROVE graph[x] \subseteq A \cup Closed
  <2> SUFFICES ASSUME NEW u \in graph[x] PROVE u \in A \cup Closed
    OBVIOUS
  <2>1. Followed(x, u) /\ x \in Seen /\ u \in Vertices
    BY <1>1, ReturnCells DEF IInv, TypeInv, StackInv
  <2>2. u \in Seen
    BY <2>1 DEF IInv, EdgesInv
  <2>3. CASE u \in onStack
    <3>1. InSegment(x, n) /\ n \in DOMAIN calls
      BY <1>1, ReturnCells DEF InSegment, Active
    <3>2. index[Active] <= index[u]
      BY <1>1, <2>1, <2>3, <3>1 DEF IInv, BoundInv, Active
    <3> QED
      BY <1>1, <2>3, <3>2
  <2> QED
    BY <2>2, <2>3 DEF Closed
<1>3. ASSUME NEW x \in A PROVE ComponentOf(x) = A
  <2>1. Reachable(x) \subseteq A \cup Closed
    <3>1. \A u \in A \cup Closed : graph[u] \subseteq A \cup Closed
      BY <1>1, <1>2
    <3>2. A \cup Closed \in SUBSET Vertices /\ x \in A \cup Closed
      BY <1>1
    <3> HIDE DEF A
    <3> QED
      BY <3>1, <3>2, ReachesWithin
  <2>2. \A y \in Closed : Reachable(y) \subseteq Closed
    BY <1>1, ReachesWithin
  <2>3. ComponentOf(x) \subseteq A
    BY <1>1, <2>1, <2>2 DEF ComponentOf
  <2>4. \A y, z \in A : z \in Reachable(y)
    <3> SUFFICES ASSUME NEW y \in A, NEW z \in A PROVE z \in Reachable(y)
      OBVIOUS
    <3>1. Active \in Reachable(y)
      BY <1>1, ReturnCells
    <3>2. z \in Reachable(Active)
      BY <1>1 DEF IInv, ReachInv
    <3> QED
      BY <1>1, <3>1, <3>2, ReachesThrough
  <2> QED
    BY <1>1, <2>3, <2>4 DEF ComponentOf
<1> QED
  BY <1>2, <1>3

LEMMA ReturnPoppedPreserves ==
  ASSUME IInv, Return, lowlink[Active] = index[Active]
  PROVE  IInv'
<1> DEFINE n == Len(calls)
           a == Active
           A == Above(Active)
<1>1. /\ A = {x \in onStack : index[a] <= index[x]}
      /\ onStack' = {x \in onStack : index[x] < index[a]}
      /\ stack' \in Seq(Vertices)
      /\ DOMAIN stack' \subseteq DOMAIN stack
      /\ \A k \in DOMAIN stack' : stack'[k] = stack[k]
      /\ onStack' = {stack'[k] : k \in DOMAIN stack'}
      /\ components' = Append(components, A)
      /\ UNCHANGED <<roots, pending, graph, index, lowlink>>
  BY PoppedCells
<1>2. /\ n \in Nat \ {0} /\ DOMAIN calls = 1 .. n
      /\ calls' \in Seq([vertex : Vertices, edges : SUBSET Vertices])
      /\ DOMAIN calls' = 1 .. (n - 1)
      /\ \A i \in DOMAIN calls' : i \in DOMAIN calls /\ calls'[i] = calls[i]
      /\ a \in onStack /\ a \in Seen /\ a \in Vertices
      /\ \A i \in DOMAIN calls' : index[calls[i].vertex] < index[a]
      /\ \A x, u : Followed(x, u)' => Followed(x, u)
  BY ReturnCells
<1>3. /\ \A x \in A : graph[x] \subseteq A \cup Closed
      /\ \A x \in A : ComponentOf(x) = A
  BY PoppedIsComponent
<1>4. /\ index \in [Seen -> Nat] /\ lowlink \in [Seen -> Nat]
      /\ onStack \subseteq Seen /\ Seen \subseteq Vertices
      /\ \A i \in DOMAIN calls : calls[i].vertex \in onStack
      /\ components \in Seq(SUBSET Vertices)
  BY DEF IInv, TypeInv, StackInv, CallsInv
<1>5. \A v : Reachable(v)' = Reachable(v) /\ ComponentOf(v)' = ComponentOf(v)
  BY <1>1, GraphIsConstant
<1>6. calls[n].vertex = a
  BY DEF Active
<1> HIDE DEF a, n, A
<1>7. /\ Seen' = Seen
      /\ \A u \in Seen : index[u] \in Nat /\ lowlink[u] \in Nat
      /\ A \subseteq Vertices /\ A \cap Closed = {}
      /\ onStack' \subseteq onStack
  BY <1>1, <1>4 DEF Seen, Closed
<1>8. Closed' = Closed \cup A
  BY <1>1, <1>2, <1>4, <1>7 DEF Closed
<1>9. /\ Len(components) \in Nat
      /\ DOMAIN components = 1 .. Len(components)
      /\ DOMAIN components' = 1 .. (Len(components) + 1)
      /\ \A k \in DOMAIN components : components'[k] = components[k]
      /\ components'[Len(components) + 1] = A
  BY <1>1, <1>4
<1>10. TypeInv'
  BY <1>1, <1>2, <1>4, <1>7 DEF IInv, TypeInv
<1>11. IndexInv' /\ StackInv' /\ RootsInv'
  BY <1>1, <1>4, <1>7 DEF IInv, IndexInv, StackInv, RootsInv
<1>12. CallsInv'
  BY <1>1, <1>2, <1>4 DEF IInv, CallsInv
<1>13. EdgesInv'
  BY <1>1, <1>2, <1>3, <1>7, <1>8 DEF IInv, EdgesInv
<1>14. ReachInv'
  <2> SUFFICES ASSUME NEW x \in onStack'
               PROVE  \E i \in DOMAIN calls' :
                        index[calls[i].vertex] <= index[x] /\ calls[i].vertex \in Reachable(x)
    BY <1>1, <1>2, <1>5, <1>7 DEF IInv, ReachInv
  <2>1. PICK i \in DOMAIN calls :
          index[calls[i].vertex] <= index[x] /\ calls[i].vertex \in Reachable(x)
    BY <1>7 DEF IInv, ReachInv
  <2>2. i # n
    BY <1>1, <1>2, <1>4, <1>6, <1>7, <2>1
  <2> QED
    BY <1>2, <2>1, <2>2
<1>15. LowInv'
  <2> SUFFICES ASSUME NEW v \in onStack'
               PROVE  /\ lowlink[v] <= index[v]
                      /\ \E u \in onStack' \cap Reachable(v) : index[u] = lowlink[v]
    BY <1>1, <1>5 DEF LowInv
  <2>1. /\ v \in onStack /\ v \in Seen /\ index[v] < index[a]
        /\ lowlink[v] <= index[v]
    BY <1>1, <1>4 DEF IInv, LowInv
  <2>2. PICK u \in onStack \cap Reachable(v) : index[u] = lowlink[v]
    BY <2>1 DEF IInv, LowInv
  <2>3. u \in onStack'
    BY <1>1, <1>2, <1>4, <1>7, <2>1, <2>2
  <2> QED
    BY <2>1, <2>2, <2>3
<1>16. BoundInv'
  <2> SUFFICES ASSUME NEW i \in DOMAIN calls', NEW x \in onStack', NEW u \in onStack',
                      InSegment(x, i)', Followed(x, u)'
               PROVE  lowlink[calls[i].vertex] <= index[u]
    BY <1>1, <1>2 DEF BoundInv
  <2>1. /\ index[calls[i].vertex] <= index[x]
        /\ \A j \in DOMAIN calls' : i < j => index[x] < index[calls[j].vertex]
    BY <1>1, <1>2 DEF InSegment
  <2>2. index[x] < index[calls[n].vertex]
    BY <1>1, <1>6
  <2>3. InSegment(x, i)
    BY <1>2, <2>1, <2>2 DEF InSegment
  <2> QED
    BY <1>2, <1>7, <2>3 DEF IInv, BoundInv
<1>17. EmittedInv'
  <2> USE DEF IInv, EmittedInv
  <2>1. Closed' = UNION {components'[k] : k \in DOMAIN components'}
    <3>1. {components'[k] : k \in DOMAIN components'}
            = {components[k] : k \in DOMAIN components} \cup {A}
      BY <1>9
    <3> QED
      BY <1>8, <3>1
  <2>2. \A k \in DOMAIN components : components[k] \subseteq Closed
    OBVIOUS
  <2>3. ASSUME NEW j \in DOMAIN components', NEW k \in DOMAIN components', j # k
        PROVE  components'[j] \cap components'[k] = {}
    <3>1. CASE j \in DOMAIN components /\ k \in DOMAIN components
      BY <1>9, <2>3, <3>1
    <3>2. CASE j = Len(components) + 1 /\ k \in DOMAIN components
      BY <1>7, <1>9, <2>2, <3>2
    <3>3. CASE j \in DOMAIN components /\ k = Len(components) + 1
      BY <1>7, <1>9, <2>2, <3>3
    <3> QED
      BY <1>9, <2>3, <3>1, <3>2, <3>3
  <2>4. EmitsComponents'
    <3> SUFFICES ASSUME NEW k \in DOMAIN components', NEW v \in components'[k]
                 PROVE  components'[k] = ComponentOf(v)
      BY <1>5 DEF EmitsComponents
    <3> QED
      BY <1>3, <1>9 DEF EmitsComponents
  <2>5. EmitsSuccessorsFirst'
    <3> SUFFICES ASSUME NEW k \in DOMAIN components', NEW v \in components'[k],
                        NEW w \in graph[v]
                 PROVE  \E j \in 1 .. k : w \in components'[j]
      BY <1>1 DEF EmitsSuccessorsFirst
    <3>1. CASE k \in DOMAIN components
      <4>1. PICK j \in 1 .. k : w \in components[j]
        BY <1>9, <3>1 DEF EmitsSuccessorsFirst
      <4> QED
        BY <1>9, <3>1, <4>1
    <3>2. CASE k = Len(components) + 1
      <4>1. w \in A \cup Closed
        BY <1>3, <1>9, <3>2
      <4>2. CASE w \in A
        BY <1>9, <3>2, <4>2
      <4>3. CASE w \in Closed
        <5>1. PICK j \in DOMAIN components : w \in components[j]
          BY <4>3
        <5> QED
          BY <1>9, <3>2, <5>1
      <4> QED
        BY <4>1, <4>2, <4>3
    <3> QED
      BY <1>9, <3>1, <3>2
  <2> QED
    BY <2>1, <2>3, <2>4, <2>5
<1> QED
  BY <1>10, <1>11, <1>12, <1>13, <1>14, <1>15, <1>16, <1>17 DEF IInv

-----------------------------------------------------------------------------

LEMMA StepPreserves ==
  ASSUME IInv, Next
  PROVE  IInv'
<1>1. ASSUME NEW n \in Vertices, NextRoot(n) PROVE IInv'
  BY <1>1, RootPreserves
<1>2. ASSUME NEW w \in Vertices, Follow(w) PROVE IInv'
  BY <1>2, FollowPreserves
<1>3. CASE Return
  BY <1>3, ReturnOpenPreserves, ReturnPoppedPreserves
<1> QED
  BY <1>1, <1>2, <1>3 DEF Next

LEMMA StutterPreserves ==
  ASSUME IInv, UNCHANGED tarjan
  PROVE  IInv'
<1>1. Seen' = Seen
  BY DEF tarjan, Seen
<1>2. TypeInv' /\ RootsInv'
  BY <1>1 DEF tarjan, IInv, TypeInv, RootsInv
<1> QED
  BY <1>2, NothingElseChanges DEF tarjan

(* The lowlinks of the invariant are those of the property.                *)
LEMMA LowlinksFollow == IInv => LowlinksLeadBack
<1> SUFFICES ASSUME IInv, NEW v \in onStack
             PROVE  /\ \E w \in onStack \cap Reachable(v) : index[w] = lowlink[v]
                    /\ calls # <<>> /\ Last(calls).vertex \in Reachable(v)
  BY DEF LowlinksLeadBack
<1> QED
  BY AllReachActive DEF IInv, LowInv

(* A call that returned to its caller has emitted every vertex seen, and   *)
(* the vertices emitted include the roots and lead nowhere else.           *)
LEMMA ReturnsCompletely ==
  ASSUME IInv, Returned
  PROVE  /\ Seen = UNION {components[k] : k \in DOMAIN components}
         /\ roots \subseteq Seen
         /\ \A v \in Seen : graph[v] \subseteq Seen
<1>1. onStack = {}
  BY EmptyBetweenRoots DEF IInv, Returned
<1> QED
  BY <1>1 DEF IInv, EmittedInv, EdgesInv, RootsInv, Closed, Returned

(* The invariant Tarjan's algorithm keeps, for any graph and any order in  *)
(* which roots and edges are taken.                                        *)
THEOREM KeepsInvariant == Spec => []IInv
<1>1. IInv /\ [Next]_tarjan => IInv'
  BY StepPreserves, StutterPreserves
<1> QED
  BY <1>1, InitEstablishes, PTL DEF Spec

(* What strongconnect appends is a strongly connected component, whole.    *)
THEOREM EmitsStrongComponents == Spec => []EmitsComponents
<1>1. IInv => EmitsComponents
  BY DEF IInv, EmittedInv
<1> QED
  BY <1>1, KeepsInvariant, PTL

(* Components come after those they lead to (doc comment of Components).   *)
THEOREM EmitsInReverseOrder == Spec => []EmitsSuccessorsFirst
<1>1. IInv => EmitsSuccessorsFirst
  BY DEF IInv, EmittedInv
<1> QED
  BY <1>1, KeepsInvariant, PTL

(* A lowlink names an open vertex that is reached, and the stack leads to  *)
(* the active call.                                                        *)
THEOREM LowlinksAreSound == Spec => []LowlinksLeadBack
BY LowlinksFollow, KeepsInvariant, PTL

-----------------------------------------------------------------------------
(* analyzeSCCs, of which each search is a run of the algorithm above.      *)

Graphs == [Vertices -> SUBSET Vertices]

(* Reachability, components and cycles in a graph that need not be the one *)
(* searched.                                                               *)
ClosedUnder(S, g) == \A u \in S : g[u] \subseteq S

ReachIn(v, g) ==
  {w \in Vertices : \A S \in SUBSET Vertices : v \in S /\ ClosedUnder(S, g) => w \in S}

StrongIn(v, g) == {w \in ReachIn(v, g) : v \in ReachIn(w, g)}

Strong(v) == StrongIn(v, Successors)

(* A component is unguarded if a cycle through it never descends.          *)
ClassOf(comp) ==
  IF \E u \in comp : OnCycle(u, plain) THEN "unguarded" ELSE "guarded"

RegistryTypes ==
  /\ plain \in Graphs /\ descent \in Graphs
  /\ phase \in {"outer", "classify", "inner", "done"}
  /\ left \in Seq(SUBSET Vertices)
  /\ sccs \in Seq([nodes : SUBSET Vertices, class : {"guarded", "unguarded"}])

(* What each search is over.                                               *)
SearchInv ==
  /\ phase = "outer" => graph = Successors /\ roots = Vertices /\ sccs = <<>>
  /\ phase = "inner" =>
       /\ left # <<>>
       /\ Recursive(Head(left), Successors)
       /\ roots = Head(left)
       /\ graph = NonDescent(Head(left))
  /\ phase = "done" => left = <<>>

(* What is left to classify: components, no two alike.                     *)
LeftInv ==
  /\ \A k \in DOMAIN left : \A v \in left[k] : left[k] = Strong(v)
  /\ \A j, k \in DOMAIN left : j # k => left[j] \cap left[k] = {}

(* What was classified: recursive components in their class, no two alike  *)
(* and none still left.                                                    *)
SccsInv ==
  /\ \A k \in DOMAIN sccs :
       /\ Recursive(sccs[k].nodes, Successors)
       /\ sccs[k].class = ClassOf(sccs[k].nodes)
       /\ \A v \in sccs[k].nodes : sccs[k].nodes = Strong(v)
  /\ \A j, k \in DOMAIN sccs : j # k => sccs[j].nodes \cap sccs[k].nodes = {}
  /\ \A k \in DOMAIN sccs : \A j \in DOMAIN left : sccs[k].nodes \cap left[j] = {}

(* No vertex of a recursive component is forgotten.                        *)
CoverInv ==
  phase # "outer" => \A v \in Vertices :
    \/ \E k \in DOMAIN left : v \in left[k]
    \/ \E k \in DOMAIN sccs : v \in sccs[k].nodes
    \/ ~ Recursive(Strong(v), Successors)

RInv == IInv /\ RegistryTypes /\ SearchInv /\ LeftInv /\ SccsInv /\ CoverInv

-----------------------------------------------------------------------------
(* Reachability and cycles in any graph.                                   *)

LEMMA InReachesItself == \A g : \A v \in Vertices : v \in ReachIn(v, g)
BY DEF ReachIn

LEMMA InReachesWithin ==
  ASSUME NEW g, NEW S \in SUBSET Vertices, ClosedUnder(S, g), NEW v \in S
  PROVE  ReachIn(v, g) \subseteq S
BY DEF ReachIn

LEMMA InReachesThrough ==
  ASSUME NEW g, NEW v \in Vertices, NEW u \in ReachIn(v, g)
  PROVE  ReachIn(u, g) \subseteq ReachIn(v, g)
BY DEF ReachIn

(* What v reaches is itself a closed set.                                  *)
LEMMA InReachedIsClosed ==
  ASSUME NEW g \in Graphs, NEW v \in Vertices
  PROVE  ClosedUnder(ReachIn(v, g), g)
BY DEF ReachIn, ClosedUnder, Graphs

(* A vertex is in its own component, and its fellows have the same one.    *)
LEMMA StrongIsPartition ==
  ASSUME NEW g, NEW v \in Vertices
  PROVE  /\ v \in StrongIn(v, g) /\ StrongIn(v, g) \subseteq Vertices
         /\ \A w \in StrongIn(v, g) : StrongIn(w, g) = StrongIn(v, g)
<1>1. v \in StrongIn(v, g) /\ StrongIn(v, g) \subseteq Vertices
  BY InReachesItself DEF StrongIn, ReachIn
<1>2. ASSUME NEW w \in StrongIn(v, g) PROVE StrongIn(w, g) = StrongIn(v, g)
  <2>1. w \in Vertices /\ w \in ReachIn(v, g) /\ v \in ReachIn(w, g)
    BY DEF StrongIn, ReachIn
  <2>2. ReachIn(w, g) = ReachIn(v, g)
    BY <2>1, InReachesThrough
  <2>3. ASSUME NEW u \in Vertices PROVE w \in ReachIn(u, g) <=> v \in ReachIn(u, g)
    BY <2>1, InReachesThrough
  <2> QED
    BY <2>2, <2>3 DEF StrongIn, ReachIn
<1> QED
  BY <1>1, <1>2

(* scc.Recursive says of a component whether its vertices lie on a cycle.  *)
LEMMA RecursiveMeansCycle ==
  ASSUME NEW g \in Graphs, NEW v \in Vertices
  PROVE  Recursive(StrongIn(v, g), g) <=> OnCycle(v, g)
<1> DEFINE C == StrongIn(v, g)
<1>1. v \in C /\ C \subseteq Vertices /\ IsFiniteSet(C)
  BY StrongIsPartition, VerticesAssumption, FS_Subset
<1>2. ASSUME OnCycle(v, g) PROVE Recursive(C, g)
  <2>1. CASE C = {v}
    <3> DEFINE S == UNION {ReachIn(u, g) : u \in g[v]}
    <3>1. g[v] \subseteq Vertices
      BY DEF Graphs
    <3>2. g[v] \subseteq S
      BY <3>1, InReachesItself
    <3>3. S \in SUBSET Vertices /\ \A u \in S : g[u] \subseteq S
      <4>1. \A u \in g[v] : ReachIn(u, g) \subseteq Vertices
        BY DEF ReachIn
      <4>2. \A u \in g[v] : \A x \in ReachIn(u, g) : g[x] \subseteq ReachIn(u, g)
        BY <3>1, InReachedIsClosed DEF ClosedUnder
      <4> QED
        BY <4>1, <4>2
    <3>4. PICK u \in g[v] : v \in ReachIn(u, g)
      <4>1. v \in S
        BY <1>2, <3>2, <3>3 DEF OnCycle
      <4> QED
        BY <4>1
    <3>5. u \in ReachIn(v, g)
      BY <3>1, InReachesItself, InReachedIsClosed DEF ClosedUnder
    <3>6. u \in C
      BY <3>4, <3>5 DEF StrongIn
    <3> QED
      BY <2>1, <3>4, <3>6 DEF Recursive
  <2>2. CASE C # {v}
    <3>1. PICK u \in C : u # v
      BY <1>1, <2>2
    <3>2. Cardinality({v, u}) = 2
      <4>1. IsFiniteSet({v}) /\ Cardinality({v}) = 1
        BY FS_Singleton
      <4>2. Cardinality({v} \cup {u}) = 2
        BY <3>1, <4>1, FS_AddElement
      <4>3. {v} \cup {u} = {v, u}
        OBVIOUS
      <4> QED
        BY <4>2, <4>3
    <3>3. Cardinality({v, u}) <= Cardinality(C)
      BY <1>1, <3>1, FS_Subset
    <3>4. Cardinality(C) \in Nat
      BY <1>1, FS_CardinalityType
    <3> QED
      BY <3>2, <3>3, <3>4 DEF Recursive
  <2> QED
    BY <2>1, <2>2
<1>3. ASSUME Recursive(C, g) PROVE OnCycle(v, g)
  <2> SUFFICES ASSUME NEW S \in SUBSET Vertices, g[v] \subseteq S,
                      \A u \in S : g[u] \subseteq S
               PROVE  v \in S
    BY DEF OnCycle
  <2>1. CASE C = {v}
    <3>1. ~ Cardinality(C) > 1
      <4>1. Cardinality({v}) = 1
        BY FS_Singleton
      <4> QED
        BY <2>1, <4>1
    <3>2. v \in g[v]
      BY <1>3, <2>1, <3>1 DEF Recursive
    <3> QED
      BY <3>2
  <2>2. CASE C # {v}
    <3>1. PICK u \in C : u # v
      BY <1>1, <2>2
    <3>2. u \in ReachIn(v, g) /\ v \in ReachIn(u, g)
      BY DEF StrongIn
    <3>3. ClosedUnder(S \cup {v}, g) /\ S \cup {v} \in SUBSET Vertices
      BY DEF ClosedUnder
    <3>4. u \in S
      BY <3>1, <3>2, <3>3 DEF ReachIn
    <3> QED
      BY <3>2, <3>4 DEF ReachIn, ClosedUnder
  <2> QED
    BY <2>1, <2>2
<1> QED
  BY <1>2, <1>3

(* A cycle that never descends stays in the component it starts in, so     *)
(* nothing is lost by searching that component alone.                      *)
LEMMA CyclesStayInside ==
  ASSUME plain \in Graphs, descent \in Graphs, NEW u \in Vertices
  PROVE  OnCycle(u, plain) <=> OnCycle(u, NonDescent(Strong(u)))
<1> DEFINE C == Strong(u)
           nd == NonDescent(C)
<1>1. /\ Successors \in Graphs /\ nd \in Graphs
      /\ \A v \in Vertices : nd[v] \subseteq plain[v] /\ plain[v] \subseteq Successors[v]
  BY DEF Successors, NonDescent, Graphs
<1>2. ASSUME OnCycle(u, nd) PROVE OnCycle(u, plain)
  <2> SUFFICES ASSUME NEW S \in SUBSET Vertices, plain[u] \subseteq S,
                      \A v \in S : plain[v] \subseteq S
               PROVE  u \in S
    BY DEF OnCycle
  <2>1. nd[u] \subseteq S /\ \A v \in S : nd[v] \subseteq S
    BY <1>1
  <2> QED
    BY <1>2, <2>1 DEF OnCycle
<1>3. ASSUME OnCycle(u, plain) PROVE OnCycle(u, nd)
  <2> SUFFICES ASSUME NEW S \in SUBSET Vertices, nd[u] \subseteq S,
                      \A v \in S : nd[v] \subseteq S
               PROVE  u \in S
    BY DEF OnCycle
  <2> DEFINE away == {v \in Vertices : u \notin ReachIn(v, Successors)}
             T == (S \cap C) \cup away
  <2>1. u \in C /\ C \subseteq Vertices
    BY StrongIsPartition DEF Strong
  <2>2. ASSUME NEW x \in C, NEW y \in plain[x] PROVE y \in away \/ (y \in C /\ y \in nd[x])
    <3>1. x \in Vertices /\ y \in Vertices
      BY <2>1 DEF Graphs
    <3>2. x \in ReachIn(u, Successors)
      BY DEF Strong, StrongIn
    <3>3. y \in ReachIn(u, Successors)
      BY <1>1, <3>1, <3>2, InReachedIsClosed DEF ClosedUnder
    <3>4. CASE u \in ReachIn(y, Successors)
      <4>1. y \in C
        BY <3>3, <3>4 DEF Strong, StrongIn
      <4> QED
        BY <3>1, <4>1 DEF NonDescent
    <3> QED
      BY <3>1, <3>4
  <2>3. ASSUME NEW x \in away, NEW y \in plain[x] PROVE y \in away
    <3>1. x \in Vertices /\ y \in Vertices
      BY DEF Graphs
    <3>2. y \in ReachIn(x, Successors)
      BY <1>1, <3>1, InReachesItself, InReachedIsClosed DEF ClosedUnder
    <3> QED
      BY <3>1, <3>2, InReachesThrough
  <2>4. plain[u] \subseteq T
    BY <2>1, <2>2
  <2>5. \A x \in T : plain[x] \subseteq T
    BY <2>2, <2>3
  <2>6. T \in SUBSET Vertices
    OBVIOUS
  <2>7. u \in T
    BY <1>3, <2>4, <2>5, <2>6 DEF OnCycle
  <2> QED
    BY <2>7, InReachesItself
<1> QED
  BY <1>2, <1>3

(* Only vertices of the component lie on a cycle within it.                *)
LEMMA InnerCyclesAreInside ==
  ASSUME plain \in Graphs, NEW C \in SUBSET Vertices, NEW u \in Vertices,
         OnCycle(u, NonDescent(C))
  PROVE  u \in C
<1>1. NonDescent(C)[u] # {}
  BY DEF OnCycle
<1> QED
  BY <1>1 DEF NonDescent

(* The searched graph's components are those of the same graph by name.    *)
LEMMA SearchedGraph ==
  ASSUME NEW g, graph = g
  PROVE  \A v : ComponentOf(v) = StrongIn(v, g)
BY DEF ComponentOf, StrongIn, Reachable, ReachIn, ClosedUnder

-----------------------------------------------------------------------------
(* A call of Components starts the search over.                            *)

Fresh ==
  /\ roots \in SUBSET Vertices /\ graph \in Graphs /\ pending = roots
  /\ index = <<>> /\ lowlink = <<>> /\ onStack = {}
  /\ stack = <<>> /\ calls = <<>> /\ components = <<>>

LEMMA FreshEstablishes == Fresh => IInv
BY InitEstablishes DEF Fresh, Init, Graphs

LEMMA CallEstablishes ==
  ASSUME NEW R \in SUBSET Vertices, NEW g \in Graphs, Components(R, g)
  PROVE  IInv'
<1>1. (Fresh => IInv)'
  BY FreshEstablishes, PTL
<1> QED
  BY <1>1 DEF Fresh, Components

(* As long as the registry stays, so do its components and their classes.  *)
LEMMA RegistryIsConstant ==
  ASSUME UNCHANGED <<plain, descent>>
  PROVE  /\ Successors' = Successors
         /\ \A v : Strong(v)' = Strong(v)
         /\ \A C : /\ Recursive(C, Successors)' <=> Recursive(C, Successors)
                   /\ ClassOf(C)' = ClassOf(C)
                   /\ NonDescent(C)' = NonDescent(C)
BY DEF Successors, Strong, StrongIn, ReachIn, ClosedUnder, Recursive, ClassOf, OnCycle,
       NonDescent

LEMMA RegistryInitEstablishes == RegistryInit => RInv
<1> SUFFICES ASSUME RegistryInit PROVE RInv
  OBVIOUS
<1> USE DEF RegistryInit
<1>1. IInv
  BY FreshEstablishes DEF Fresh, Graphs
<1>2. RegistryTypes /\ SearchInv
  BY DEF RegistryTypes, SearchInv, Graphs, Successors
<1>3. LeftInv /\ SccsInv /\ CoverInv
  BY DEF LeftInv, SccsInv, CoverInv
<1> QED
  BY <1>1, <1>2, <1>3 DEF RInv

LEMMA SearchPreserves ==
  ASSUME RInv, Search
  PROVE  RInv'
<1>1. IInv'
  BY StepPreserves DEF RInv, Search
<1>2. UNCHANGED <<plain, descent, phase, left, sccs, roots, graph>>
  BY DEF Search, Next, NextRoot, Follow, Return, Enter
<1>3. RegistryTypes' /\ SearchInv' /\ LeftInv' /\ SccsInv' /\ CoverInv'
  BY <1>2, RegistryIsConstant
     DEF RInv, RegistryTypes, SearchInv, LeftInv, SccsInv, CoverInv
<1> QED
  BY <1>1, <1>3 DEF RInv

(* The outer search leaves every component to be classified.               *)
LEMMA OuterReturnsPreserves ==
  ASSUME RInv, OuterReturns
  PROVE  RInv'
<1>1. /\ phase = "outer" /\ Returned /\ left' = components /\ phase' = "classify"
      /\ UNCHANGED <<tarjan, plain, descent, sccs>>
  BY DEF OuterReturns
<1>2. IInv'
  BY <1>1, StutterPreserves DEF RInv
<1>3. graph = Successors /\ roots = Vertices /\ sccs = <<>>
  BY <1>1 DEF RInv, SearchInv
<1>4. \A v : Strong(v) = ComponentOf(v)
  BY <1>3, SearchedGraph DEF Strong
<1>5. /\ \A v \in Vertices : \E k \in DOMAIN components : v \in components[k]
      /\ components \in Seq(SUBSET Vertices)
      /\ EmitsComponents
      /\ \A j, k \in DOMAIN components : j # k => components[j] \cap components[k] = {}
  BY <1>1, <1>3, ReturnsCompletely DEF RInv, IInv, TypeInv, EmittedInv
<1>6. RegistryTypes' /\ SearchInv'
  BY <1>1, <1>3, <1>5 DEF RInv, RegistryTypes, SearchInv
<1>7. LeftInv'
  BY <1>1, <1>4, <1>5, RegistryIsConstant DEF LeftInv, EmitsComponents
<1>8. SccsInv'
  BY <1>1, <1>3 DEF SccsInv
<1>9. CoverInv'
  BY <1>1, <1>5 DEF CoverInv
<1> QED
  BY <1>2, <1>6, <1>7, <1>8, <1>9 DEF RInv

(* What is on the list, without its head.                                  *)
LEMMA TailCells ==
  ASSUME RInv, left # <<>>
  PROVE  /\ Len(left) \in Nat \ {0} /\ DOMAIN left = 1 .. Len(left)
         /\ Head(left) = left[1] /\ Head(left) \in SUBSET Vertices
         /\ Tail(left) \in Seq(SUBSET Vertices)
         /\ DOMAIN Tail(left) = 1 .. (Len(left) - 1)
         /\ \A k \in DOMAIN Tail(left) : k + 1 \in DOMAIN left /\ Tail(left)[k] = left[k + 1]
         /\ \A k \in DOMAIN left : k = 1 \/ k - 1 \in DOMAIN Tail(left)
BY DEF RInv, RegistryTypes

(* Taking the head off leaves what is said of the rest.                    *)
LEMMA TailKeeps ==
  ASSUME RInv, left # <<>>, left' = Tail(left), UNCHANGED <<plain, descent>>
  PROVE  /\ LeftInv'
         /\ \A k \in DOMAIN left' : Head(left) \cap left'[k] = {}
         /\ \A k \in DOMAIN left' : \E j \in DOMAIN left : left'[k] = left[j]
         /\ \A v : (\E k \in DOMAIN left : v \in left[k]) =>
              v \in Head(left) \/ \E k \in DOMAIN left' : v \in left'[k]
<1>1. /\ Len(left) \in Nat \ {0} /\ DOMAIN left = 1 .. Len(left) /\ Head(left) = left[1]
      /\ DOMAIN left' = 1 .. (Len(left) - 1)
      /\ \A k \in DOMAIN left' : k + 1 \in DOMAIN left /\ left'[k] = left[k + 1]
      /\ \A k \in DOMAIN left : k = 1 \/ k - 1 \in DOMAIN left'
  BY TailCells
<1>2. LeftInv'
  <2>1. \A k \in DOMAIN left' : \A v \in left'[k] : left'[k] = Strong(v)
    BY <1>1 DEF RInv, LeftInv
  <2>2. ASSUME NEW j \in DOMAIN left', NEW k \in DOMAIN left', j # k
        PROVE  left'[j] \cap left'[k] = {}
    BY <1>1, <2>2 DEF RInv, LeftInv
  <2> QED
    BY <2>1, <2>2, RegistryIsConstant DEF LeftInv
<1>3. ASSUME NEW k \in DOMAIN left' PROVE Head(left) \cap left'[k] = {}
  BY <1>1 DEF RInv, LeftInv
<1>4. ASSUME NEW v, NEW k \in DOMAIN left, v \in left[k]
      PROVE  v \in Head(left) \/ \E j \in DOMAIN left' : v \in left'[j]
  <2>1. CASE k = 1
    BY <1>1, <1>4, <2>1
  <2>2. CASE k # 1
    <3>1. k - 1 \in DOMAIN left' /\ left'[k - 1] = left[k]
      BY <1>1, <2>2
    <3> QED
      BY <1>4, <3>1
  <2> QED
    BY <2>1, <2>2
<1> QED
  BY <1>1, <1>2, <1>3, <1>4

LEMMA SkipPreserves ==
  ASSUME RInv, Skip
  PROVE  RInv'
<1>1. /\ phase = "classify" /\ left # <<>> /\ ~ Recursive(Head(left), Successors)
      /\ left' = Tail(left) /\ UNCHANGED <<tarjan, plain, descent, phase, sccs>>
  BY DEF Skip
<1>2. /\ LeftInv'
      /\ \A k \in DOMAIN left' : \E j \in DOMAIN left : left'[k] = left[j]
      /\ \A v : (\E k \in DOMAIN left : v \in left[k]) =>
           v \in Head(left) \/ \E k \in DOMAIN left' : v \in left'[k]
  BY <1>1, TailKeeps
<1>3. IInv'
  BY <1>1, StutterPreserves DEF RInv
<1>4. RegistryTypes' /\ SearchInv'
  BY <1>1, TailCells DEF RInv, RegistryTypes, SearchInv
<1>5. SccsInv'
  <2>1. \A k \in DOMAIN sccs : \A j \in DOMAIN left' : sccs[k].nodes \cap left'[j] = {}
    BY <1>2 DEF RInv, SccsInv
  <2> QED
    BY <1>1, <2>1, RegistryIsConstant DEF RInv, SccsInv
<1>6. CoverInv'
  <2>1. \A v \in Head(left) : Strong(v) = Head(left)
    BY <1>1, TailCells DEF RInv, LeftInv
  <2>2. ASSUME NEW v \in Vertices
        PROVE  \/ \E k \in DOMAIN left' : v \in left'[k]
               \/ \E k \in DOMAIN sccs : v \in sccs[k].nodes
               \/ ~ Recursive(Strong(v), Successors)
    BY <1>1, <1>2, <2>1 DEF RInv, CoverInv
  <2> QED
    BY <1>1, <2>2, RegistryIsConstant DEF CoverInv
<1> QED
  BY <1>2, <1>3, <1>4, <1>5, <1>6 DEF RInv

LEMMA ClassifyPreserves ==
  ASSUME RInv, Classify
  PROVE  RInv'
<1>1. /\ phase = "classify" /\ left # <<>> /\ Recursive(Head(left), Successors)
      /\ Components(Head(left), NonDescent(Head(left)))
      /\ phase' = "inner" /\ UNCHANGED <<plain, descent, left, sccs>>
  BY DEF Classify
<1>2. Head(left) \in SUBSET Vertices /\ NonDescent(Head(left)) \in Graphs
  BY <1>1, TailCells DEF NonDescent, Graphs, RInv, RegistryTypes
<1>3. IInv'
  BY <1>1, <1>2, CallEstablishes
<1>4. RegistryTypes'
  BY <1>1 DEF RInv, RegistryTypes
<1>5. SearchInv'
  BY <1>1, RegistryIsConstant DEF SearchInv, Components
<1>6. LeftInv' /\ SccsInv' /\ CoverInv'
  BY <1>1, RegistryIsConstant DEF RInv, LeftInv, SccsInv, CoverInv
<1> QED
  BY <1>3, <1>4, <1>5, <1>6 DEF RInv

(* The inner search finds a recursive component exactly when a cycle of    *)
(* the outer one never descends.                                           *)
LEMMA InnerSearchDecides ==
  ASSUME RInv, phase = "inner", Returned
  PROVE  (\E k \in DOMAIN components : Recursive(components[k], graph))
           <=> \E u \in Head(left) : OnCycle(u, plain)
<1> DEFINE C == Head(left)
<1>1. /\ left # <<>> /\ roots = C /\ graph = NonDescent(C) /\ C \in SUBSET Vertices
      /\ plain \in Graphs /\ descent \in Graphs /\ graph \in Graphs
      /\ \A v \in C : C = Strong(v)
  <2>1. left # <<>> /\ roots = C /\ graph = NonDescent(C)
    BY DEF RInv, SearchInv
  <2> QED
    BY <2>1, TailCells DEF RInv, LeftInv, RegistryTypes, IInv, TypeInv, Graphs
<1> HIDE DEF C
<1>2. /\ \A k \in DOMAIN components : \A v \in components[k] : components[k] = StrongIn(v, graph)
      /\ \A v \in C : \E k \in DOMAIN components : v \in components[k]
      /\ \A k \in DOMAIN components : components[k] \subseteq Vertices
  <2>1. \A k \in DOMAIN components : \A v \in components[k] : components[k] = StrongIn(v, graph)
    BY SearchedGraph DEF RInv, IInv, EmittedInv, EmitsComponents
  <2> QED
    BY <1>1, <2>1, ReturnsCompletely DEF RInv, IInv, TypeInv
<1>3. ASSUME NEW k \in DOMAIN components, Recursive(components[k], graph)
      PROVE  \E u \in C : OnCycle(u, plain)
  <2>1. PICK u \in components[k] : TRUE
    <3>1. components[k] # {}
      <4>1. Cardinality({}) = 0
        BY FS_EmptySet
      <4> QED
        BY <1>3, <4>1 DEF Recursive
    <3> QED
      BY <3>1
  <2>2. u \in Vertices /\ OnCycle(u, graph)
    BY <1>1, <1>2, <1>3, <2>1, RecursiveMeansCycle
  <2>3. u \in C
    BY <1>1, <2>2, InnerCyclesAreInside
  <2> QED
    BY <1>1, <2>2, <2>3, CyclesStayInside
<1>4. ASSUME NEW u \in C, OnCycle(u, plain)
      PROVE  \E k \in DOMAIN components : Recursive(components[k], graph)
  <2>1. u \in Vertices /\ OnCycle(u, graph)
    BY <1>1, <1>4, CyclesStayInside
  <2>2. PICK k \in DOMAIN components : u \in components[k]
    BY <1>2
  <2> QED
    BY <1>1, <1>2, <2>1, <2>2, RecursiveMeansCycle
<1> QED
  BY <1>3, <1>4 DEF C

LEMMA InnerReturnsPreserves ==
  ASSUME RInv, InnerReturns
  PROVE  RInv'
<1> DEFINE C == Head(left)
           entry == [nodes |-> C, class |-> ClassOf(C)]
           m == Len(sccs)
<1>1. /\ phase = "inner" /\ Returned /\ left' = Tail(left) /\ phase' = "classify"
      /\ UNCHANGED <<tarjan, plain, descent>>
  BY DEF InnerReturns
<1>2. left # <<>> /\ Recursive(C, Successors)
  BY <1>1 DEF RInv, SearchInv
<1>3. sccs' = Append(sccs, entry)
  BY <1>1, InnerSearchDecides DEF InnerReturns, ClassOf
<1>4. /\ C \in SUBSET Vertices /\ C = left[1] /\ 1 \in DOMAIN left
      /\ \A v \in C : C = Strong(v)
      /\ left' \in Seq(SUBSET Vertices)
  BY <1>1, <1>2, TailCells DEF RInv, LeftInv
<1>5. /\ LeftInv'
      /\ \A k \in DOMAIN left' : C \cap left'[k] = {}
      /\ \A k \in DOMAIN left' : \E j \in DOMAIN left : left'[k] = left[j]
      /\ \A v : (\E k \in DOMAIN left : v \in left[k]) =>
           v \in C \/ \E k \in DOMAIN left' : v \in left'[k]
  BY <1>1, <1>2, TailKeeps
<1>6. entry \in [nodes : SUBSET Vertices, class : {"guarded", "unguarded"}]
  BY <1>4 DEF ClassOf
<1> HIDE DEF C
<1>7. /\ entry.nodes = C /\ entry.class = ClassOf(C)
      /\ m \in Nat /\ DOMAIN sccs = 1 .. m /\ DOMAIN sccs' = 1 .. (m + 1)
      /\ \A k \in DOMAIN sccs : sccs'[k] = sccs[k]
      /\ sccs'[m + 1] = entry
      /\ sccs' \in Seq([nodes : SUBSET Vertices, class : {"guarded", "unguarded"}])
  <2> DEFINE E == [nodes : SUBSET Vertices, class : {"guarded", "unguarded"}]
  <2>1. sccs \in Seq(E) /\ entry \in E
    BY <1>6 DEF RInv, RegistryTypes
  <2>2. entry.nodes = C /\ entry.class = ClassOf(C)
    OBVIOUS
  <2> HIDE DEF E, entry
  <2>3. /\ m \in Nat /\ DOMAIN sccs = 1 .. m /\ DOMAIN sccs' = 1 .. (m + 1)
        /\ \A k \in DOMAIN sccs : sccs'[k] = sccs[k]
        /\ sccs'[m + 1] = entry
        /\ sccs' \in Seq(E)
    BY <1>3, <2>1
  <2> QED
    BY <2>2, <2>3 DEF E
<1> HIDE DEF entry, m
<1>8. IInv'
  BY <1>1, StutterPreserves DEF RInv
<1>9. RegistryTypes' /\ SearchInv'
  BY <1>1, <1>4, <1>7 DEF RInv, RegistryTypes, SearchInv
<1>10. SccsInv'
  <2>1. ASSUME NEW k \in DOMAIN sccs'
        PROVE  /\ Recursive(sccs'[k].nodes, Successors)
               /\ sccs'[k].class = ClassOf(sccs'[k].nodes)
               /\ \A v \in sccs'[k].nodes : sccs'[k].nodes = Strong(v)
               /\ \A j \in DOMAIN left' : sccs'[k].nodes \cap left'[j] = {}
    <3>1. CASE k \in DOMAIN sccs
      BY <1>5, <1>7, <3>1 DEF RInv, SccsInv
    <3>2. CASE k = m + 1
      BY <1>2, <1>4, <1>5, <1>7, <3>2
    <3> QED
      BY <1>7, <3>1, <3>2
  <2>2. ASSUME NEW j \in DOMAIN sccs', NEW k \in DOMAIN sccs', j # k
        PROVE  sccs'[j].nodes \cap sccs'[k].nodes = {}
    <3>1. CASE j \in DOMAIN sccs /\ k \in DOMAIN sccs
      BY <1>7, <2>2, <3>1 DEF RInv, SccsInv
    <3>2. CASE j \in DOMAIN sccs /\ k = m + 1
      BY <1>4, <1>7, <3>2 DEF RInv, SccsInv
    <3>3. CASE j = m + 1 /\ k \in DOMAIN sccs
      BY <1>4, <1>7, <3>3 DEF RInv, SccsInv
    <3> QED
      BY <1>7, <2>2, <3>1, <3>2, <3>3
  <2> QED
    BY <1>1, <2>1, <2>2, RegistryIsConstant DEF SccsInv
<1>11. CoverInv'
  <2>1. ASSUME NEW v \in Vertices
        PROVE  \/ \E k \in DOMAIN left' : v \in left'[k]
               \/ \E k \in DOMAIN sccs' : v \in sccs'[k].nodes
               \/ ~ Recursive(Strong(v), Successors)
    <3>1. CASE v \in C
      BY <1>7, <3>1
    <3>2. CASE \E k \in DOMAIN sccs : v \in sccs[k].nodes
      BY <1>7, <3>2
    <3> QED
      BY <1>1, <1>5, <3>1, <3>2 DEF RInv, CoverInv
  <2> QED
    BY <1>1, <2>1, RegistryIsConstant DEF CoverInv
<1> QED
  BY <1>5, <1>8, <1>9, <1>10, <1>11 DEF RInv

LEMMA FinishPreserves ==
  ASSUME RInv, Finish
  PROVE  RInv'
<1>1. /\ phase = "classify" /\ left = <<>> /\ phase' = "done"
      /\ UNCHANGED <<tarjan, plain, descent, left, sccs>>
  BY DEF Finish
<1>2. IInv'
  BY <1>1, StutterPreserves DEF RInv
<1>3. RegistryTypes' /\ SearchInv' /\ LeftInv' /\ SccsInv' /\ CoverInv'
  BY <1>1, RegistryIsConstant
     DEF RInv, RegistryTypes, SearchInv, LeftInv, SccsInv, CoverInv
<1> QED
  BY <1>2, <1>3 DEF RInv

LEMMA RegistryStutterPreserves ==
  ASSUME RInv, UNCHANGED vars
  PROVE  RInv'
<1>1. UNCHANGED <<tarjan, plain, descent, phase, left, sccs>>
  BY DEF vars
<1>2. IInv' /\ UNCHANGED <<roots, graph>>
  BY <1>1, StutterPreserves DEF RInv, tarjan
<1>3. RegistryTypes' /\ SearchInv' /\ LeftInv' /\ SccsInv' /\ CoverInv'
  BY <1>1, <1>2, RegistryIsConstant
     DEF RInv, RegistryTypes, SearchInv, LeftInv, SccsInv, CoverInv
<1> QED
  BY <1>2, <1>3 DEF RInv

(* The invariant of analyzeSCCs: both searches keep Tarjan's, and what is  *)
(* classified and left to classify covers every recursive vertex once.     *)
THEOREM RegistryKeepsInvariant == RegistrySpec => []RInv
<1>1. RInv /\ [RegistryNext]_vars => RInv'
  BY SearchPreserves, OuterReturnsPreserves, SkipPreserves, ClassifyPreserves,
     InnerReturnsPreserves, FinishPreserves, RegistryStutterPreserves DEF RegistryNext
<1> QED
  BY <1>1, RegistryInitEstablishes, PTL DEF RegistrySpec

(* The outer search and each inner one emit whole components, in reverse   *)
(* topological order, and keep their lowlinks sound.                       *)
THEOREM SearchesAreSound ==
  RegistrySpec => [](EmitsComponents /\ EmitsSuccessorsFirst /\ LowlinksLeadBack)
<1>1. RInv => EmitsComponents /\ EmitsSuccessorsFirst /\ LowlinksLeadBack
  BY LowlinksFollow DEF RInv, IInv, EmittedInv
<1> QED
  BY <1>1, RegistryKeepsInvariant, PTL

-----------------------------------------------------------------------------

LEMMA MaxOfOne == \A k \in Nat : Max({k}) = k
BY DEF Max

(* The meaning of a class, said with the component of v.                   *)
LEMMA MeaningByComponent ==
  ASSUME plain \in Graphs, descent \in Graphs, NEW v \in Vertices
  PROVE  MeaningOf(v) = IF Recursive(Strong(v), Successors) THEN ClassOf(Strong(v))
                        ELSE "not-recursive"
<1> DEFINE Mutual(u) ==
      \A S \in SUBSET Vertices :
        /\ v \in S /\ (\A x \in S : Successors[x] \subseteq S) => u \in S
        /\ u \in S /\ (\A x \in S : Successors[x] \subseteq S) => v \in S
<1>1. Successors \in Graphs
  BY DEF Successors, Graphs
<1>2. OnCycle(v, Successors) <=> Recursive(Strong(v), Successors)
  BY <1>1, RecursiveMeansCycle DEF Strong
<1>3. \A u \in Vertices : Mutual(u) <=> u \in Strong(v)
  BY DEF Strong, StrongIn, ReachIn, ClosedUnder
<1>4. Strong(v) \subseteq Vertices
  BY StrongIsPartition DEF Strong
<1>5. MeaningOf(v) = IF ~ OnCycle(v, Successors) THEN "not-recursive"
                     ELSE IF \E u \in Vertices : OnCycle(u, plain) /\ Mutual(u)
                          THEN "unguarded" ELSE "guarded"
  BY DEF MeaningOf
<1> HIDE DEF Mutual
<1>6. (\E u \in Vertices : OnCycle(u, plain) /\ Mutual(u))
        <=> \E u \in Strong(v) : OnCycle(u, plain)
  BY <1>3, <1>4
<1> QED
  BY <1>2, <1>5, <1>6 DEF ClassOf

LEMMA InvariantClassifies == RInv => ClassesAreRight
<1> SUFFICES ASSUME RInv, phase = "done", NEW v \in Vertices
             PROVE  ClassifyRecursion(v) = MeaningOf(v)
  BY DEF ClassesAreRight
<1> DEFINE containing == {k \in DOMAIN sccs : v \in sccs[k].nodes}
<1>1. MeaningOf(v) = IF Recursive(Strong(v), Successors) THEN ClassOf(Strong(v))
                     ELSE "not-recursive"
  BY MeaningByComponent DEF RInv, RegistryTypes
<1>2. ClassifyRecursion(v) = IF containing = {} THEN "not-recursive"
                             ELSE sccs[Max(containing)].class
  BY DEF ClassifyRecursion
<1>3. CASE containing = {}
  <2>1. ~ Recursive(Strong(v), Successors)
    BY <1>3 DEF RInv, CoverInv, SearchInv
  <2> QED
    BY <1>1, <1>2, <1>3, <2>1
<1>4. CASE containing # {}
  <2>1. PICK k \in DOMAIN sccs : v \in sccs[k].nodes
    BY <1>4
  <2>2. containing = {k}
    BY <2>1 DEF RInv, SccsInv
  <2>3. Max(containing) = k
    BY <2>2, MaxOfOne DEF RInv, RegistryTypes
  <2>4. /\ Recursive(sccs[k].nodes, Successors)
        /\ sccs[k].class = ClassOf(sccs[k].nodes)
        /\ sccs[k].nodes = Strong(v)
    BY <2>1 DEF RInv, SccsInv
  <2> QED
    BY <1>1, <1>2, <1>4, <2>3, <2>4
<1> QED
  BY <1>3, <1>4

(* Every node gets the class its cycles call for, whatever the registry:   *)
(* none when it lies on no cycle, unguarded exactly when some cycle of its *)
(* component never descends into the instance.                             *)
THEOREM ClassifiesByCycles == RegistrySpec => []ClassesAreRight
BY RegistryKeepsInvariant, InvariantClassifies, PTL

=============================================================================

--------------------------- MODULE RefLoaderProofs ---------------------------
(***************************************************************************)
(* For all documents, however they refer to one another and in whatever    *)
(* order they load: each is fetched at most once, no ref is reported       *)
(* without a reason, and the refs that end up resolved are those whose     *)
(* target some needed document holds.                                      *)
(***************************************************************************)
EXTENDS RefLoader, SequenceTheorems, WellFoundedInduction, TLAPS

-----------------------------------------------------------------------------
(* Numbers and sequences.                                                  *)

(* A set of numbers below a bound has a greatest one.                      *)
LEMMA MaxIsMember ==
  ASSUME NEW k \in Nat, NEW S \in SUBSET (1 .. k), S # {}
  PROVE  Max(S) \in S
<1> DEFINE T == {k - j : j \in S}
           R == OpToRel(<, Nat)
<1>1. T \subseteq Nat /\ T # {}
  <2>1. ASSUME NEW j \in S PROVE k - j \in Nat
    <3>1. j \in 1 .. k
      OBVIOUS
    <3> QED
      BY <3>1
  <2> QED
    BY <2>1
<1>2. PICK t \in T : \A u \in T : ~ (<<u, t>> \in R)
  <2> HIDE DEF T, R
  <2> QED
    BY <1>1, NatLessThanWellFounded, WFMin DEF R
<1>3. \A u \in T : ~ (u < t)
  BY <1>1, <1>2 DEF OpToRel
<1>4. PICK j \in S : t = k - j
  OBVIOUS
<1>5. \A i \in S : j >= i
  <2> SUFFICES ASSUME NEW i \in S PROVE j >= i
    OBVIOUS
  <2>1. ~ (k - i < k - j)
    BY <1>3, <1>4
  <2> QED
    BY <2>1
<1> QED
  BY <1>5 DEF Max

(* What follows a prefix is what was appended to it.                       *)
LEMMA AppendedIsCut ==
  ASSUME NEW S, NEW s \in Seq(S), NEW t \in Seq(S), NEW u \in Seq(S), t = s \o u
  PROVE  IsPrefix(s, t) /\ u = SubSeq(t, Len(s) + 1, Len(t))
<1>1. Len(t) = Len(s) + Len(u)
  OBVIOUS
<1>2. \A i \in 1 .. Len(s) : SubSeq(t, 1, Len(s))[i] = SubSeq(s, 1, Len(s))[i]
  BY <1>1
<1>3. SubSeq(s, 1, Len(s)) = SubSeq(t, 1, Len(s))
  BY <1>1, <1>2, SubSeqProperties, SeqEqual
<1>4. SubSeq(t, Len(s) + 1, Len(t)) \in Seq(S)
      /\ Len(SubSeq(t, Len(s) + 1, Len(t))) = Len(u)
  BY <1>1, SubSeqProperties
<1>5. \A i \in 1 .. Len(u) : SubSeq(t, Len(s) + 1, Len(t))[i] = u[i]
  BY <1>1
<1>6. SubSeq(t, Len(s) + 1, Len(t)) = u
  <2> DEFINE v == SubSeq(t, Len(s) + 1, Len(t))
  <2>1. v \in Seq(S) /\ Len(v) = Len(u) /\ \A i \in 1 .. Len(v) : v[i] = u[i]
    BY <1>4, <1>5
  <2> HIDE DEF v
  <2>2. v = u
    BY <2>1, SeqEqual
  <2> QED
    BY <2>2 DEF v
<1> QED
  BY <1>1, <1>3, <1>6 DEF IsPrefix

LEMMA CutIsAppended ==
  ASSUME NEW S, NEW s \in Seq(S), NEW t \in Seq(S), NEW u \in Seq(S),
         IsPrefix(s, t), u = SubSeq(t, Len(s) + 1, Len(t))
  PROVE  t = s \o u
<1>1. Len(s) <= Len(t) /\ SubSeq(s, 1, Len(s)) = SubSeq(t, 1, Len(s))
  BY DEF IsPrefix
<1>2. Len(u) = Len(t) - Len(s)
  BY <1>1
<1>3. ASSUME NEW i \in 1 .. Len(s) PROVE s[i] = t[i]
  <2>1. SubSeq(s, 1, Len(s))[i] = s[i] /\ SubSeq(t, 1, Len(s))[i] = t[i]
    BY <1>1
  <2> QED
    BY <1>1, <2>1
<1>4. \A i \in 1 .. Len(t) : t[i] = (s \o u)[i]
  BY <1>1, <1>2, <1>3
<1> DEFINE v == s \o u
<1>5. v \in Seq(S) /\ Len(t) = Len(v) /\ \A i \in 1 .. Len(t) : t[i] = v[i]
  BY <1>1, <1>2, <1>4, ConcatProperties
<1> HIDE DEF v
<1>6. t = v
  BY <1>5, SeqEqual
<1> QED
  BY <1>6 DEF v

-----------------------------------------------------------------------------
(* Documents, nodes and addresses.                                         *)

(* The nodes of a document and their keywords.                             *)
LEMMA NodesAreTyped ==
  ASSUME world \in Worlds, NEW d \in Documents, NEW n \in Nodes(d)
  PROVE  /\ n = <<d, n[2]>> /\ n[1] = d
         /\ Len(world.docs[d]) \in Nat /\ n[2] \in 1 .. Len(world.docs[d])
         /\ At(n) = world.docs[d][n[2]]
         /\ At(n).ptr \in Seq(STRING) /\ At(n).id \in Bases \cup {None}
         /\ At(n).anchor \in STRING \cup {None}
         /\ At(n).ref \in Locations \cup {None, Malformed}
<1>1. world.docs[d] \in Seq(SchemaNodes)
  BY WorldsAssumption DEF WorldsAssumption
<1>2. n = <<d, n[2]>> /\ n[1] = d /\ n[2] \in 1 .. Len(world.docs[d])
  BY DEF Nodes
<1>3. At(n) = world.docs[d][n[2]] /\ At(n) \in SchemaNodes
  BY <1>1, <1>2 DEF At
<1> QED
  BY <1>1, <1>2, <1>3 DEF SchemaNodes

LEMMA RetrievalIsBase ==
  ASSUME world \in Worlds, NEW d \in Documents
  PROVE  Retrieval(d) \in Bases
BY WorldsAssumption DEF WorldsAssumption, Retrieval, Documents

(* The base URI in effect at a node is its document's, or an `$id` of the  *)
(* document.                                                               *)
LEMMA BaseIsDeclared ==
  ASSUME world \in Worlds, NEW d \in Documents, NEW n \in Nodes(d)
  PROVE  /\ BaseURI(n) \in Bases
         /\ BaseURI(n) = Retrieval(d) \/ \E m \in Nodes(d) : At(m).id = BaseURI(n)
<1>1. n[1] = d /\ Len(world.docs[d]) \in Nat
  BY NodesAreTyped
<1>2. CASE Enclosing(n) = {}
  BY <1>1, <1>2, RetrievalIsBase DEF BaseURI
<1>3. CASE Enclosing(n) # {}
  <2> DEFINE S == {m[2] : m \in Enclosing(n)}
  <2>1. Enclosing(n) \subseteq Nodes(d)
    BY <1>1 DEF Enclosing
  <2>2. S \in SUBSET (1 .. Len(world.docs[d])) /\ S # {}
    BY <1>3, <2>1, NodesAreTyped
  <2>3. Max(S) \in S
    BY <1>1, <2>2, MaxIsMember
  <2>4. PICK m \in Enclosing(n) : m[2] = Max(S)
    BY <2>3
  <2>5. m \in Nodes(d) /\ m = <<d, Max(S)>> /\ At(m).id # None
    BY <2>1, <2>4, NodesAreTyped DEF Enclosing
  <2>6. BaseURI(n) = At(m).id
    BY <1>1, <1>3, <2>5 DEF BaseURI
  <2> QED
    BY <2>5, <2>6, NodesAreTyped
<1> QED
  BY <1>2, <1>3

IsAddress(a) == a \in Locations /\ a[1] \in Bases

(* The nodes whose `$ref` can be followed, and what following it looks up. *)
Referring == {n \in AllNodes : At(n).ref \notin {None, Malformed}}
Addresses == UNION {{Target(n), ResourceOf(Target(n)[1])} : n \in Referring}

LEMMA LocationParts ==
  ASSUME NEW a \in Locations
  PROVE  /\ a = <<a[1], a[2], a[3]>> /\ a[1] \in Bases \cup {None}
         /\ \/ a[2] = "resource" /\ a[3] = <<>>
            \/ a[2] \in {"pointer", "anchor"} /\ a[3] \in Seq(STRING) /\ a[3] # <<>>
BY DEF Locations

LEMMA TargetsAreAddresses ==
  ASSUME world \in Worlds, NEW a \in Addresses
  PROVE  IsAddress(a)
<1>1. PICK n \in Referring : a \in {Target(n), ResourceOf(Target(n)[1])}
  BY DEF Addresses
<1>2. PICK d \in Documents : n \in Nodes(d)
  BY DEF Referring, AllNodes
<1>3. At(n).ref \in Locations
  BY <1>2, NodesAreTyped DEF Referring
<1>4. Target(n) \in Locations /\ Target(n)[1] \in Bases
  <2>1. CASE At(n).ref[1] = None
    <3>1. Target(n) = <<BaseURI(n), At(n).ref[2], At(n).ref[3]>>
      BY <2>1 DEF Target
    <3>2. BaseURI(n) \in Bases
      BY <1>2, BaseIsDeclared
    <3> QED
      BY <1>3, <3>1, <3>2, LocationParts DEF Locations
  <2>2. CASE At(n).ref[1] # None
    BY <1>3, <2>2, LocationParts DEF Target
  <2> QED
    BY <2>1, <2>2
<1>5. IsAddress(ResourceOf(Target(n)[1]))
  BY <1>4 DEF IsAddress, ResourceOf, Locations
<1> QED
  BY <1>1, <1>4, <1>5 DEF IsAddress

(* What an address denotes lies in a document that is filed under its base *)
(* or declares it.                                                         *)
LEMMA HolderDeclares ==
  ASSUME world \in Worlds, NEW a, NEW d \in Documents, NEW n \in Nodes(d), Denotes(a, n)
  PROVE  a[1] = Retrieval(d) \/ \E m \in Nodes(d) : At(m).id = a[1]
<1>1. n[1] = d
  BY NodesAreTyped
<1>2. CASE a = ResourceOf(At(n).id)
  BY <1>2 DEF ResourceOf
<1>3. CASE a = ResourceOf(Retrieval(d)) \/ a = <<Retrieval(d), "pointer", At(n).ptr>>
  BY <1>3 DEF ResourceOf
<1>4. CASE \E m \in Nodes(d) : At(m).id = a[1]
  BY <1>4
<1>5. CASE a = <<BaseURI(n), "anchor", <<At(n).anchor>>>>
  BY <1>5, BaseIsDeclared
<1> QED
  BY <1>1, <1>2, <1>3, <1>4, <1>5 DEF Denotes

(* The pointer of n within the resource that m is the root of.             *)
Within(m, n) == SubSeq(At(n).ptr, Len(At(m).ptr) + 1, Len(At(n).ptr))

(* The nodes whose frames enclose n, itself excepted, are those whose      *)
(* pointer n's continues.                                                  *)
LEMMA EnclosingIsAbove ==
  ASSUME world \in Worlds, NEW d \in Documents, NEW n \in Nodes(d), NEW m \in Nodes(d),
         At(m).id # None, NEW path \in Seq(STRING), path # <<>>
  PROVE  At(n).ptr = At(m).ptr \o path <=>
           /\ m \in Enclosing(n) \ {n}
           /\ path = Within(m, n)
<1> DEFINE s == At(m).ptr
           t == At(n).ptr
<1>1. At(n).ptr \in Seq(STRING) /\ At(m).ptr \in Seq(STRING) /\ n[1] = d
  BY NodesAreTyped
<1>2. At(n).ptr = At(m).ptr \o path <=>
        /\ IsPrefix(At(m).ptr, At(n).ptr)
        /\ path = Within(m, n)
  <2> DEFINE S == STRING
  <2>1. s \in Seq(S) /\ t \in Seq(S) /\ path \in Seq(S)
    BY <1>1
  <2> HIDE DEF s, t, S
  <2>2. t = s \o path <=> IsPrefix(s, t) /\ path = SubSeq(t, Len(s) + 1, Len(t))
    BY <2>1, AppendedIsCut, CutIsAppended
  <2> QED
    BY <2>2 DEF s, t, Within
<1>3. ASSUME IsPrefix(At(m).ptr, At(n).ptr) PROVE m[2] <= n[2]
  <2>1. \A j, k \in 1 .. Len(world.docs[d]) :
          IsPrefix(world.docs[d][j].ptr, world.docs[d][k].ptr) => j <= k
    BY WorldsAssumption DEF WorldsAssumption
  <2>2. n[2] \in 1 .. Len(world.docs[d]) /\ m[2] \in 1 .. Len(world.docs[d])
    BY NodesAreTyped
  <2>3. IsPrefix(world.docs[d][m[2]].ptr, world.docs[d][n[2]].ptr)
    BY <1>3, NodesAreTyped
  <2> QED
    BY <2>1, <2>2, <2>3
<1>4. ASSUME At(n).ptr = At(m).ptr \o path PROVE m # n
  BY <1>1, <1>4, ConcatEqualIffEmpty
<1> QED
  BY <1>1, <1>2, <1>3, <1>4 DEF Enclosing

(* The addresses a node is registered under, by kind.                      *)
LEMMA RegisteredByKind ==
  ASSUME NEW a, NEW n
  PROVE  /\ a \in Registered(n) => a[2] \in {"pointer", "anchor"}
         /\ a[2] = "pointer" =>
              (a \in Registered(n) <=>
                 \/ a = <<Retrieval(n[1]), "pointer", At(n).ptr>>
                 \/ \E m \in Enclosing(n) \ {n} : a = <<At(m).id, "pointer", Within(m, n)>>)
         /\ a[2] = "anchor" =>
              (a \in Registered(n) <=>
                 At(n).anchor # None /\ a = <<BaseURI(n), "anchor", <<At(n).anchor>>>>)
<1> DEFINE Root0 == <<Retrieval(n[1]), "pointer", At(n).ptr>>
           Under(m) == <<At(m).id, "pointer", Within(m, n)>>
           Anchor == <<BaseURI(n), "anchor", <<At(n).anchor>>>>
<1>1. a \in Registered(n) <=>
        \/ a = Root0
        \/ \E m \in Enclosing(n) \ {n} : a = Under(m)
        \/ At(n).anchor # None /\ a = Anchor
  BY DEF Registered, Within
<1>2. Root0[2] = "pointer" /\ Anchor[2] = "anchor" /\ \A m : Under(m)[2] = "pointer"
  OBVIOUS
<1> HIDE DEF Root0, Under, Anchor
<1>3. /\ a \in Registered(n) => a[2] \in {"pointer", "anchor"}
      /\ a[2] = "pointer" => (a \in Registered(n) <=>
           a = Root0 \/ \E m \in Enclosing(n) \ {n} : a = Under(m))
      /\ a[2] = "anchor" => (a \in Registered(n) <=> At(n).anchor # None /\ a = Anchor)
  BY <1>1, <1>2
<1> QED
  BY <1>3 DEF Root0, Under, Anchor

(* Converting an unbroken document files its nodes under the addresses     *)
(* that denote them.                                                       *)
LEMMA WritesWhatIsDenoted ==
  ASSUME world \in Worlds, NEW d \in Documents, world.broken[d] = 0,
         NEW n \in Nodes(d), NEW a, IsAddress(a)
  PROVE  Denotes(a, n) <=>
           \/ a \in Writes(n)
           \/ a = ResourceOf(Retrieval(d)) /\ n[2] = 1 /\ (d # Given \/ world.seeded)
<1>1. /\ n[1] = d /\ n[2] \in 1 .. Len(world.docs[d]) /\ Len(world.docs[d]) \in Nat
      /\ n[2] # world.broken[n[1]]
  BY NodesAreTyped
<1>2. /\ a = <<a[1], a[2], a[3]>> /\ a[1] \in Bases /\ a[1] # None
      /\ \/ a[2] = "resource" /\ a[3] = <<>>
         \/ a[2] \in {"pointer", "anchor"} /\ a[3] \in Seq(STRING) /\ a[3] # <<>>
  BY LocationParts, WorldsAssumption DEF IsAddress, WorldsAssumption
<1>3. Writes(n) = {ResourceOf(b) : b \in {At(n).id} \ {None}} \cup Registered(n)
  BY <1>1 DEF Writes
<1>4. CASE a[2] = "resource"
  <2>1. a \notin Registered(n)
    BY <1>4, RegisteredByKind
  <2>2. a \in Writes(n) <=> a = ResourceOf(At(n).id)
    BY <1>2, <1>3, <2>1 DEF ResourceOf
  <2>3. Denotes(a, n) <=>
          \/ a = ResourceOf(At(n).id)
          \/ a = ResourceOf(Retrieval(d)) /\ n[2] = 1 /\ (d # Given \/ world.seeded)
    BY <1>1, <1>4 DEF Denotes
  <2> QED
    BY <2>2, <2>3
<1>5. ASSUME a[2] # "resource"
      PROVE  (\A b : a # ResourceOf(b)) /\ (a \in Writes(n) <=> a \in Registered(n))
  <2>1. \A b : a # ResourceOf(b)
    BY <1>5 DEF ResourceOf
  <2> QED
    BY <1>3, <2>1
<1>6. CASE a[2] = "pointer"
  <2>1. Denotes(a, n) <=>
          \/ a = <<Retrieval(d), "pointer", At(n).ptr>>
          \/ \E m \in Nodes(d) : At(m).id = a[1] /\ At(n).ptr = At(m).ptr \o a[3]
    <3>1. a # <<BaseURI(n), "anchor", <<At(n).anchor>>>>
      BY <1>6
    <3> QED
      BY <1>1, <1>5, <1>6, <3>1 DEF Denotes
  <2>2. Enclosing(n) \subseteq Nodes(d)
    BY <1>1 DEF Enclosing
  <2>3. ASSUME NEW m \in Nodes(d)
        PROVE  At(m).id = a[1] /\ At(n).ptr = At(m).ptr \o a[3] <=>
                 m \in Enclosing(n) \ {n} /\ a = <<At(m).id, "pointer", Within(m, n)>>
    <3>1. a[3] \in Seq(STRING) /\ a[3] # <<>>
      BY <1>2, <1>6
    <3>2. At(m).id = a[1] =>
            (At(n).ptr = At(m).ptr \o a[3] <=>
               m \in Enclosing(n) \ {n} /\ a[3] = Within(m, n))
      BY <1>2, <3>1, EnclosingIsAbove
    <3>3. a = <<At(m).id, "pointer", Within(m, n)>> <=>
            At(m).id = a[1] /\ a[3] = Within(m, n)
      BY <1>2, <1>6
    <3> QED
      BY <3>2, <3>3
  <2>4. a \in Registered(n) <=>
          \/ a = <<Retrieval(d), "pointer", At(n).ptr>>
          \/ \E m \in Enclosing(n) \ {n} : a = <<At(m).id, "pointer", Within(m, n)>>
    BY <1>1, <1>6, RegisteredByKind
  <2>5. (\E m \in Nodes(d) : At(m).id = a[1] /\ At(n).ptr = At(m).ptr \o a[3]) <=>
          \E m \in Enclosing(n) \ {n} : a = <<At(m).id, "pointer", Within(m, n)>>
    BY <2>2, <2>3
  <2> QED
    BY <1>5, <1>6, <2>1, <2>4, <2>5
<1>7. CASE a[2] = "anchor"
  <2>1. Denotes(a, n) <=> a = <<BaseURI(n), "anchor", <<At(n).anchor>>>>
    <3>1. a # <<Retrieval(d), "pointer", At(n).ptr>>
      BY <1>7
    <3> QED
      BY <1>1, <1>5, <1>7, <3>1 DEF Denotes
  <2>2. a \in Registered(n) <=>
          At(n).anchor # None /\ a = <<BaseURI(n), "anchor", <<At(n).anchor>>>>
    BY <1>7, RegisteredByKind
  <2>3. a = <<BaseURI(n), "anchor", <<At(n).anchor>>>> => At(n).anchor # None
    <3>1. a[3] \in Seq(STRING) /\ None \notin STRING
      BY <1>2, <1>7, WorldsAssumption DEF WorldsAssumption
    <3> QED
      BY <3>1
  <2> QED
    BY <1>5, <1>7, <2>1, <2>2, <2>3
<1> QED
  BY <1>2, <1>4, <1>6, <1>7

(* A boolean document has one node, which only the document's URI denotes. *)
LEMMA BooleanIsDenoted ==
  ASSUME world \in Worlds, NEW d \in world.boolean, world.broken[d] = 0,
         NEW n \in Nodes(d), NEW a, IsAddress(a)
  PROVE  n = <<d, 1>> /\ (Denotes(a, n) <=> a = ResourceOf(Retrieval(d)))
<1>1. /\ d \in Documents /\ d # Given
      /\ world.docs[d] \in {<<>>, <<BooleanNode>>}
  BY WorldsAssumption DEF WorldsAssumption, Documents
<1>2. n[1] = d /\ n = <<d, n[2]>> /\ n[2] \in 1 .. Len(world.docs[d])
      /\ At(n) = world.docs[d][n[2]] /\ Len(world.docs[d]) \in Nat
  BY <1>1, NodesAreTyped
<1>3. n[2] = 1 /\ At(n) = BooleanNode
  BY <1>1, <1>2
<1>4. At(n).ptr = <<>> /\ At(n).id = None /\ At(n).anchor = None
  BY <1>3 DEF BooleanNode
<1>5. a \notin Registered(n)
  <2>1. Enclosing(n) \ {n} = {}
    <3> SUFFICES ASSUME NEW m \in Enclosing(n) \ {n} PROVE FALSE
      OBVIOUS
    <3>1. m \in Nodes(d) /\ m[2] <= n[2]
      BY <1>2 DEF Enclosing
    <3>2. m = <<d, m[2]>> /\ m[2] \in 1 .. Len(world.docs[d])
      BY <1>1, <3>1, NodesAreTyped
    <3>3. m[2] = 1
      BY <1>2, <1>3, <3>1, <3>2
    <3> QED
      BY <1>2, <1>3, <3>2, <3>3
  <2>2. a[2] = "pointer" => a[3] # <<>>
    BY LocationParts DEF IsAddress
  <2>3. a # <<Retrieval(d), "pointer", <<>>>>
    BY <2>2
  <2> QED
    BY <1>2, <1>4, <2>1, <2>3, RegisteredByKind
<1>6. a \notin Writes(n)
  BY <1>4, <1>5 DEF Writes
<1> QED
  BY <1>1, <1>2, <1>3, <1>6, WritesWhatIsDenoted

(* A node is filed under nothing but addresses that denote it, whether or *)
(* not its document breaks and whatever else they denote.                  *)
LEMMA WritesAreDenoted ==
  ASSUME world \in Worlds, NEW d \in Documents, NEW n \in Nodes(d), NEW a \in Writes(n)
  PROVE  Denotes(a, n)
<1>1. CASE \E b \in {At(n).id} \ {None} : a = ResourceOf(b)
  BY <1>1 DEF Denotes
<1>2. CASE a \in Registered(n)
  <2>1. CASE a = <<Retrieval(n[1]), "pointer", At(n).ptr>>
    BY <2>1 DEF Denotes
  <2>2. CASE a = <<BaseURI(n), "anchor", <<At(n).anchor>>>>
    BY <2>2 DEF Denotes
  <2>3. ASSUME NEW m \in Enclosing(n) \ {n}, a = <<At(m).id, "pointer", Within(m, n)>>
        PROVE  Denotes(a, n)
    <3> DEFINE s == At(m).ptr
               t == At(n).ptr
    <3>1. n[1] = d /\ m \in Nodes(d) /\ IsPrefix(s, t)
      BY NodesAreTyped DEF Enclosing
    <3>2. s \in Seq(STRING) /\ t \in Seq(STRING)
      BY <3>1, NodesAreTyped
    <3>3. t = s \o Within(m, n)
      <4> DEFINE S == STRING
                 u == SubSeq(t, Len(s) + 1, Len(t))
      <4>1. Len(s) \in Nat /\ Len(t) \in Nat /\ u \in Seq(S)
        BY <3>2, SubSeqProperties
      <4>2. s \in Seq(S) /\ t \in Seq(S)
        BY <3>2
      <4>3. u = Within(m, n)
        BY DEF Within
      <4> HIDE DEF S, s, t
      <4>4. t = s \o u
        BY <3>1, <4>1, <4>2, CutIsAppended
      <4> QED
        BY <4>3, <4>4
    <3>4. a[1] = At(m).id /\ a[2] = "pointer" /\ a[3] = Within(m, n)
      BY <2>3
    <3> QED
      BY <3>1, <3>3, <3>4 DEF Denotes
  <2>4. \/ a = <<Retrieval(n[1]), "pointer", At(n).ptr>>
        \/ a = <<BaseURI(n), "anchor", <<At(n).anchor>>>>
        \/ \E m \in Enclosing(n) \ {n} : a = <<At(m).id, "pointer", Within(m, n)>>
    <3>1. a[2] \in {"pointer", "anchor"}
      BY <1>2, RegisteredByKind
    <3>2. CASE a[2] = "pointer"
      BY <1>2, <3>2, RegisteredByKind
    <3>3. CASE a[2] = "anchor"
      BY <1>2, <3>3, RegisteredByKind
    <3> QED
      BY <3>1, <3>2, <3>3
  <2> QED
    BY <2>1, <2>2, <2>3, <2>4
<1> QED
  BY <1>1, <1>2 DEF Writes

(* An index leads from each of its addresses to a node of D it denotes.    *)
LeadsInto(idx, D) == \A a \in DOMAIN idx : idx[a] \in Holders(a, D)

(* An index holds an address exactly if it denotes some node of D.         *)
Indexes(idx, a, D) == a \in DOMAIN idx <=> Holders(a, D) # {}

LEMMA HoldersOfBoth ==
  ASSUME NEW a, NEW D, NEW d
  PROVE  Holders(a, D \cup {d}) = Holders(a, D) \cup {n \in Nodes(d) : Denotes(a, n)}
BY DEF Holders

LEMMA ConvertKeeps ==
  ASSUME NEW d, NEW idx
  PROVE  DOMAIN idx \subseteq DOMAIN Convert(d, idx)
BY DEF Convert

(* The first node of a document that was loaded.                           *)
LEMMA FirstIsNode ==
  ASSUME world \in Worlds, NEW d \in Documents, world.docs[d] # <<>>
  PROVE  <<d, 1>> \in Nodes(d)
<1>1. world.docs[d] \in Seq(SchemaNodes)
  BY WorldsAssumption DEF WorldsAssumption
<1> QED
  BY <1>1, EmptySeq DEF Nodes

(* Converting one more document, broken or not, overwrites nothing but with *)
(* a node of its own that the address denotes.                             *)
LEMMA ConvertIsSound ==
  ASSUME world \in Worlds, NEW d \in Documents, world.docs[d] # <<>>,
         NEW D \in SUBSET Documents, NEW idx, LeadsInto(idx, D)
  PROVE  LeadsInto(Convert(d, idx), D \cup {d})
<1> DEFINE root == ResourceOf(Retrieval(d))
           boolean == d \in world.boolean
           seeds == ~ boolean /\ world.broken[d] = 0 /\ (d # Given \/ world.seeded)
           written == IF boolean THEN {root} ELSE UNION {Writes(n) : n \in Met(d)}
           writers(a) == {n[2] : n \in {m \in Met(d) : a \in Writes(m)}}
<1> SUFFICES ASSUME NEW a \in DOMAIN Convert(d, idx)
             PROVE  Convert(d, idx)[a] \in Holders(a, D \cup {d})
  BY DEF LeadsInto
<1>1. /\ a \in written \/ a \in DOMAIN idx \/ (a = root /\ seeds)
      /\ Convert(d, idx)[a] =
           IF a \in written THEN <<d, IF boolean THEN 1 ELSE Max(writers(a))>>
           ELSE IF a \in DOMAIN idx THEN idx[a]
           ELSE <<d, 1>>
  BY DEF Convert
<1>2. \A n \in Nodes(d) : Denotes(a, n) => n \in Holders(a, D \cup {d})
  BY DEF Holders
<1>3. <<d, 1>> \in Nodes(d)
  BY FirstIsNode
<1>4. (boolean => d # Given) /\ (a = root /\ (d # Given \/ world.seeded) => Denotes(a, <<d, 1>>))
  BY WorldsAssumption DEF WorldsAssumption, Denotes
<1>5. CASE a \in written /\ boolean
  BY <1>1, <1>2, <1>3, <1>4, <1>5
<1>6. CASE a \in written /\ ~ boolean
  <2>1. PICK n \in Met(d) : a \in Writes(n)
    BY <1>6
  <2>2. Met(d) \subseteq Nodes(d)
    BY DEF Met
  <2> DEFINE W == writers(a)
             k == Len(world.docs[d])
  <2>3. W \in SUBSET (1 .. k) /\ k \in Nat /\ n[2] \in W
    BY <2>1, <2>2, NodesAreTyped
  <2>4. Max(W) \in W
    <3> HIDE DEF W, k
    <3> QED
      BY <2>3, MaxIsMember
  <2>5. PICK m \in Met(d) : a \in Writes(m) /\ m[2] = Max(W)
    <3> DEFINE top == Max(W)
    <3>1. top \in W
      BY <2>4
    <3> HIDE DEF top
    <3>2. \E m \in Met(d) : a \in Writes(m) /\ m[2] = top
      BY <3>1
    <3> QED
      BY <3>2 DEF top
  <2>6. m = <<d, Max(W)>>
    BY <2>2, <2>5, NodesAreTyped
  <2>7. m \in Holders(a, D \cup {d})
    BY <1>2, <2>2, <2>5, WritesAreDenoted
  <2> QED
    BY <1>1, <1>6, <2>6, <2>7
<1>7. CASE a \notin written /\ a \in DOMAIN idx
  BY <1>1, <1>7 DEF LeadsInto, Holders
<1>8. CASE a \notin written /\ a \notin DOMAIN idx
  BY <1>1, <1>2, <1>3, <1>4, <1>8
<1> QED
  BY <1>5, <1>6, <1>7, <1>8

(* Converting one more unbroken document extends the index by what it      *)
(* holds: what is overwritten stays filed.                                 *)
LEMMA ConvertFiles ==
  ASSUME world \in Worlds, NEW d \in Documents, world.broken[d] = 0, world.docs[d] # <<>>,
         NEW D \in SUBSET Documents, NEW idx, NEW a, IsAddress(a), Indexes(idx, a, D)
  PROVE  Indexes(Convert(d, idx), a, D \cup {d})
<1> DEFINE root == ResourceOf(Retrieval(d))
           boolean == d \in world.boolean
           seeds == ~ boolean /\ world.broken[d] = 0 /\ (d # Given \/ world.seeded)
           written == IF boolean THEN {root} ELSE UNION {Writes(n) : n \in Met(d)}
           held == {n \in Nodes(d) : Denotes(a, n)}
<1>1. a \in DOMAIN Convert(d, idx) <=>
        a \in written \/ a \in DOMAIN idx \/ (a = root /\ seeds)
  BY DEF Convert
<1>2. Met(d) = Nodes(d)
  BY DEF Met
<1>3. <<d, 1>> \in Nodes(d)
  BY FirstIsNode
<1>4. Holders(a, D \cup {d}) = Holders(a, D) \cup held
  BY HoldersOfBoth
<1>5. held # {} <=> a \in written \/ (a = root /\ seeds)
  <2>1. CASE boolean
    <3>1. \A n \in Nodes(d) : Denotes(a, n) <=> a = root
      BY <2>1, BooleanIsDenoted
    <3> QED
      BY <1>3, <2>1, <3>1
  <2>2. CASE ~ boolean
    <3>1. \A n \in Nodes(d) :
            Denotes(a, n) <=> a \in Writes(n) \/ (a = root /\ n[2] = 1 /\ seeds)
      BY <2>2, WritesWhatIsDenoted
    <3>2. a \in written <=> \E n \in Nodes(d) : a \in Writes(n)
      BY <1>2, <2>2
    <3> HIDE DEF root, seeds, written
    <3> QED
      BY <1>3, <3>1, <3>2
  <2> QED
    BY <2>1, <2>2
<1> HIDE DEF held, root, seeds, written
<1> QED
  BY <1>1, <1>4, <1>5 DEF Indexes

-----------------------------------------------------------------------------
(* The inductive invariant.                                                *)

Unbroken == \A d \in Documents : world.broken[d] = 0

(* The documents that have been converted.                                 *)
Converted == {Given} \cup {b \in Range(fetched) : world.docs[b] # <<>>}

TypeInv ==
  /\ world \in Worlds
  /\ phase \in {"resolve", "load", "finalize", "done"}
  /\ fetched \in Seq(Bases)
  /\ loaded \subseteq Bases
  /\ {loadedAny, cancelled} \subseteq BOOLEAN

(* What is left to load was never attempted, and what was attempted is     *)
(* what was fetched, unless there was no loader or no time for it.         *)
FetchInv ==
  /\ IsInjective(fetched)
  /\ Range(fetched) \subseteq loaded
  /\ missing \cap loaded = {}
  /\ ~ cancelled /\ world.loader => loaded \subseteq Range(fetched)

(* The registry holds what the converted documents hold, and leads, as the *)
(* resolved refs do, to nothing but what an address denotes.               *)
RegistryInv ==
  /\ recorded = UNION {Refs(d) : d \in Converted}
  /\ DOMAIN resolved \subseteq {n \in recorded : At(n).ref # Malformed}
  /\ LeadsInto(index, Converted)
  /\ \A n \in DOMAIN resolved : resolved[n] \in Holders(Target(n), Converted)
  /\ Undisturbed => \A a \in Addresses : Indexes(index, a, Converted)

(* Nothing can resolve n: its target is not filed, and its document is     *)
(* there, was attempted or is about to be.                                 *)
Hopeless(n) ==
  /\ Target(n) \notin DOMAIN index
  /\ ResourceOf(Target(n)[1]) \in DOMAIN index \/ Target(n)[1] \in loaded \cup missing

(* As long as a round has loaded nothing, what the pass before it left     *)
(* pending is hopeless.                                                    *)
RoundInv ==
  /\ phase \in {"finalize", "done"} => missing = {}
  /\ Unbroken /\ (phase \in {"finalize", "done"} \/ (phase = "load" /\ ~ loadedAny)) =>
       \A n \in Pending : Hopeless(n)

(* Only needed documents are loaded.                                       *)
NeededInv ==
  Undisturbed =>
    \A D \in SUBSET Documents : Closed(D) =>
      /\ Converted \subseteq D
      /\ \A b \in missing \cap Bases : world.loader /\ world.docs[b] # <<>> => b \in D

ReportInv ==
  /\ phase # "done" => unresolved = <<>>
  /\ Unbroken => \A n \in DOMAIN unresolved : unresolved[n] # {}

IInv == TypeInv /\ FetchInv /\ RegistryInv /\ RoundInv /\ NeededInv /\ ReportInv


(* The documents do not change, so neither does what addresses denote.     *)
LEMMA NodesStay ==
  ASSUME UNCHANGED world
  PROVE  /\ \A d : Nodes(d)' = Nodes(d) /\ Refs(d)' = Refs(d)
         /\ \A n : At(n)' = At(n) /\ Target(n)' = Target(n)
         /\ \A a, n : Denotes(a, n)' = Denotes(a, n)
<1>1. \A d : Nodes(d)' = Nodes(d)
  BY DEF Nodes
<1>2. \A n : At(n)' = At(n)
  BY DEF At
<1>3. \A n : Enclosing(n)' = Enclosing(n)
  BY <1>1, <1>2 DEF Enclosing
<1>4. \A n : BaseURI(n)' = BaseURI(n)
  BY <1>2, <1>3 DEF BaseURI
<1>5. \A n : Target(n)' = Target(n)
  BY <1>2, <1>4 DEF Target
<1>6. \A d : Met(d)' = Met(d)
  BY <1>1 DEF Met
<1>7. \A d : Refs(d)' = Refs(d)
  BY <1>2, <1>6 DEF Refs
<1>8. \A a, n : Denotes(a, n)' = Denotes(a, n)
  BY <1>1, <1>2, <1>4 DEF Denotes
<1> QED
  BY <1>1, <1>2, <1>5, <1>7, <1>8

LEMMA MeaningStays ==
  ASSUME UNCHANGED world
  PROVE  /\ \A a, D : Holders(a, D)' = Holders(a, D)
         /\ Addresses' = Addresses
         /\ Undisturbed' = Undisturbed
         /\ \A D : Closed(D)' = Closed(D)
         /\ Unbroken' = Unbroken
<1>1. \A a, D : Holders(a, D)' = Holders(a, D)
  BY NodesStay DEF Holders
<1>2. AllNodes' = AllNodes
  BY NodesStay DEF AllNodes
<1>3. Addresses' = Addresses
  BY <1>2, NodesStay DEF Addresses, Referring
<1>4. Undisturbed' = Undisturbed
  BY <1>1, <1>2, NodesStay DEF Undisturbed
<1>5. \A D : Closed(D)' = Closed(D)
  BY <1>1, NodesStay DEF Closed
<1>6. Unbroken' = Unbroken
  BY DEF Unbroken
<1> QED
  BY <1>1, <1>3, <1>4, <1>5, <1>6


LEMMA ConvertedAreDocuments ==
  ASSUME TypeInv
  PROVE  Converted \subseteq Documents /\ Given \in Documents
BY DEF TypeInv, Converted, Documents, Range

(* The refs the registry knows are refs of the converted documents.        *)
LEMMA RecordedRefer ==
  ASSUME TypeInv, RegistryInv, NEW n \in recorded
  PROVE  /\ \E d \in Converted : n \in Refs(d) /\ n \in Nodes(d)
         /\ At(n).ref # None
         /\ At(n).ref # Malformed =>
              /\ n \in Referring
              /\ Target(n) \in Addresses /\ ResourceOf(Target(n)[1]) \in Addresses
<1>1. PICK d \in Converted : n \in Refs(d)
  BY DEF RegistryInv
<1>2. n \in Nodes(d) /\ At(n).ref # None
  BY <1>1 DEF Refs, Met
<1>3. n \in AllNodes
  BY <1>2, ConvertedAreDocuments DEF AllNodes
<1> QED
  BY <1>1, <1>2, <1>3 DEF Referring, Addresses

LEMMA HoldersGrow ==
  ASSUME NEW a, NEW C, NEW D, C \subseteq D
  PROVE  Holders(a, C) \subseteq Holders(a, D)
BY DEF Holders

(* Where no `$id` is the URI of a loadable document, only that document    *)
(* and the given one can hold an address in it.                            *)
LEMMA OnlyItsDocumentHolds ==
  ASSUME world \in Worlds, Undisturbed, NEW b \in Bases, world.docs[b] # <<>>,
         NEW a, a[1] = b, NEW C, Given \in C, Holders(a, C) = {},
         NEW D \in SUBSET Documents, Holders(a, D) # {}
  PROVE  b \in D
<1>1. PICK d \in D : \E n \in Nodes(d) : Denotes(a, n)
  BY DEF Holders
<1>2. PICK n \in Nodes(d) : Denotes(a, n)
  BY <1>1
<1>3. b = Retrieval(d)
  <2>1. ASSUME NEW m \in Nodes(d), At(m).id = b PROVE FALSE
    <3>1. m \in AllNodes
      BY DEF AllNodes
    <3> QED
      BY <2>1, <3>1 DEF Undisturbed
  <2> QED
    BY <1>2, <2>1, HolderDeclares
<1>4. d # Given
  BY <1>2 DEF Holders
<1> QED
  BY <1>3, <1>4 DEF Retrieval

-----------------------------------------------------------------------------

LEMMA InitEstablishes == Init => IInv
<1> SUFFICES ASSUME Init PROVE IInv
  OBVIOUS
<1> USE DEF Init
<1>1. world.docs[Given] # <<>> /\ world.broken[Given] = 0
  BY WorldsAssumption DEF WorldsAssumption
<1>2. Range(fetched) = {} /\ Converted = {Given}
  BY DEF Range, Converted
<1>3. TypeInv
  BY EmptySeq DEF TypeInv
<1>4. FetchInv
  BY <1>2 DEF FetchInv, IsInjective
<1>5. RegistryInv
  <2>1. recorded = UNION {Refs(d) : d \in Converted}
    BY <1>2
  <2>2. ASSUME Undisturbed, NEW a \in Addresses
        PROVE  Indexes(index, a, Converted)
    <3>1. Indexes(<<>>, a, {})
      BY DEF Indexes, Holders
    <3>2. Indexes(Convert(Given, <<>>), a, {} \cup {Given})
      BY <1>1, <2>2, <3>1, TargetsAreAddresses, ConvertFiles DEF Documents
    <3> QED
      BY <1>2, <3>2
  <2>3. LeadsInto(index, Converted)
    <3>1. LeadsInto(<<>>, {})
      BY DEF LeadsInto
    <3>2. LeadsInto(Convert(Given, <<>>), {} \cup {Given})
      BY <1>1, <3>1, ConvertIsSound DEF Documents
    <3> QED
      BY <1>2, <3>2
  <2> QED
    BY <2>1, <2>2, <2>3 DEF RegistryInv
<1>6. RoundInv /\ ReportInv
  BY DEF RoundInv, ReportInv
<1>7. NeededInv
  BY <1>2 DEF NeededInv, Closed
<1> QED
  BY <1>3, <1>4, <1>5, <1>6, <1>7 DEF IInv

(* A pass resolves to what the converted documents hold, leaves nothing    *)
(* pending that the registry can resolve, and wants only needed documents. *)
LEMMA PassPreserves ==
  ASSUME IInv, ResolvePass
  PROVE  IInv'
<1> USE DEF ResolvePass, IInv
<1> DEFINE found == {n \in Pending : Target(n) \in DOMAIN index}
<1>1. /\ phase = "resolve" /\ missing' = Wanted /\ loadedAny' = FALSE
      /\ resolved' = [n \in found \cup DOMAIN resolved |->
                        IF n \in found THEN index[Target(n)] ELSE resolved[n]]
      /\ phase' = IF Wanted = {} THEN "finalize" ELSE "load"
      /\ UNCHANGED <<world, index, recorded, loaded, cancelled, unresolved, fetched>>
  OBVIOUS
<1>2. Converted' = Converted
  BY DEF Converted
<1>3. Pending \subseteq recorded /\ \A n \in Pending : At(n).ref # Malformed
  BY DEF Pending
<1>4. TypeInv'
  BY DEF TypeInv
<1>5. FetchInv'
  BY DEF FetchInv, Wanted
<1>6. RegistryInv'
  <2>1. recorded' = UNION {Refs(d) : d \in Converted}
    BY DEF RegistryInv
  <2>2. DOMAIN resolved' \subseteq {n \in recorded : At(n).ref # Malformed}
    BY <1>1, <1>3 DEF RegistryInv
  <2>3. ASSUME NEW n \in DOMAIN resolved'
        PROVE  resolved'[n] \in Holders(Target(n), Converted)
    BY <1>1 DEF RegistryInv, LeadsInto
  <2>4. /\ LeadsInto(index, Converted)
        /\ Undisturbed => \A a \in Addresses : Indexes(index, a, Converted)
    BY DEF RegistryInv
  <2> QED
    BY <1>1, <1>2, <2>1, <2>2, <2>3, <2>4, NodesStay, MeaningStays DEF RegistryInv, Indexes, LeadsInto
<1>7. RoundInv'
  <2>1. ASSUME NEW n \in Pending' PROVE Hopeless(n)'
    <3>1. n \in recorded /\ n \notin DOMAIN resolved /\ n \notin found
          /\ At(n).ref # Malformed
      BY <1>1, <2>1, NodesStay DEF Pending
    <3>2. n \in Pending /\ Target(n) \notin DOMAIN index
      BY <3>1 DEF Pending
    <3>3. \/ ResourceOf(Target(n)[1]) \in DOMAIN index
          \/ Target(n)[1] \in loaded \cup Wanted
      BY <3>2 DEF Wanted
    <3> QED
      BY <1>1, <3>2, <3>3, NodesStay DEF Hopeless, ResourceOf
  <2> QED
    BY <1>1, <2>1 DEF RoundInv
<1>8. NeededInv'
  <2> SUFFICES ASSUME Undisturbed, NEW D \in SUBSET Documents, Closed(D)
               PROVE  /\ Converted \subseteq D
                      /\ \A b \in Wanted \cap Bases :
                           world.loader /\ world.docs[b] # <<>> => b \in D
    BY <1>1, <1>2, MeaningStays DEF NeededInv
  <2>1. Converted \subseteq D
    BY DEF NeededInv
  <2>2. ASSUME NEW b \in Wanted \cap Bases, world.loader, world.docs[b] # <<>>
        PROVE  b \in D
    <3>1. PICK n \in Pending : /\ b = Target(n)[1]
                               /\ Target(n) \notin DOMAIN index
                               /\ ResourceOf(Target(n)[1]) \notin DOMAIN index
      BY DEF Wanted
    <3>2. n \in recorded /\ At(n).ref # Malformed
      BY <1>3
    <3>3. PICK d \in Converted : n \in Refs(d)
      BY <3>2, RecordedRefer
    <3>4. /\ Holders(Target(n), Converted) = {}
          /\ Holders(ResourceOf(b), Converted) = {}
      BY <3>1, <3>2, RecordedRefer DEF RegistryInv, Indexes
    <3>5. Given \in Converted /\ world \in Worlds
      BY DEF Converted, TypeInv
    <3>6. ResourceOf(b)[1] = b
      BY DEF ResourceOf
    <3>7. Holders(Target(n), D) # {} \/ Holders(ResourceOf(b), D) # {} => b \in D
      BY <2>2, <3>1, <3>4, <3>5, <3>6, OnlyItsDocumentHolds
    <3>8. n \in UNION {Refs(e) : e \in D}
      BY <2>1, <3>3
    <3> QED
      BY <2>2, <3>1, <3>2, <3>7, <3>8 DEF Closed
  <2> QED
    BY <2>1, <2>2
<1>9. ReportInv'
  BY <1>1, MeaningStays DEF ReportInv
<1> QED
  BY <1>4, <1>5, <1>6, <1>7, <1>8, <1>9


(* What a load adds to the registry is what the document holds; only a     *)
(* document that breaks is converted without the round counting as one     *)
(* that loaded.                                                            *)
LEMMA LoadPreserves ==
  ASSUME IInv, NEW b \in Bases, TryLoad(b)
  PROVE  IInv'
<1> USE DEF IInv
<1>1. /\ phase = "load" /\ b \in missing /\ missing' = missing \ {b}
      /\ loaded' = loaded \cup {b}
      /\ UNCHANGED <<world, resolved, cancelled, phase, unresolved>>
  BY DEF TryLoad
<1>2. b \notin loaded /\ b \notin Range(fetched) /\ fetched \in Seq(Bases)
      /\ world \in Worlds /\ b \in Documents
  BY <1>1 DEF FetchInv, TypeInv, Documents
<1>3. Append(fetched, b) \in Seq(Bases)
      /\ IsInjective(Append(fetched, b))
      /\ Range(Append(fetched, b)) = Range(fetched) \cup {b}
  <2>1. /\ Len(fetched) \in Nat /\ DOMAIN fetched = 1 .. Len(fetched)
        /\ DOMAIN Append(fetched, b) = 1 .. Len(fetched) + 1
        /\ \A i \in 1 .. Len(fetched) : Append(fetched, b)[i] = fetched[i]
        /\ Append(fetched, b)[Len(fetched) + 1] = b
        /\ Append(fetched, b) \in Seq(Bases)
    BY <1>2
  <2>2. \A i \in 1 .. Len(fetched) : fetched[i] # b
    BY <1>2, <2>1 DEF Range
  <2> DEFINE longer == Append(fetched, b)
  <2> HIDE DEF longer
  <2>3. IsInjective(longer)
    BY <2>1, <2>2 DEF longer, FetchInv, IsInjective
  <2>4. Range(longer) = Range(fetched) \cup {b}
    BY <2>1 DEF longer, Range
  <2> QED
    BY <2>1, <2>3, <2>4 DEF longer
<1>4. \/ /\ ~ (world.loader /\ ~ cancelled) /\ UNCHANGED <<index, recorded, loadedAny, fetched>>
      \/ /\ world.loader /\ fetched' = Append(fetched, b) /\ world.docs[b] = <<>>
         /\ UNCHANGED <<index, recorded, loadedAny>>
      \/ /\ world.loader /\ fetched' = Append(fetched, b) /\ world.docs[b] # <<>>
         /\ index' = Convert(b, index) /\ recorded' = recorded \cup Refs(b)
         /\ loadedAny' = IF world.broken[b] = 0 THEN TRUE ELSE loadedAny
  BY DEF TryLoad
<1>5. \/ Converted' = Converted
      \/ Converted' = Converted \cup {b} /\ world.loader /\ world.docs[b] # <<>>
  <2>0. \A e : e \in Converted' <=>
                 e = Given \/ (e \in Range(fetched') /\ world.docs[e] # <<>>)
    BY <1>1 DEF Converted
  <2>1. CASE UNCHANGED fetched
    <3>1. Converted' = Converted
      BY <1>1, <2>1 DEF Converted
    <3> QED
      BY <3>1
  <2>2. CASE fetched' = Append(fetched, b) /\ world.loader
    <3>1. Range(fetched') = Range(fetched) \cup {b}
      BY <1>3, <2>2
    <3>2. \A e : e \in Converted <=>
                   e = Given \/ (e \in Range(fetched) /\ world.docs[e] # <<>>)
      BY DEF Converted
    <3> DEFINE C == Converted'
    <3> HIDE DEF C
    <3>3. C = Converted \/ (C = Converted \cup {b} /\ world.docs[b] # <<>>)
      BY <2>0, <3>1, <3>2 DEF C
    <3> QED
      BY <2>2, <3>3 DEF C
  <2> QED
    BY <1>4, <2>1, <2>2
<1>6. Converted \subseteq Converted'
  BY <1>5
<1>7. TypeInv'
  BY <1>1, <1>3, <1>4 DEF TypeInv
<1>8. FetchInv'
  BY <1>1, <1>3, <1>4 DEF FetchInv
<1>9. RegistryInv'
  <2>0. \/ UNCHANGED <<index, recorded>> /\ Converted' = Converted
        \/ /\ index' = Convert(b, index) /\ recorded' = recorded \cup Refs(b)
           /\ Converted' = Converted \cup {b} /\ world.docs[b] # <<>>
    BY <1>1, <1>3, <1>4 DEF Converted
  <2>1. /\ recorded' = UNION {Refs(d) : d \in Converted'}
        /\ recorded \subseteq recorded'
    <3>1. recorded = UNION {Refs(d) : d \in Converted}
      BY DEF RegistryInv
    <3>2. UNION {Refs(d) : d \in Converted \cup {b}} = recorded \cup Refs(b)
      BY <3>1
    <3>3. CASE UNCHANGED recorded /\ Converted' = Converted
      BY <3>1, <3>3
    <3>4. CASE recorded' = recorded \cup Refs(b) /\ Converted' = Converted \cup {b}
      BY <3>2, <3>4
    <3> QED
      BY <2>0, <3>3, <3>4
  <2>2. DOMAIN resolved \subseteq {n \in recorded' : At(n).ref # Malformed}
    BY <2>1 DEF RegistryInv
  <2>3. ASSUME Undisturbed, NEW a \in Addresses
        PROVE  Indexes(index', a, Converted')
    <3>1. Indexes(index, a, Converted) /\ IsAddress(a)
      BY <1>2, <2>3, TargetsAreAddresses DEF RegistryInv
    <3>2. CASE index' = index /\ Converted' = Converted
      BY <3>1, <3>2
    <3>3. CASE /\ index' = Convert(b, index) /\ Converted' = Converted \cup {b}
               /\ world.docs[b] # <<>>
      <4>1. world.broken[b] = 0
        BY <1>2, <2>3 DEF Undisturbed
      <4> QED
        BY <1>2, <3>1, <3>3, <4>1, ConvertFiles, ConvertedAreDocuments
    <3> QED
      BY <2>0, <3>2, <3>3
  <2>4. ASSUME NEW n \in DOMAIN resolved
        PROVE  resolved[n] \in Holders(Target(n), Converted')
    BY <1>6, <2>4, HoldersGrow DEF RegistryInv
  <2>5. LeadsInto(index', Converted')
    <3>1. LeadsInto(index, Converted)
      BY DEF RegistryInv
    <3>2. CASE index' = index /\ Converted' = Converted
      BY <3>1, <3>2
    <3>3. CASE /\ index' = Convert(b, index) /\ Converted' = Converted \cup {b}
               /\ world.docs[b] # <<>>
      BY <1>2, <3>1, <3>3, ConvertIsSound, ConvertedAreDocuments
    <3> QED
      BY <2>0, <3>2, <3>3
  <2> DEFINE C == Converted'
  <2> HIDE DEF C
  <2>6. /\ recorded' = UNION {Refs(d) : d \in C}
        /\ Undisturbed => \A a \in Addresses : Indexes(index', a, C)
        /\ \A n \in DOMAIN resolved : resolved[n] \in Holders(Target(n), C)
        /\ LeadsInto(index', C)
    BY <2>1, <2>3, <2>4, <2>5 DEF C
  <2> QED
    BY <1>1, <2>2, <2>6, NodesStay, MeaningStays DEF RegistryInv, Indexes, LeadsInto, C
<1>10. RoundInv'
  <2> SUFFICES ASSUME Unbroken, ~ loadedAny', NEW n \in Pending'
               PROVE  Hopeless(n)'
    BY <1>1, MeaningStays DEF RoundInv
  <2>1. UNCHANGED <<index, recorded, loadedAny>>
    BY <1>2, <1>4 DEF Unbroken
  <2>2. n \in Pending
    BY <1>1, <2>1, NodesStay DEF Pending
  <2>3. Hopeless(n)
    BY <1>1, <2>1, <2>2 DEF RoundInv
  <2> QED
    BY <1>1, <2>1, <2>3, NodesStay DEF Hopeless, ResourceOf
<1>11. NeededInv'
  <2> SUFFICES ASSUME Undisturbed, NEW D \in SUBSET Documents, Closed(D)
               PROVE  /\ Converted' \subseteq D
                      /\ \A e \in missing' \cap Bases :
                           world.loader /\ world.docs[e] # <<>> => e \in D
    BY <1>1, MeaningStays DEF NeededInv
  <2> QED
    BY <1>1, <1>5 DEF NeededInv
<1>12. ReportInv'
  BY <1>1, MeaningStays DEF ReportInv
<1> QED
  BY <1>7, <1>8, <1>9, <1>10, <1>11, <1>12

(* The other steps look nothing up.                                        *)
LEMMA RestPreserves ==
  ASSUME IInv, EndRound \/ FinalizeUnresolved \/ Cancel \/ UNCHANGED vars
  PROVE  IInv'
<1> USE DEF IInv
<1>1. /\ UNCHANGED <<world, index, recorded, resolved, missing, loaded, fetched>>
      /\ UNCHANGED cancelled \/ cancelled' = TRUE
  BY DEF EndRound, FinalizeUnresolved, Cancel, vars
<1>2. Converted' = Converted
  BY <1>1 DEF Converted
<1>3. TypeInv' /\ FetchInv'
  BY <1>1 DEF TypeInv, FetchInv, EndRound, FinalizeUnresolved, Cancel, vars
<1>4. RegistryInv' /\ NeededInv'
  BY <1>1, <1>2, NodesStay, MeaningStays DEF RegistryInv, NeededInv, Indexes, LeadsInto
<1>5. Pending' = Pending /\ \A n : Hopeless(n)' = Hopeless(n)
  BY <1>1, NodesStay DEF Pending, Hopeless, ResourceOf
<1>6. RoundInv'
  BY <1>1, <1>5, MeaningStays DEF RoundInv, EndRound, FinalizeUnresolved, Cancel, vars
<1>7. ReportInv'
  <2>1. CASE FinalizeUnresolved
    <3>1. ASSUME Unbroken, NEW n \in recorded \ DOMAIN resolved
          PROVE  Reason(n) # {}
      <4>1. At(n).ref = Malformed \/ Target(n) \notin DOMAIN index
        BY <2>1, <3>1 DEF FinalizeUnresolved, RoundInv, Pending, Hopeless
      <4> QED
        BY <4>1 DEF Reason
    <3> QED
      BY <1>1, <2>1, <3>1, MeaningStays DEF FinalizeUnresolved, ReportInv
  <2>2. CASE ~ FinalizeUnresolved
    BY <1>1, <2>2, MeaningStays DEF ReportInv, EndRound, Cancel, vars
  <2> QED
    BY <2>1, <2>2
<1> QED
  BY <1>3, <1>4, <1>6, <1>7

(* The inductive invariant holds of every behaviour of the worklist.       *)
THEOREM WorklistKeepsInvariant == Spec => []IInv
<1>1. IInv /\ [Next]_vars => IInv'
  BY PassPreserves, LoadPreserves, RestPreserves DEF Next, Step
<1> QED
  BY <1>1, InitEstablishes, PTL DEF Spec

-----------------------------------------------------------------------------

(* Each base is fetched at most once, however documents refer to one       *)
(* another: what tryLoad attempted never becomes wanted again.             *)
THEOREM FetchesOnce == Spec => []FetchedAtMostOnce
<1>1. IInv => FetchedAtMostOnce
  BY DEF IInv, FetchInv, FetchedAtMostOnce
<1> QED
  BY <1>1, WorklistKeepsInvariant, PTL

(* Unless a document broke half way, no reported ref could have been       *)
(* resolved: finalizeUnresolved finds a reason for each.                   *)
THEOREM ReportsReasons == Spec => []DanglingHasReason
<1>1. IInv => DanglingHasReason
  BY DEF IInv, ReportInv, DanglingHasReason, Unbroken
<1> QED
  BY <1>1, WorklistKeepsInvariant, PTL

(* When the worklist ends undisturbed, what was converted is closed: every *)
(* document that a dangling ref of it names was tried.                     *)
LEMMA ConvertedIsClosed ==
  ASSUME IInv, phase = "done", ~ cancelled, Undisturbed
  PROVE  Closed(Converted)
<1> USE DEF IInv
<1> SUFFICES ASSUME NEW n \in UNION {Refs(d) : d \in Converted},
                    At(n).ref # Malformed,
                    Holders(Target(n), Converted) = {},
                    Holders(ResourceOf(Target(n)[1]), Converted) = {},
                    world.loader, world.docs[Target(n)[1]] # <<>>
             PROVE  Target(n)[1] \in Converted
  BY DEF Closed, Converted
<1>1. n \in recorded
  BY DEF RegistryInv
<1>2. n \notin DOMAIN resolved
  BY DEF RegistryInv
<1>3. Hopeless(n) /\ missing = {}
  BY <1>1, <1>2 DEF RoundInv, Pending, Undisturbed, Unbroken
<1>4. ResourceOf(Target(n)[1]) \notin DOMAIN index
  BY <1>1, RecordedRefer DEF RegistryInv, Indexes
<1>5. Target(n)[1] \in Range(fetched)
  BY <1>3, <1>4 DEF Hopeless, FetchInv
<1> QED
  BY <1>5 DEF Converted

(* The documents converted are the needed ones.                            *)
LEMMA ConvertedIsNeeded ==
  ASSUME IInv, phase = "done", ~ cancelled, Undisturbed
  PROVE  Needed = Converted
<1>1. Closed(Converted) /\ Converted \in SUBSET Documents
  BY ConvertedIsClosed, ConvertedAreDocuments DEF IInv
<1>2. \A D \in SUBSET Documents : Closed(D) => Converted \subseteq D
  BY DEF IInv, NeededInv
<1>3. \A d : d \in Needed <=>
        d \in Documents /\ \A D \in SUBSET Documents : Closed(D) => d \in D
  BY DEF Needed
<1>4. \A d \in Needed : d \in Converted
  BY <1>1, <1>3
<1>5. \A d \in Converted : d \in Needed
  BY <1>1, <1>2, <1>3
<1> QED
  BY <1>4, <1>5

(* Whatever overwrites what, a resolved ref leads to a node its target      *)
(* denotes.  Whatever order the documents of a round load in, and over     *)
(* however many rounds: the refs that end up resolved are those whose      *)
(* target some needed document holds.                                      *)
THEOREM ResolvesInAnyOrder == Spec => []ResolvesWhatLoads
<1>1. IInv => ResolvesWhatLoads
  <2> SUFFICES ASSUME IInv PROVE ResolvesWhatLoads
    OBVIOUS
  <2> USE DEF IInv
  <2>1. ASSUME NEW n \in DOMAIN resolved
        PROVE  resolved[n] \in Holders(Target(n), {Given} \cup Range(fetched))
    <3>1. Converted \subseteq {Given} \cup Range(fetched)
      BY DEF Converted
    <3> QED
      BY <3>1, HoldersGrow DEF RegistryInv
  <2>2. ASSUME phase = "done", ~ cancelled, Undisturbed
        PROVE  /\ recorded = UNION {Refs(d) : d \in Needed}
               /\ DOMAIN resolved =
                    {n \in recorded : At(n).ref # Malformed /\ Holders(Target(n), Needed) # {}}
    <3> SUFFICES /\ recorded = UNION {Refs(d) : d \in Converted}
                 /\ DOMAIN resolved =
                      {n \in recorded : At(n).ref # Malformed /\
                         Holders(Target(n), Converted) # {}}
      BY <2>2, ConvertedIsNeeded
    <3>1. /\ recorded = UNION {Refs(d) : d \in Converted}
          /\ \A n \in DOMAIN resolved : resolved[n] \in Holders(Target(n), Converted)
          /\ DOMAIN resolved \subseteq {n \in recorded : At(n).ref # Malformed}
      BY DEF RegistryInv
    <3>2. ASSUME NEW n \in recorded, At(n).ref # Malformed,
                 Holders(Target(n), Converted) # {}
          PROVE  n \in DOMAIN resolved
      <4>1. Target(n) \in DOMAIN index
        BY <2>2, <3>2, RecordedRefer DEF RegistryInv, Indexes
      <4> QED
        BY <2>2, <3>2, <4>1 DEF RoundInv, Pending, Hopeless, Undisturbed, Unbroken
    <3> QED
      BY <3>1, <3>2
  <2> QED
    BY <2>1, <2>2 DEF ResolvesWhatLoads
<1> QED
  BY <1>1, WorklistKeepsInvariant, PTL

=============================================================================

-------------------------- MODULE NormalizerProofs --------------------------
(***************************************************************************)
(* The rules of Normalize keep the set of values an expression stands for, *)
(* whatever the operands they meet: however deep the expressions, however  *)
(* long the lists, whichever pairs the subsumption and the disjointness    *)
(* rules can prove.                                                        *)
(*                                                                         *)
(* Exprs are the expressions, Values the values.  Grammar says what an     *)
(* expression is made of, Knots that the operators that recurse obey the   *)
(* definitions Normalizer and SchemaIR give them, and Meaning that Accepts *)
(* does; all three hold of the finite expressions over any set of leaves.  *)
(***************************************************************************)
EXTENDS NormalizeLoop, FiniteSetTheorems, SequenceTheorems, WellFoundedInduction, TLAPS

CONSTANTS
  Exprs,             (* the expressions                                    *)
  Height(_),         (* of an expression                                   *)
  Discriminators,    (* what the last component of a union can be          *)
  Cell               (* what every `contains` of an expression points to   *)

Combinators == {"all", "anyOf", "exactlyOne"}
Numerics == {"AnyNumber", "IntegerOnly"}

(* The parts of an expression are smaller than it is, and every expression *)
(* that the rules put together is one.                                     *)
Grammar ==
  /\ \A e \in Exprs : Height(e) \in Nat
  /\ \A e \in Exprs : e[1] \in Combinators =>
       e[2] \in Seq(Exprs) /\ \A i \in DOMAIN e[2] : Height(e[2][i]) < Height(e)
  /\ \A e \in Exprs : e[1] \in {"anyOf", "exactlyOne"} => e[3] \in Discriminators
  /\ \A e \in Exprs : e[1] = "not" => e[2] \in Exprs /\ Height(e[2]) < Height(e)
  /\ \A e \in Exprs : e[1] = "kinds" => e = <<"kinds", e[2], e[3]>> /\ e[3] \in Numerics
  /\ \A e \in Exprs : e[1] = "minimum" => e[2] \in Int
  /\ \A e \in Exprs : e[1] = "literal" => e = <<"literal", e[2]>>
  /\ Anything \in Exprs
  /\ \A why \in BOOLEAN : Never(why) \in Exprs
  /\ \A ks \in SUBSET AllKinds, n \in Numerics : <<"kinds", ks, n>> \in Exprs
  /\ \A e \in Exprs : <<"not", e>> \in Exprs
  /\ \A es \in Seq(Exprs) : <<"all", es>> \in Exprs
  /\ \A es \in Seq(Exprs), d \in Discriminators :
       <<"anyOf", es, d>> \in Exprs /\ <<"exactlyOne", es, d>> \in Exprs

Knots ==
  /\ \A e \in Exprs : PureKinds(e) = PureKindsBy(e)
  /\ \A e \in Exprs : Kinds(e) = KindsBy(e)
  /\ \A e \in Exprs : AsKinds(e) = AsKindsBy(e)
  /\ \A es \in Seq(Exprs) : FlattenAll(es) = FlattenAllBy(es)
  /\ \A es \in Seq(Exprs) : FlattenAnyOf(es) = FlattenAnyOfBy(es)
  /\ \A a, b \in Exprs : Subsumes(a, b) <=> SubsumesBy(a, b)
  /\ \A a, b \in Exprs : Disjoint(a, b) <=> DisjointBy(a, b)

(* A predicate accepts what it does not look at, and a reference only the  *)
(* kinds Compile has found its target to accept.                           *)
Meaning ==
  /\ \A v \in Values : KindOf(v) \in AllKinds /\ (KindOf(v) = "number" => v[2] \in Int)
  /\ \A e \in Exprs, v \in Values :
       e[1] \in Combinators \cup {"any", "never", "kinds", "literal", "minimum", "not"} =>
         (Accepts(e, Cell, v) <=> AcceptsBy(e, Cell, v))
  /\ \A e \in Exprs, v \in Values :
       IsPredicate(e) /\ KindOf(v) \notin Guard(e) => Accepts(e, Cell, v)
  /\ \A e \in Exprs, v \in Values :
       e[1] = "ref" /\ Accepts(e, Cell, v) => KindOf(v) \in e[3]

Language == Grammar /\ Knots /\ Meaning

In(e, v) == Accepts(e, Cell, v)
AllOf(es, v) == \A i \in DOMAIN es : In(es[i], v)
AnyOf(es, v) == \E i \in DOMAIN es : In(es[i], v)
OneOf(es, v) == \E i \in DOMAIN es : In(es[i], v) /\ \A j \in DOMAIN es \ {i} : ~ In(es[j], v)

-----------------------------------------------------------------------------
(* Numbers and sequences.                                                  *)

(* A set of numbers has a least one.                                       *)
LEMMA HasLeast ==
  ASSUME NEW S \in SUBSET Nat, S # {}
  PROVE  \E x \in S : \A y \in S : x <= y
<1>1. PICK x \in S : \A y \in S : <<y, x>> \notin OpToRel(<, Nat)
  BY NatLessThanWellFounded, WFMin
<1>2. ASSUME NEW y \in S PROVE x <= y
  <2>1. x \in Nat /\ y \in Nat
    OBVIOUS
  <2>2. y < x => <<y, x>> \in OpToRel(<, Nat)
    BY <2>1 DEF OpToRel
  <2>3. <<y, x>> \notin OpToRel(<, Nat)
    BY <1>1
  <2>4. ~ (y < x)
    BY <2>2, <2>3
  <2> QED
    BY <2>1, <2>4
<1> QED
  BY <1>2

LEMMA IndexesAreNumbers ==
  ASSUME NEW S, NEW es \in Seq(S)
  PROVE  /\ DOMAIN es = 1 .. Len(es) /\ Len(es) \in Nat
         /\ DOMAIN es \subseteq Nat /\ IsFiniteSet(DOMAIN es)
         /\ \A i \in DOMAIN es : es[i] \in S
<1>1. DOMAIN es = 1 .. Len(es) /\ Len(es) \in Nat /\ \A i \in DOMAIN es : es[i] \in S
  OBVIOUS
<1> QED
  BY <1>1, FS_Interval

(* The numbers up to a member tell the members of a finite set apart.      *)
LEMMA RankIsBijective ==
  ASSUME NEW K \in SUBSET Nat, IsFiniteSet(K)
  PROVE  LET rank == [i \in K |-> Cardinality({j \in K : j <= i})]
         IN  /\ Cardinality(K) \in Nat
             /\ rank \in [K -> 1 .. Cardinality(K)]
             /\ \A i, k \in K : i < k => rank[i] < rank[k]
             /\ \A n \in 1 .. Cardinality(K) : \E i \in K : rank[i] = n
<1> DEFINE Upto(i) == {j \in K : j <= i}
           N == Cardinality(K)
           rank == [i \in K |-> Cardinality(Upto(i))]
<1>1. N \in Nat
  BY FS_CardinalityType
<1>2. ASSUME NEW i \in K
      PROVE  IsFiniteSet(Upto(i)) /\ Cardinality(Upto(i)) \in 1 .. N
  <2>1. IsFiniteSet(Upto(i)) /\ Cardinality(Upto(i)) <= N
    BY FS_Subset
  <2>2. Cardinality(Upto(i)) \in Nat
    BY <2>1, FS_CardinalityType
  <2>3. i \in Upto(i)
    OBVIOUS
  <2>4. Cardinality(Upto(i)) # 0
    BY <2>1, <2>3, FS_EmptySet
  <2> QED
    BY <1>1, <2>1, <2>2, <2>4
<1>3. ASSUME NEW i \in K, NEW k \in K, i < k
      PROVE  rank[i] < rank[k]
  <2>1. i \in Nat /\ k \in Nat
    OBVIOUS
  <2>2. Upto(i) \subseteq Upto(k)
    <3> SUFFICES ASSUME NEW j \in K, j <= i PROVE j <= k
      OBVIOUS
    <3>1. j \in Nat
      OBVIOUS
    <3> QED
      BY <1>3, <2>1, <3>1
  <2>3. k \in Upto(k) /\ k \notin Upto(i)
    BY <1>3, <2>1
  <2>4. Cardinality(Upto(i)) <= Cardinality(Upto(k)) /\ Cardinality(Upto(i)) # Cardinality(Upto(k))
    BY <1>2, <2>2, <2>3, FS_Subset
  <2>5. Cardinality(Upto(i)) \in Int /\ Cardinality(Upto(k)) \in Int
    BY <1>1, <1>2
  <2> QED
    BY <2>4, <2>5
<1>4. rank \in [K -> 1 .. N]
  BY <1>2
<1>5. rank \in Injection(K, 1 .. N)
  <2> SUFFICES ASSUME NEW i \in K, NEW k \in K, i # k PROVE rank[i] # rank[k]
    BY <1>4 DEF Injection, IsInjective
  <2>1. i < k \/ k < i
    OBVIOUS
  <2>2. rank[i] \in Int /\ rank[k] \in Int
    BY <1>1, <1>2
  <2> QED
    BY <1>3, <2>1, <2>2
<1>6. rank \in Surjection(K, 1 .. N)
  <2>1. IsFiniteSet(1 .. N) /\ Cardinality(1 .. N) = N
    BY <1>1, FS_Interval
  <2> HIDE DEF rank
  <2> QED
    BY <1>5, <2>1, FS_Injection
<1>7. \A n \in 1 .. N : \E i \in K : rank[i] = n
  BY <1>6 DEF Surjection
<1> QED
  BY <1>1, <1>3, <1>4, <1>7

(* Where the elements of es at kept are in left.                           *)
Renumbers(rank, es, kept, left) ==
  /\ rank \in [kept -> DOMAIN left]
  /\ \A i \in kept : left[rank[i]] = es[i]
  /\ \A i, k \in kept : i < k => rank[i] < rank[k]
  /\ \A n \in DOMAIN left : \E i \in kept : rank[i] = n

(* What is left of a list, position by position.                           *)
LEMMA WithoutKeeps ==
  ASSUME NEW S, NEW es \in Seq(S), NEW drop
  PROVE  /\ Without(es, drop) \in Seq(S)
         /\ \E rank : Renumbers(rank, es, DOMAIN es \ drop, Without(es, drop))
<1> DEFINE K == DOMAIN es \ drop
           N == Cardinality(K)
           rank == [i \in K |-> Cardinality({j \in K : j <= i})]
           At(n) == CHOOSE i \in K : Cardinality({j \in K : j <= i}) = n
<1>1. K \in SUBSET Nat /\ IsFiniteSet(K) /\ \A i \in K : es[i] \in S
  BY IndexesAreNumbers, FS_Difference
<1>2. /\ N \in Nat
      /\ rank \in [K -> 1 .. N]
      /\ \A i, k \in K : i < k => rank[i] < rank[k]
      /\ \A n \in 1 .. N : \E i \in K : rank[i] = n
  <2> HIDE DEF K
  <2> QED
    BY <1>1, RankIsBijective
<1>3. \A i \in K : rank[i] = Cardinality({j \in K : j <= i})
  OBVIOUS
<1>4. Without(es, drop) = [n \in 1 .. N |-> es[At(n)]]
  BY DEF Without
<1> HIDE DEF K, rank, N
<1>5. ASSUME NEW n \in 1 .. N PROVE At(n) \in K /\ rank[At(n)] = n
  <2>1. PICK i \in K : rank[i] = n
    BY <1>2
  <2>2. Cardinality({j \in K : j <= i}) = n
    BY <1>3, <2>1
  <2>3. At(n) \in K /\ Cardinality({j \in K : j <= At(n)}) = n
    BY <2>2
  <2> QED
    BY <1>3, <2>3
<1> HIDE DEF At
<1>6. ASSUME NEW i \in K PROVE At(rank[i]) = i
  <2>1. rank[i] \in 1 .. N
    BY <1>2
  <2>2. At(rank[i]) \in K /\ rank[At(rank[i])] = rank[i]
    BY <1>5, <2>1
  <2>3. i \in Nat /\ At(rank[i]) \in Nat
    BY <1>1, <2>2
  <2>4. ~ (At(rank[i]) < i) /\ ~ (i < At(rank[i]))
    BY <1>2, <2>1, <2>2
  <2> QED
    BY <2>3, <2>4
<1>7. Without(es, drop) \in [1 .. N -> S]
  BY <1>1, <1>4, <1>5
<1>8. Without(es, drop) \in Seq(S) /\ DOMAIN Without(es, drop) = 1 .. N
  BY <1>2, <1>7
<1>9. \A i \in K : Without(es, drop)[rank[i]] = es[i]
  BY <1>2, <1>4, <1>6
<1>10. Renumbers(rank, es, K, Without(es, drop))
  BY <1>2, <1>8, <1>9 DEF Renumbers
<1> QED
  BY <1>8, <1>10 DEF K

(* left holds the elements of es at kept, and no others.                   *)
Selects(left, es, kept) ==
  /\ \A i \in kept : \E n \in DOMAIN left : left[n] = es[i]
  /\ \A n \in DOMAIN left : \E i \in kept : left[n] = es[i]

LEMMA WithoutHolds ==
  ASSUME NEW S, NEW es \in Seq(S), NEW drop
  PROVE  /\ Without(es, drop) \in Seq(S)
         /\ Selects(Without(es, drop), es, DOMAIN es \ drop)
<1>1. PICK rank : Renumbers(rank, es, DOMAIN es \ drop, Without(es, drop))
  BY WithoutKeeps
<1>2. ASSUME NEW i \in DOMAIN es \ drop
      PROVE  rank[i] \in DOMAIN Without(es, drop) /\ Without(es, drop)[rank[i]] = es[i]
  BY <1>1 DEF Renumbers
<1>3. \A i \in DOMAIN es \ drop : \E n \in DOMAIN Without(es, drop) : Without(es, drop)[n] = es[i]
  BY <1>2
<1>4. \A n \in DOMAIN Without(es, drop) : \E i \in DOMAIN es \ drop : Without(es, drop)[n] = es[i]
  BY <1>1, <1>2 DEF Renumbers
<1>5. Without(es, drop) \in Seq(S)
  BY WithoutKeeps
<1> QED
  BY <1>3, <1>4, <1>5 DEF Selects

(* f holds what the step g makes of a, up to n times.                      *)
Repeats(f, S, a, n, g) ==
  /\ f \in [0 .. n -> S]
  /\ f[0] = a
  /\ \A k \in 1 .. n : f[k] = g[<<f[k - 1], k>>]

LEMMA StepsExist ==
  ASSUME NEW S, NEW a \in S, NEW n \in Nat, NEW g \in [S \X (1 .. n) -> S]
  PROVE  \E f : Repeats(f, S, a, n, g)
<1> DEFINE Takes(m) == \E f \in [0 .. m -> S] : f[0] = a /\ \A k \in 1 .. m : f[k] = g[<<f[k - 1], k>>]
           Bad == {m \in 0 .. n : ~ Takes(m)}
<1>1. Takes(0)
  <2>1. [k \in 0 .. 0 |-> a] \in [0 .. 0 -> S] /\ [k \in 0 .. 0 |-> a][0] = a
    OBVIOUS
  <2>2. \A k \in 1 .. 0 : FALSE
    OBVIOUS
  <2> QED
    BY <2>1, <2>2
<1>2. ASSUME NEW m \in 1 .. n, Takes(m - 1)
      PROVE  Takes(m)
  <2>1. m \in Nat /\ m - 1 \in 0 .. m - 1 /\ m - 1 # m /\ m # 0
    OBVIOUS
  <2>2. PICK f \in [0 .. m - 1 -> S] : f[0] = a /\ \A k \in 1 .. m - 1 : f[k] = g[<<f[k - 1], k>>]
    BY <1>2
  <2> DEFINE h == [k \in 0 .. m |-> IF k = m THEN g[<<f[m - 1], m>>] ELSE f[k]]
  <2>3. f[m - 1] \in S
    BY <2>1
  <2>4. g[<<f[m - 1], m>>] \in S
    BY <2>3
  <2>5. h \in [0 .. m -> S]
    BY <2>1, <2>4
  <2>6. h[0] = a
    BY <2>1, <2>2
  <2>7. h[m] = g[<<h[m - 1], m>>]
    BY <2>1
  <2>8. ASSUME NEW k \in 1 .. m - 1 PROVE h[k] = g[<<h[k - 1], k>>]
    <3>1. k \in 0 .. m /\ k # m /\ k - 1 \in 0 .. m /\ k - 1 # m
      BY <2>1
    <3> QED
      BY <2>2, <3>1
  <2>9. \A k \in 1 .. m : k = m \/ k \in 1 .. m - 1
    BY <2>1
  <2> HIDE DEF h
  <2> QED
    BY <2>5, <2>6, <2>7, <2>8, <2>9
<1> HIDE DEF Takes
<1>3. ASSUME Bad # {} PROVE FALSE
  <2>1. Bad \in SUBSET Nat
    OBVIOUS
  <2>2. PICK m \in Bad : \A k \in Bad : m <= k
    BY <1>3, <2>1, HasLeast
  <2>3. m \in 0 .. n /\ ~ Takes(m)
    OBVIOUS
  <2>4. m # 0
    BY <1>1, <2>3
  <2>5. m \in 1 .. n /\ m - 1 \in 0 .. n /\ ~ (m <= m - 1)
    BY <2>3, <2>4
  <2>6. Takes(m - 1)
    BY <2>2, <2>5
  <2> QED
    BY <1>2, <2>3, <2>5, <2>6
<1>4. n \in 0 .. n /\ n \notin Bad
  BY <1>3
<1>5. Takes(n)
  BY <1>4
<1> QED
  BY <1>5 DEF Takes, Repeats

-----------------------------------------------------------------------------
(* What the forms of an expression stand for.                              *)

LEMMA OneOfIsOne ==
  ASSUME NEW S, NEW es \in Seq(S), NEW v
  PROVE  Cardinality({i \in DOMAIN es : In(es[i], v)}) = 1 <=> OneOf(es, v)
<1> DEFINE T == {i \in DOMAIN es : In(es[i], v)}
<1>1. IsFiniteSet(T)
  BY IndexesAreNumbers, FS_Subset
<1>2. Cardinality(T) = 1 <=> \E i : T = {i}
  BY <1>1, FS_Singleton
<1>3. (\E i : T = {i}) => OneOf(es, v)
  <2> SUFFICES ASSUME NEW i, T = {i} PROVE OneOf(es, v)
    OBVIOUS
  <2>1. i \in DOMAIN es /\ In(es[i], v)
    OBVIOUS
  <2>2. \A j \in DOMAIN es \ {i} : ~ In(es[j], v)
    OBVIOUS
  <2> QED
    BY <2>1, <2>2 DEF OneOf
<1>4. OneOf(es, v) => \E i : T = {i}
  <2> SUFFICES ASSUME NEW i \in DOMAIN es, In(es[i], v), \A j \in DOMAIN es \ {i} : ~ In(es[j], v)
               PROVE  T = {i}
    BY DEF OneOf
  <2> QED
    OBVIOUS
<1> QED
  BY <1>2, <1>3, <1>4

LEMMA Meanings ==
  ASSUME Language, NEW e \in Exprs, NEW v \in Values
  PROVE  /\ e[1] = "any" => In(e, v)
         /\ e[1] = "never" => ~ In(e, v)
         /\ e[1] = "kinds" =>
              (In(e, v) <=> /\ KindOf(v) \in e[2]
                            /\ KindOf(v) = "number" /\ e[3] = "IntegerOnly" => IsInteger(v))
         /\ e[1] = "literal" => (In(e, v) <=> v = e[2])
         /\ e[1] = "minimum" => (In(e, v) <=> (KindOf(v) = "number" => v[2] >= e[2]))
         /\ e[1] = "all" => (In(e, v) <=> AllOf(e[2], v))
         /\ e[1] = "anyOf" => (In(e, v) <=> AnyOf(e[2], v))
         /\ e[1] = "exactlyOne" => (In(e, v) <=> OneOf(e[2], v))
         /\ e[1] = "not" => (In(e, v) <=> ~ In(e[2], v))
<1>1. e[1] \in Combinators \cup {"any", "never", "kinds", "literal", "minimum", "not"} =>
        (In(e, v) <=> AcceptsBy(e, Cell, v))
  BY DEF Language, Meaning, In
<1>2. e[1] \in {"any", "never", "kinds", "literal", "minimum"} =>
         (In(e, v) <=> AcceptsBy(e, Cell, v))
  BY <1>1
<1>3. e[1] = "all" => (In(e, v) <=> AllOf(e[2], v))
  BY <1>1 DEF AcceptsBy, Combinators, AllOf, In
<1>4. e[1] = "anyOf" => (In(e, v) <=> AnyOf(e[2], v))
  BY <1>1 DEF AcceptsBy, Combinators, AnyOf, In
<1>5. ASSUME e[1] = "exactlyOne" PROVE In(e, v) <=> OneOf(e[2], v)
  <2>1. In(e, v) <=> Cardinality({i \in DOMAIN e[2] : In(e[2][i], v)}) = 1
    BY <1>1, <1>5 DEF AcceptsBy, Combinators, In
  <2>2. e[2] \in Seq(Exprs)
    BY <1>5 DEF Language, Grammar, Combinators
  <2> QED
    BY <2>1, <2>2, OneOfIsOne
<1>6. e[1] = "not" => (In(e, v) <=> ~ In(e[2], v))
  BY <1>1 DEF AcceptsBy, In
<1>7. e[1] = "any" => In(e, v)
  BY <1>2 DEF AcceptsBy
<1>8. e[1] = "never" => ~ In(e, v)
  BY <1>2 DEF AcceptsBy
<1>9. e[1] = "kinds" =>
              (In(e, v) <=> /\ KindOf(v) \in e[2]
                            /\ KindOf(v) = "number" /\ e[3] = "IntegerOnly" => IsInteger(v))
  BY <1>2 DEF AcceptsBy
<1>10. e[1] = "literal" => (In(e, v) <=> v = e[2])
  BY <1>2 DEF AcceptsBy
<1>11. e[1] = "minimum" => (In(e, v) <=> (KindOf(v) = "number" => v[2] >= e[2]))
  BY <1>2 DEF AcceptsBy
<1> QED
  BY <1>3, <1>4, <1>5, <1>6, <1>7, <1>8, <1>9, <1>10, <1>11

(* The parts of a combinator are expressions smaller than it.              *)
LEMMA PartsAreSmaller ==
  ASSUME Language, NEW e \in Exprs
  PROVE  /\ Height(e) \in Nat
         /\ e[1] \in Combinators =>
              /\ e[2] \in Seq(Exprs)
              /\ \A i \in DOMAIN e[2] : e[2][i] \in Exprs /\ Height(e[2][i]) < Height(e)
         /\ e[1] = "not" => e[2] \in Exprs /\ Height(e[2]) < Height(e)
<1>1. e[1] \in Combinators =>
        e[2] \in Seq(Exprs) /\ \A i \in DOMAIN e[2] : Height(e[2][i]) < Height(e)
  BY DEF Language, Grammar
<1>2. e[1] \in Combinators => \A i \in DOMAIN e[2] : e[2][i] \in Exprs
  BY <1>1, IndexesAreNumbers
<1>3. Height(e) \in Nat /\ (e[1] = "not" => e[2] \in Exprs /\ Height(e[2]) < Height(e))
  BY DEF Language, Grammar
<1> QED
  BY <1>1, <1>2, <1>3

(* Of a set of expressions that is not empty, one is no higher than any.   *)
LEMMA HasSmallest ==
  ASSUME Language, NEW S \in SUBSET Exprs, S # {}
  PROVE  \E e \in S : \A f \in S : ~ (Height(f) < Height(e))
<1> DEFINE H == {Height(e) : e \in S}
<1>1. H \in SUBSET Nat /\ H # {}
  BY PartsAreSmaller
<1>2. PICK n \in H : \A m \in H : n <= m
  BY <1>1, HasLeast
<1>3. PICK e \in S : Height(e) = n
  BY <1>2
<1>4. \A f \in S : Height(f) \in H /\ Height(f) \in Nat
  BY PartsAreSmaller
<1>5. n \in Nat
  BY <1>1, <1>2
<1> HIDE DEF H
<1> QED
  BY <1>2, <1>3, <1>4, <1>5

-----------------------------------------------------------------------------
(* What the rules can prove of one expression, and of two.                 *)

(* A lone operand of a conjunction stands for the conjunction.             *)
LEMMA LoneOperand ==
  ASSUME Language, NEW e \in Exprs, e[1] = "all", Len(e[2]) = 1, NEW v \in Values
  PROVE  /\ e[2][1] \in Exprs /\ Height(e[2][1]) < Height(e)
         /\ In(e, v) <=> In(e[2][1], v)
<1>1. e[2] \in Seq(Exprs) /\ DOMAIN e[2] = {1}
  BY PartsAreSmaller, IndexesAreNumbers DEF Combinators
<1>2. e[2][1] \in Exprs /\ Height(e[2][1]) < Height(e)
  BY <1>1, PartsAreSmaller DEF Combinators
<1>3. In(e, v) <=> In(e[2][1], v)
  BY <1>1, Meanings DEF AllOf
<1> QED
  BY <1>2, <1>3

(* An expression with pure kinds is a restriction to them and no more.     *)
LEMMA PureKindsAreExact ==
  ASSUME Language
  PROVE  \A e \in Exprs : \A ks \in PureKinds(e), v \in Values : In(e, v) <=> KindOf(v) \in ks
<1> DEFINE Exact(e) == \A ks \in PureKinds(e), v \in Values : In(e, v) <=> KindOf(v) \in ks
           Bad == {e \in Exprs : ~ Exact(e)}
<1>1. ASSUME NEW e \in Exprs, \A f \in Exprs : Height(f) < Height(e) => Exact(f)
      PROVE  Exact(e)
  <2> SUFFICES ASSUME NEW ks \in PureKinds(e), NEW v \in Values
               PROVE  In(e, v) <=> KindOf(v) \in ks
    OBVIOUS
  <2>1. ks \in PureKindsBy(e)
    BY DEF Language, Knots
  <2>2. KindOf(v) \in AllKinds
    BY DEF Language, Meaning
  <2>3. CASE e[1] = "any"
    BY <2>1, <2>2, <2>3, Meanings DEF PureKindsBy
  <2>4. CASE e[1] = "never"
    BY <2>1, <2>4, Meanings DEF PureKindsBy
  <2>5. CASE e[1] = "kinds"
    <3>1. e[3] = "AnyNumber" /\ ks = e[2]
      BY <2>1, <2>5 DEF PureKindsBy, Unrefined
    <3> QED
      BY <2>5, <3>1, Meanings
  <2>6. CASE e[1] = "all"
    <3>1. Len(e[2]) = 1 /\ ks \in PureKinds(e[2][1])
      BY <2>1, <2>6 DEF PureKindsBy
    <3>2. e[2][1] \in Exprs /\ Height(e[2][1]) < Height(e) /\ (In(e, v) <=> In(e[2][1], v))
      BY <2>6, <3>1, LoneOperand
    <3> QED
      BY <1>1, <3>1, <3>2
  <2>7. CASE e[1] \notin {"any", "never", "kinds", "all"}
    BY <2>1, <2>7 DEF PureKindsBy
  <2> QED
    BY <2>3, <2>4, <2>5, <2>6, <2>7
<1> HIDE DEF Exact
<1>2. ASSUME Bad # {} PROVE FALSE
  <2>1. PICK e \in Bad : \A f \in Bad : ~ (Height(f) < Height(e))
    BY <1>2, HasSmallest
  <2> QED
    BY <1>1, <2>1
<1> QED
  BY <1>2 DEF Exact

(* ir.Kinds never misses a kind: an expression accepts only values of the  *)
(* kinds it is given, the complement of a restriction included.            *)
THEOREM KindsAreSound ==
  ASSUME Language
  PROVE  \A e \in Exprs, v \in Values : In(e, v) => KindOf(v) \in Kinds(e)
<1> DEFINE Sound(e) == \A v \in Values : In(e, v) => KindOf(v) \in Kinds(e)
           Bad == {e \in Exprs : ~ Sound(e)}
<1>1. ASSUME NEW e \in Exprs, \A f \in Exprs : Height(f) < Height(e) => Sound(f)
      PROVE  Sound(e)
  <2> SUFFICES ASSUME NEW v \in Values, In(e, v)
               PROVE  KindOf(v) \in Kinds(e)
    OBVIOUS
  <2>1. Kinds(e) = KindsBy(e)
    BY DEF Language, Knots
  <2>2. KindOf(v) \in AllKinds
    BY DEF Language, Meaning
  <2>3. CASE e[1] = "never"
    BY <2>3, Meanings
  <2>4. CASE e[1] = "kinds"
    <3>1. Kinds(e) = e[2]
      BY <2>1, <2>4 DEF KindsBy
    <3> QED
      BY <2>4, <3>1, Meanings
  <2>5. CASE e[1] = "literal"
    <3>1. Kinds(e) = {KindOf(e[2])}
      BY <2>1, <2>5 DEF KindsBy
    <3>2. v = e[2]
      BY <2>5, Meanings
    <3> QED
      BY <3>1, <3>2
  <2>6. CASE e[1] = "ref"
    <3>1. Kinds(e) = e[3]
      BY <2>1, <2>6 DEF KindsBy
    <3> QED
      BY <2>6, <3>1 DEF Language, Meaning, In
  <2>7. CASE e[1] = "all"
    <3>1. Kinds(e) = Common({Kinds(e[2][i]) : i \in DOMAIN e[2]})
      BY <2>1, <2>7 DEF KindsBy
    <3>2. ASSUME NEW i \in DOMAIN e[2] PROVE KindOf(v) \in Kinds(e[2][i])
      <4>1. In(e[2][i], v)
        BY <2>7, Meanings DEF AllOf
      <4>2. e[2][i] \in Exprs /\ Height(e[2][i]) < Height(e)
        BY <2>7, PartsAreSmaller DEF Combinators
      <4> QED
        BY <1>1, <4>1, <4>2
    <3> QED
      BY <2>2, <3>1, <3>2 DEF Common
  <2>8. CASE e[1] \in {"anyOf", "exactlyOne"}
    <3>1. Kinds(e) = UNION {Kinds(e[2][i]) : i \in DOMAIN e[2]}
      BY <2>1, <2>8 DEF KindsBy
    <3>2. PICK i \in DOMAIN e[2] : In(e[2][i], v)
      BY <2>8, Meanings DEF AnyOf, OneOf
    <3>3. e[2][i] \in Exprs /\ Height(e[2][i]) < Height(e)
      BY <2>8, PartsAreSmaller DEF Combinators
    <3>4. KindOf(v) \in Kinds(e[2][i])
      BY <1>1, <3>2, <3>3
    <3> QED
      BY <3>1, <3>4
  <2>9. CASE e[1] = "not"
    <3>1. Kinds(e) = AllKinds \ UNION PureKinds(e[2])
      BY <2>1, <2>9 DEF KindsBy
    <3>2. ~ In(e[2], v) /\ e[2] \in Exprs
      BY <2>9, Meanings, PartsAreSmaller
    <3>3. \A ks \in PureKinds(e[2]) : KindOf(v) \notin ks
      BY <3>2, PureKindsAreExact
    <3> QED
      BY <2>2, <3>1, <3>3
  <2>10. CASE e[1] \notin {"never", "kinds", "literal", "ref", "all", "anyOf", "exactlyOne", "not"}
    <3>1. Kinds(e) = AllKinds
      BY <2>1, <2>10 DEF KindsBy
    <3> QED
      BY <2>2, <3>1
  <2> QED
    BY <2>3, <2>4, <2>5, <2>6, <2>7, <2>8, <2>9, <2>10
<1> HIDE DEF Sound
<1>2. ASSUME Bad # {} PROVE FALSE
  <2>1. PICK e \in Bad : \A f \in Bad : ~ (Height(f) < Height(e))
    BY <1>2, HasSmallest
  <2> QED
    BY <1>1, <2>1
<1> QED
  BY <1>2 DEF Sound

(* The Kinds that an expression amounts to accepts the same values.        *)
LEMMA AsKindsAreExact ==
  ASSUME Language
  PROVE  \A e \in Exprs : \A x \in AsKinds(e) :
           /\ x \in Exprs /\ x[1] = "kinds"
           /\ \A v \in Values : In(e, v) <=> In(x, v)
<1> DEFINE Exact(e) == \A x \in AsKinds(e) :
             /\ x \in Exprs /\ x[1] = "kinds"
             /\ \A v \in Values : In(e, v) <=> In(x, v)
           Bad == {e \in Exprs : ~ Exact(e)}
<1>1. ASSUME NEW e \in Exprs, \A f \in Exprs : Height(f) < Height(e) => Exact(f)
      PROVE  Exact(e)
  <2> SUFFICES ASSUME NEW x \in AsKinds(e)
               PROVE  /\ x \in Exprs /\ x[1] = "kinds"
                      /\ \A v \in Values : In(e, v) <=> In(x, v)
    OBVIOUS
  <2>1. x \in AsKindsBy(e)
    BY DEF Language, Knots
  <2>2. CASE e[1] = "kinds"
    BY <2>1, <2>2 DEF AsKindsBy
  <2>3. CASE e[1] = "any"
    <3>1. x = <<"kinds", AllKinds, "AnyNumber">>
      BY <2>1, <2>3 DEF AsKindsBy
    <3>2. x \in Exprs
      BY <3>1 DEF Language, Grammar, Numerics
    <3>3. \A v \in Values : KindOf(v) \in AllKinds
      BY DEF Language, Meaning
    <3> QED
      BY <2>3, <3>1, <3>2, <3>3, Meanings
  <2>4. CASE e[1] = "never"
    <3>1. x = <<"kinds", {}, "AnyNumber">>
      BY <2>1, <2>4 DEF AsKindsBy
    <3>2. x \in Exprs
      BY <3>1 DEF Language, Grammar, Numerics
    <3> QED
      BY <2>4, <3>1, <3>2, Meanings
  <2>5. CASE e[1] = "all"
    <3>1. Len(e[2]) = 1 /\ x \in AsKinds(e[2][1])
      BY <2>1, <2>5 DEF AsKindsBy
    <3>2. /\ e[2] \in Seq(Exprs) /\ 1 \in DOMAIN e[2]
          /\ e[2][1] \in Exprs /\ Height(e[2][1]) < Height(e)
      BY <2>5, <3>1, PartsAreSmaller, IndexesAreNumbers DEF Combinators
    <3>3. \A v \in Values : In(e, v) <=> In(e[2][1], v)
      BY <2>5, <3>1, LoneOperand
    <3> QED
      BY <1>1, <3>1, <3>2, <3>3
  <2>6. CASE e[1] \notin {"any", "never", "kinds", "all"}
    BY <2>1, <2>6 DEF AsKindsBy
  <2> QED
    BY <2>2, <2>3, <2>4, <2>5, <2>6
<1> HIDE DEF Exact
<1>2. ASSUME Bad # {} PROVE FALSE
  <2>1. PICK e \in Bad : \A f \in Bad : ~ (Height(f) < Height(e))
    BY <1>2, HasSmallest
  <2> QED
    BY <1>1, <2>1
<1> QED
  BY <1>2 DEF Exact


(* The same of a set of pairs, by the two heights together.                *)
LEMMA HasSmallestPair ==
  ASSUME Language, NEW S \in SUBSET (Exprs \X Exprs), S # {}
  PROVE  \E p \in S : \A q \in S : ~ (Height(q[1]) + Height(q[2]) < Height(p[1]) + Height(p[2]))
<1> DEFINE H == {Height(p[1]) + Height(p[2]) : p \in S}
<1>1. \A p \in S : p[1] \in Exprs /\ p[2] \in Exprs
  OBVIOUS
<1>2. \A p \in S : Height(p[1]) \in Nat /\ Height(p[2]) \in Nat
  BY <1>1, PartsAreSmaller
<1>3. H \in SUBSET Nat /\ H # {}
  BY <1>2
<1>4. PICK n \in H : \A m \in H : n <= m
  BY <1>3, HasLeast
<1>5. PICK p \in S : Height(p[1]) + Height(p[2]) = n
  BY <1>4
<1>6. \A q \in S : Height(q[1]) + Height(q[2]) \in H /\ Height(q[1]) + Height(q[2]) \in Nat
  BY <1>2
<1>7. n \in Nat
  BY <1>3, <1>4
<1> HIDE DEF H
<1>8. \A q \in S : n <= Height(q[1]) + Height(q[2])
  BY <1>4, <1>6
<1> QED
  BY <1>5, <1>6, <1>7, <1>8

LEMMA KindsSubsumeIsSound ==
  ASSUME Language, NEW a \in Exprs, NEW b \in Exprs, a[1] = "kinds", b[1] = "kinds",
         KindsSubsume(a, b), NEW v \in Values, In(a, v)
  PROVE  In(b, v)
<1>1. /\ KindOf(v) \in a[2]
      /\ KindOf(v) = "number" /\ a[3] = "IntegerOnly" => IsInteger(v)
  BY Meanings
<1>2. KindOf(v) \in b[2] /\ (KindOf(v) = "number" => b[3] \in {a[3], "AnyNumber"})
  BY <1>1 DEF KindsSubsume
<1>3. KindOf(v) = "number" /\ b[3] = "IntegerOnly" => IsInteger(v)
  BY <1>1, <1>2
<1> QED
  BY <1>2, <1>3, Meanings

(* Where the rules find that b subsumes a, every value of a is one of b:   *)
(* dropping the weaker of two operands of a conjunction, or the stronger   *)
(* of two of a union, loses nothing.                                       *)
THEOREM SubsumesIsSound ==
  ASSUME Language
  PROVE  \A a, b \in Exprs : Subsumes(a, b) => \A v \in Values : In(a, v) => In(b, v)
<1> DEFINE Sound(a, b) == Subsumes(a, b) => \A v \in Values : In(a, v) => In(b, v)
           Bad == {p \in Exprs \X Exprs : ~ Sound(p[1], p[2])}
<1>1. ASSUME NEW a \in Exprs, NEW b \in Exprs,
             \A c, d \in Exprs : Height(c) + Height(d) < Height(a) + Height(b) => Sound(c, d)
      PROVE  Sound(a, b)
  <2> SUFFICES ASSUME Subsumes(a, b), NEW v \in Values, In(a, v)
               PROVE  In(b, v)
    OBVIOUS
  <2>1. SubsumesBy(a, b)
    BY DEF Language, Knots
  <2>2. Height(a) \in Nat /\ Height(b) \in Nat
    BY PartsAreSmaller
  <2>3. ASSUME NEW c \in Exprs, Height(c) < Height(a)
        PROVE  Sound(c, b)
    <3>1. Height(c) \in Nat
      BY PartsAreSmaller
    <3> QED
      BY <1>1, <2>2, <2>3, <3>1
  <2>4. ASSUME NEW d \in Exprs, Height(d) < Height(b)
        PROVE  Sound(a, d)
    <3>1. Height(d) \in Nat
      BY PartsAreSmaller
    <3> QED
      BY <1>1, <2>2, <2>4, <3>1
  <2>5. CASE a = b \/ a[1] = "never" \/ b[1] = "any"
    BY <2>5, Meanings
  <2>6. CASE \E x \in AsKinds(a), y \in AsKinds(b) : KindsSubsume(x, y)
    <3>1. PICK x \in AsKinds(a), y \in AsKinds(b) : KindsSubsume(x, y)
      BY <2>6
    <3>2. x \in Exprs /\ x[1] = "kinds" /\ In(x, v)
      BY AsKindsAreExact
    <3>3. y \in Exprs /\ y[1] = "kinds" /\ (In(b, v) <=> In(y, v))
      BY AsKindsAreExact
    <3> QED
      BY <3>1, <3>2, <3>3, KindsSubsumeIsSound
  <2>7. CASE a[1] = "minimum" /\ b[1] = "minimum" /\ a[2] >= b[2]
    <3>1. a[2] \in Int /\ b[2] \in Int /\ (KindOf(v) = "number" => v[2] \in Int)
      BY <2>7 DEF Language, Grammar, Meaning
    <3>2. KindOf(v) = "number" => v[2] >= a[2]
      BY <2>7, Meanings
    <3>3. KindOf(v) = "number" => v[2] >= b[2]
      BY <2>7, <3>1, <3>2
    <3> QED
      BY <2>7, <3>3, Meanings
  <2>8. CASE a[1] = "all" /\ \E i \in DOMAIN a[2] : Subsumes(a[2][i], b)
    <3>1. PICK i \in DOMAIN a[2] : Subsumes(a[2][i], b)
      BY <2>8
    <3>2. a[2][i] \in Exprs /\ Height(a[2][i]) < Height(a)
      BY <2>8, PartsAreSmaller DEF Combinators
    <3>3. In(a[2][i], v)
      BY <2>8, Meanings DEF AllOf
    <3> QED
      BY <2>3, <3>1, <3>2, <3>3
  <2>9. CASE b[1] = "all" /\ \A i \in DOMAIN b[2] : Subsumes(a, b[2][i])
    <3>1. ASSUME NEW i \in DOMAIN b[2] PROVE In(b[2][i], v)
      <4>1. b[2][i] \in Exprs /\ Height(b[2][i]) < Height(b)
        BY <2>9, PartsAreSmaller DEF Combinators
      <4> QED
        BY <2>4, <2>9, <4>1
    <3> QED
      BY <2>9, <3>1, Meanings DEF AllOf
  <2>10. CASE b[1] = "anyOf" /\ \E i \in DOMAIN b[2] : Subsumes(a, b[2][i])
    <3>1. PICK i \in DOMAIN b[2] : Subsumes(a, b[2][i])
      BY <2>10
    <3>2. b[2][i] \in Exprs /\ Height(b[2][i]) < Height(b)
      BY <2>10, PartsAreSmaller DEF Combinators
    <3>3. In(b[2][i], v)
      BY <2>4, <3>1, <3>2
    <3> QED
      BY <2>10, <3>3, Meanings DEF AnyOf
  <2> QED
    BY <2>1, <2>5, <2>6, <2>7, <2>8, <2>9, <2>10 DEF SubsumesBy
<1> HIDE DEF Sound
<1>2. ASSUME Bad # {} PROVE FALSE
  <2>1. PICK p \in Bad :
          \A q \in Bad : ~ (Height(q[1]) + Height(q[2]) < Height(p[1]) + Height(p[2]))
    <3>1. Bad \in SUBSET (Exprs \X Exprs)
      OBVIOUS
    <3> HIDE DEF Bad
    <3> QED
      BY <1>2, <3>1, HasSmallestPair
  <2>2. p[1] \in Exprs /\ p[2] \in Exprs /\ ~ Sound(p[1], p[2])
    OBVIOUS
  <2>3. ASSUME NEW c \in Exprs, NEW d \in Exprs,
               Height(c) + Height(d) < Height(p[1]) + Height(p[2])
        PROVE  Sound(c, d)
    <3>1. <<c, d>> \notin Bad
      BY <2>1, <2>3
    <3> QED
      BY <3>1
  <2> QED
    BY <1>1, <2>2, <2>3
<1>3. ASSUME NEW a \in Exprs, NEW b \in Exprs PROVE Sound(a, b)
  <2>1. <<a, b>> \notin Bad
    BY <1>2
  <2> QED
    BY <2>1
<1> QED
  BY <1>3 DEF Sound

(* Where the rules find two expressions disjoint, no value is in both: a   *)
(* oneOf of such alternatives is their union.                              *)
THEOREM DisjointIsSound ==
  ASSUME Language
  PROVE  \A a, b \in Exprs : Disjoint(a, b) => \A v \in Values : ~ (In(a, v) /\ In(b, v))
<1> DEFINE Sound(a, b) == Disjoint(a, b) => \A v \in Values : ~ (In(a, v) /\ In(b, v))
           Bad == {p \in Exprs \X Exprs : ~ Sound(p[1], p[2])}
<1>1. ASSUME NEW a \in Exprs, NEW b \in Exprs,
             \A c, d \in Exprs : Height(c) + Height(d) < Height(a) + Height(b) => Sound(c, d)
      PROVE  Sound(a, b)
  <2> SUFFICES ASSUME Disjoint(a, b), NEW v \in Values, In(a, v), In(b, v)
               PROVE  FALSE
    OBVIOUS
  <2>1. DisjointBy(a, b)
    BY DEF Language, Knots
  <2>2. Height(a) \in Nat /\ Height(b) \in Nat
    BY PartsAreSmaller
  <2>3. CASE Kinds(a) \cap Kinds(b) = {}
    BY <2>3, KindsAreSound
  <2>4. CASE a[1] = "literal" /\ b[1] = "literal" /\ a # b
    <3>1. a = <<"literal", a[2]>> /\ b = <<"literal", b[2]>>
      BY <2>4 DEF Language, Grammar
    <3>2. v = a[2] /\ v = b[2]
      BY <2>4, Meanings
    <3> QED
      BY <2>4, <3>1, <3>2
  <2>5. CASE a[1] = "anyOf" /\ \A i \in DOMAIN a[2] : Disjoint(a[2][i], b)
    <3>1. PICK i \in DOMAIN a[2] : In(a[2][i], v)
      BY <2>5, Meanings DEF AnyOf
    <3>2. a[2][i] \in Exprs /\ Height(a[2][i]) < Height(a) /\ Height(a[2][i]) \in Nat
      BY <2>5, PartsAreSmaller DEF Combinators
    <3>3. Sound(a[2][i], b)
      BY <1>1, <2>2, <3>2
    <3> QED
      BY <2>5, <3>1, <3>3
  <2>6. CASE b[1] = "anyOf" /\ \A i \in DOMAIN b[2] : Disjoint(a, b[2][i])
    <3>1. PICK i \in DOMAIN b[2] : In(b[2][i], v)
      BY <2>6, Meanings DEF AnyOf
    <3>2. b[2][i] \in Exprs /\ Height(b[2][i]) < Height(b) /\ Height(b[2][i]) \in Nat
      BY <2>6, PartsAreSmaller DEF Combinators
    <3>3. Sound(a, b[2][i])
      BY <1>1, <2>2, <3>2
    <3> QED
      BY <2>6, <3>1, <3>3
  <2> QED
    BY <2>1, <2>3, <2>4, <2>5, <2>6 DEF DisjointBy
<1> HIDE DEF Sound
<1>2. ASSUME Bad # {} PROVE FALSE
  <2>1. PICK p \in Bad :
          \A q \in Bad : ~ (Height(q[1]) + Height(q[2]) < Height(p[1]) + Height(p[2]))
    <3>1. Bad \in SUBSET (Exprs \X Exprs)
      OBVIOUS
    <3> HIDE DEF Bad
    <3> QED
      BY <1>2, <3>1, HasSmallestPair
  <2>2. p[1] \in Exprs /\ p[2] \in Exprs /\ ~ Sound(p[1], p[2])
    OBVIOUS
  <2>3. ASSUME NEW c \in Exprs, NEW d \in Exprs,
               Height(c) + Height(d) < Height(p[1]) + Height(p[2])
        PROVE  Sound(c, d)
    <3>1. <<c, d>> \notin Bad
      BY <2>1, <2>3
    <3> QED
      BY <3>1
  <2> QED
    BY <1>1, <2>2, <2>3
<1>3. ASSUME NEW a \in Exprs, NEW b \in Exprs PROVE Sound(a, b)
  <2>1. <<a, b>> \notin Bad
    BY <1>2
  <2> QED
    BY <2>1
<1> QED
  BY <1>3 DEF Sound

-----------------------------------------------------------------------------
(* Lists of operands.                                                      *)

(* A property the first step has and every step keeps, the last one has.   *)
LEMMA StepsStay ==
  ASSUME NEW S, NEW n \in Nat, NEW f, f[0] \in S,
         \A k \in 1 .. n : f[k - 1] \in S => f[k] \in S
  PROVE  f[n] \in S
<1> DEFINE Bad == {k \in 0 .. n : f[k] \notin S}
<1>1. ASSUME Bad # {} PROVE FALSE
  <2>1. Bad \in SUBSET Nat
    OBVIOUS
  <2>2. PICK k \in Bad : \A m \in Bad : k <= m
    BY <1>1, <2>1, HasLeast
  <2>3. k \in 1 .. n /\ k - 1 \in 0 .. n /\ ~ (k <= k - 1)
    OBVIOUS
  <2>4. f[k - 1] \in S
    BY <2>2, <2>3
  <2> QED
    BY <2>3, <2>4
<1>2. n \in 0 .. n /\ n \notin Bad
  BY <1>1
<1> QED
  BY <1>2

(* What may be dropped from a conjunction: what the others imply.          *)
LEMMA WithoutKeepsAll ==
  ASSUME NEW es \in Seq(Exprs), NEW drop, NEW v,
         \A i \in DOMAIN es \cap drop : (\A k \in DOMAIN es \ drop : In(es[k], v)) => In(es[i], v)
  PROVE  AllOf(Without(es, drop), v) <=> AllOf(es, v)
<1>1. Selects(Without(es, drop), es, DOMAIN es \ drop)
  BY WithoutHolds
<1>2. ASSUME AllOf(Without(es, drop), v) PROVE AllOf(es, v)
  <2>1. \A k \in DOMAIN es \ drop : In(es[k], v)
    <3> SUFFICES ASSUME NEW k \in DOMAIN es \ drop PROVE In(es[k], v)
      OBVIOUS
    <3>1. PICK n \in DOMAIN Without(es, drop) : Without(es, drop)[n] = es[k]
      BY <1>1 DEF Selects
    <3> QED
      BY <1>2, <3>1 DEF AllOf
  <2> QED
    BY <2>1 DEF AllOf
<1>3. ASSUME AllOf(es, v) PROVE AllOf(Without(es, drop), v)
  <2> SUFFICES ASSUME NEW n \in DOMAIN Without(es, drop) PROVE In(Without(es, drop)[n], v)
    BY DEF AllOf
  <2>1. PICK i \in DOMAIN es \ drop : Without(es, drop)[n] = es[i]
    BY <1>1 DEF Selects
  <2> QED
    BY <1>3, <2>1 DEF AllOf
<1> QED
  BY <1>2, <1>3

(* What may be dropped from a union: what implies one of the others.       *)
LEMMA WithoutKeepsAny ==
  ASSUME NEW es \in Seq(Exprs), NEW drop, NEW v,
         \A i \in DOMAIN es \cap drop : In(es[i], v) => \E k \in DOMAIN es \ drop : In(es[k], v)
  PROVE  AnyOf(Without(es, drop), v) <=> AnyOf(es, v)
<1>1. Selects(Without(es, drop), es, DOMAIN es \ drop)
  BY WithoutHolds
<1>2. ASSUME AnyOf(Without(es, drop), v) PROVE AnyOf(es, v)
  <2>1. PICK n \in DOMAIN Without(es, drop) : In(Without(es, drop)[n], v)
    BY <1>2 DEF AnyOf
  <2>2. PICK i \in DOMAIN es \ drop : Without(es, drop)[n] = es[i]
    BY <1>1 DEF Selects
  <2> QED
    BY <2>1, <2>2 DEF AnyOf
<1>3. ASSUME AnyOf(es, v) PROVE AnyOf(Without(es, drop), v)
  <2>1. PICK k \in DOMAIN es \ drop : In(es[k], v)
    BY <1>3 DEF AnyOf
  <2>2. PICK n \in DOMAIN Without(es, drop) : Without(es, drop)[n] = es[k]
    BY <1>1 DEF Selects
  <2> QED
    BY <2>1, <2>2 DEF AnyOf
<1> QED
  BY <1>2, <1>3

(* What may be dropped from an exclusive union: what accepts nothing.      *)
LEMMA WithoutKeepsOne ==
  ASSUME NEW es \in Seq(Exprs), NEW drop, NEW v,
         \A i \in DOMAIN es \cap drop : ~ In(es[i], v)
  PROVE  OneOf(Without(es, drop), v) <=> OneOf(es, v)
<1> DEFINE left == Without(es, drop)
           K == DOMAIN es \ drop
<1>1. PICK rank : Renumbers(rank, es, K, left)
  BY WithoutKeeps
<1>2. \A i \in K : rank[i] \in DOMAIN left /\ left[rank[i]] = es[i]
  BY <1>1 DEF Renumbers
<1>3. \A i, k \in K : i # k => rank[i] # rank[k]
  <2> SUFFICES ASSUME NEW i \in K, NEW k \in K, i # k PROVE rank[i] # rank[k]
    OBVIOUS
  <2>1. i \in Nat /\ k \in Nat
    BY IndexesAreNumbers
  <2>2. left \in Seq(Exprs)
    BY WithoutKeeps
  <2>3. rank[i] \in Nat /\ rank[k] \in Nat
    <3> HIDE DEF left
    <3>1. DOMAIN left \subseteq Nat
      BY <2>2, IndexesAreNumbers
    <3> QED
      BY <1>2, <3>1
  <2>4. (i < k => rank[i] < rank[k]) /\ (k < i => rank[k] < rank[i])
    BY <1>1 DEF Renumbers
  <2> QED
    BY <2>1, <2>3, <2>4
<1>4. \A n \in DOMAIN left : \E i \in K : rank[i] = n
  BY <1>1 DEF Renumbers
<1>5. \A i \in DOMAIN es : In(es[i], v) => i \in K
  OBVIOUS
<1> HIDE DEF left, K
<1>6. K \subseteq DOMAIN es
  BY DEF K
<1>7. ASSUME OneOf(left, v) PROVE OneOf(es, v)
  <2>1. PICK n \in DOMAIN left : In(left[n], v) /\ \A m \in DOMAIN left \ {n} : ~ In(left[m], v)
    BY <1>7 DEF OneOf
  <2>2. PICK i \in K : rank[i] = n
    BY <1>4
  <2>3. In(es[i], v)
    BY <1>2, <2>1, <2>2
  <2>4. \A j \in K \ {i} : ~ In(es[j], v)
    BY <1>2, <1>3, <2>1, <2>2
  <2> QED
    BY <1>5, <1>6, <2>3, <2>4 DEF OneOf
<1>8. ASSUME OneOf(es, v) PROVE OneOf(left, v)
  <2>1. PICK i \in DOMAIN es : In(es[i], v) /\ \A j \in DOMAIN es \ {i} : ~ In(es[j], v)
    BY <1>8 DEF OneOf
  <2>2. i \in K /\ rank[i] \in DOMAIN left /\ In(left[rank[i]], v)
    BY <1>2, <1>5, <2>1
  <2>3. \A m \in DOMAIN left \ {rank[i]} : ~ In(left[m], v)
    <3> SUFFICES ASSUME NEW m \in DOMAIN left, m # rank[i] PROVE ~ In(left[m], v)
      OBVIOUS
    <3>1. PICK j \in K : rank[j] = m
      BY <1>4
    <3>2. j # i /\ j \in DOMAIN es
      BY <1>6, <3>1
    <3> QED
      BY <1>2, <2>1, <3>1, <3>2
  <2> QED
    BY <2>2, <2>3 DEF OneOf
<1> QED
  BY <1>7, <1>8 DEF left

(* The first copy of every operand stays.                                  *)
LEMMA DedupedKeeps ==
  ASSUME NEW es \in Seq(Exprs), NEW v
  PROVE  /\ Deduped(es) \in Seq(Exprs)
         /\ AllOf(Deduped(es), v) <=> AllOf(es, v)
         /\ AnyOf(Deduped(es), v) <=> AnyOf(es, v)
<1>1. ASSUME NEW i \in DOMAIN es
      PROVE  \E k \in DOMAIN es \ Repeated(es) : es[k] = es[i]
  <2> DEFINE T == {j \in DOMAIN es : es[j] = es[i]}
  <2>1. T \in SUBSET Nat /\ i \in T
    BY IndexesAreNumbers
  <2>2. PICK k \in T : \A j \in T : k <= j
    BY <2>1, HasLeast
  <2>3. k \notin Repeated(es)
    <3> SUFFICES ASSUME NEW j \in 1 .. k - 1, es[j] = es[k] PROVE FALSE
      BY DEF Repeated
    <3>1. DOMAIN es = 1 .. Len(es) /\ Len(es) \in Nat /\ k \in DOMAIN es
      BY IndexesAreNumbers
    <3>2. j \in DOMAIN es /\ ~ (k <= j)
      BY <3>1
    <3>3. j \in T
      BY <3>2
    <3> QED
      BY <2>2, <3>2, <3>3
  <2> QED
    BY <2>3
<1>2. Deduped(es) \in Seq(Exprs)
  BY WithoutKeeps DEF Deduped
<1>3. AllOf(Deduped(es), v) <=> AllOf(es, v)
  BY <1>1, WithoutKeepsAll DEF Deduped
<1>4. AnyOf(Deduped(es), v) <=> AnyOf(es, v)
  <2>1. \A i \in DOMAIN es \cap Repeated(es) :
          In(es[i], v) => \E k \in DOMAIN es \ Repeated(es) : In(es[k], v)
    BY <1>1
  <2> QED
    BY <2>1, WithoutKeepsAny DEF Deduped
<1> QED
  BY <1>2, <1>3, <1>4

-----------------------------------------------------------------------------
(* removeSubsumed.                                                         *)

(* What drop takes from es, the rest makes up for.                         *)
Harmless(es, union, drop, v) ==
  IF union
  THEN \A i \in drop : In(es[i], v) => \E k \in DOMAIN es \ drop : In(es[k], v)
  ELSE \A i \in drop : (\A k \in DOMAIN es \ drop : In(es[k], v)) => In(es[i], v)

(* One more operand is dropped next to a partner that stays.               *)
LEMMA DropsHarmlessly ==
  ASSUME NEW es \in Seq(Exprs), NEW union \in BOOLEAN, NEW v,
         NEW drop \in SUBSET DOMAIN es, Harmless(es, union, drop, v),
         NEW lost \in DOMAIN es, NEW kept \in DOMAIN es \ drop, lost # kept,
         IF union THEN In(es[lost], v) => In(es[kept], v) ELSE In(es[kept], v) => In(es[lost], v)
  PROVE  Harmless(es, union, drop \cup {lost}, v)
<1>1. kept \in DOMAIN es \ (drop \cup {lost})
  OBVIOUS
<1>2. CASE union
  <2> SUFFICES ASSUME NEW i \in drop \cup {lost}, In(es[i], v)
               PROVE  \E k \in DOMAIN es \ (drop \cup {lost}) : In(es[k], v)
    BY <1>2 DEF Harmless
  <2>1. CASE In(es[lost], v)
    BY <1>1, <1>2, <2>1
  <2>2. CASE ~ In(es[lost], v)
    <3>1. i \in drop
      BY <2>2
    <3>2. PICK k \in DOMAIN es \ drop : In(es[k], v)
      BY <1>2, <3>1 DEF Harmless
    <3>3. k # lost
      BY <2>2, <3>2
    <3> QED
      BY <3>2, <3>3
  <2> QED
    BY <2>1, <2>2
<1>3. CASE ~ union
  <2> SUFFICES ASSUME NEW i \in drop \cup {lost},
                      \A k \in DOMAIN es \ (drop \cup {lost}) : In(es[k], v)
               PROVE  In(es[i], v)
    BY <1>3 DEF Harmless
  <2>1. In(es[lost], v)
    BY <1>1, <1>3
  <2>2. \A k \in DOMAIN es \ drop : In(es[k], v)
    BY <2>1
  <2> QED
    BY <1>3, <2>1, <2>2 DEF Harmless
<1> QED
  BY <1>2, <1>3

LEMMA DropOneIsHarmless ==
  ASSUME Language, NEW es \in Seq(Exprs), NEW union \in BOOLEAN, NEW v \in Values,
         NEW drop \in SUBSET DOMAIN es, Harmless(es, union, drop, v),
         NEW i \in DOMAIN es, NEW j \in DOMAIN es
  PROVE  /\ DropOne(es, union, i, j, drop) \in SUBSET DOMAIN es
         /\ Harmless(es, union, DropOne(es, union, i, j, drop), v)
<1>1. CASE i >= j \/ i \in drop \/ j \in drop
  BY <1>1 DEF DropOne
<1>2. CASE ~ (i >= j \/ i \in drop \/ j \in drop)
  <2>1. i # j /\ i \in DOMAIN es \ drop /\ j \in DOMAIN es \ drop
    <3>1. i \in Nat /\ j \in Nat
      BY IndexesAreNumbers
    <3> QED
      BY <1>2, <3>1
  <2>2. es[i] \in Exprs /\ es[j] \in Exprs
    BY IndexesAreNumbers
  <2>3. CASE Subsumes(es[i], es[j])
    <3>1. In(es[i], v) => In(es[j], v)
      BY <2>2, <2>3, SubsumesIsSound
    <3>2. DropOne(es, union, i, j, drop) = drop \cup {IF union THEN i ELSE j}
      BY <1>2, <2>3 DEF DropOne
    <3> QED
      BY <2>1, <3>1, <3>2, DropsHarmlessly
  <2>4. CASE ~ Subsumes(es[i], es[j]) /\ Subsumes(es[j], es[i])
    <3>1. In(es[j], v) => In(es[i], v)
      BY <2>2, <2>4, SubsumesIsSound
    <3>2. DropOne(es, union, i, j, drop) = drop \cup {IF union THEN j ELSE i}
      BY <1>2, <2>4 DEF DropOne
    <3> QED
      BY <2>1, <3>1, <3>2, DropsHarmlessly
  <2>5. CASE ~ Subsumes(es[i], es[j]) /\ ~ Subsumes(es[j], es[i])
    BY <1>2, <2>5 DEF DropOne
  <2> QED
    BY <2>3, <2>4, <2>5
<1> QED
  BY <1>1, <1>2

LEMMA DropRowIsHarmless ==
  ASSUME Language, NEW es \in Seq(Exprs), NEW union \in BOOLEAN, NEW v \in Values,
         NEW drop \in SUBSET DOMAIN es, Harmless(es, union, drop, v), NEW i \in DOMAIN es
  PROVE  /\ DropRow(es, union, i, drop) \in SUBSET DOMAIN es
         /\ Harmless(es, union, DropRow(es, union, i, drop), v)
<1> DEFINE D == {d \in SUBSET DOMAIN es : Harmless(es, union, d, v)}
           n == Len(es)
           g == [p \in D \X (1 .. n) |-> DropOne(es, union, i, p[2], p[1])]
           Row(f) == f = [j \in 0 .. n |-> IF j = 0 THEN drop ELSE DropOne(es, union, i, j, f[j - 1])]
           after == CHOOSE f : Row(f)
<1>1. n \in Nat /\ DOMAIN es = 1 .. n
  BY IndexesAreNumbers
<1>2. ASSUME NEW d \in D, NEW j \in 1 .. n
      PROVE  DropOne(es, union, i, j, d) \in D
  BY <1>1, DropOneIsHarmless
<1>3. drop \in D
  OBVIOUS
<1> HIDE DEF D, n
<1>4. g \in [D \X (1 .. n) -> D]
  BY <1>2
<1>5. PICK f : Repeats(f, D, drop, n, g)
  <2> HIDE DEF g
  <2>1. n \in Nat
    BY <1>1
  <2> QED
    BY <1>3, <1>4, <2>1, StepsExist
<1>6. ASSUME NEW k \in 1 .. n PROVE f[k] = DropOne(es, union, i, k, f[k - 1])
  <2>1. k - 1 \in 0 .. n
    BY <1>1
  <2>2. f[k - 1] \in D
    BY <1>5, <2>1 DEF Repeats
  <2> QED
    BY <1>5, <2>2 DEF Repeats
<1>7. Row(f)
  <2>1. \A k \in 0 .. n : f[k] = IF k = 0 THEN drop ELSE DropOne(es, union, i, k, f[k - 1])
    BY <1>1, <1>5, <1>6 DEF Repeats
  <2> QED
    BY <1>5, <2>1 DEF Repeats
<1>8. Row(after)
  BY <1>7
<1>9. DropRow(es, union, i, drop) = after[n]
  BY DEF DropRow, n
<1> HIDE DEF after
<1>10. after[0] = drop /\ \A k \in 1 .. n : after[k] = DropOne(es, union, i, k, after[k - 1])
  BY <1>1, <1>8
<1>11. after[n] \in D
  <2>1. \A k \in 1 .. n : after[k - 1] \in D => after[k] \in D
    BY <1>2, <1>10
  <2>2. n \in Nat /\ after[0] \in D
    BY <1>1, <1>3, <1>10
  <2> QED
    BY <2>1, <2>2, StepsStay
<1> QED
  BY <1>9, <1>11 DEF D

LEMMA SubsumedIsHarmless ==
  ASSUME Language, NEW es \in Seq(Exprs), NEW union \in BOOLEAN, NEW v \in Values
  PROVE  /\ Subsumed(es, union) \in SUBSET DOMAIN es
         /\ Harmless(es, union, Subsumed(es, union), v)
<1> DEFINE D == {d \in SUBSET DOMAIN es : Harmless(es, union, d, v)}
           n == Len(es)
           g == [p \in D \X (1 .. n) |-> DropRow(es, union, p[2], p[1])]
           Rows(f) == f = [i \in 0 .. n |-> IF i = 0 THEN {} ELSE DropRow(es, union, i, f[i - 1])]
           after == CHOOSE f : Rows(f)
<1>1. n \in Nat /\ DOMAIN es = 1 .. n
  BY IndexesAreNumbers
<1>2. ASSUME NEW d \in D, NEW i \in 1 .. n
      PROVE  DropRow(es, union, i, d) \in D
  BY <1>1, DropRowIsHarmless
<1>3. {} \in D
  BY DEF Harmless
<1> HIDE DEF D, n
<1>4. g \in [D \X (1 .. n) -> D]
  BY <1>2
<1>5. PICK f : Repeats(f, D, {}, n, g)
  <2> HIDE DEF g
  <2>1. n \in Nat
    BY <1>1
  <2> QED
    BY <1>3, <1>4, <2>1, StepsExist
<1>6. ASSUME NEW k \in 1 .. n PROVE f[k] = DropRow(es, union, k, f[k - 1])
  <2>1. k - 1 \in 0 .. n
    BY <1>1
  <2>2. f[k - 1] \in D
    BY <1>5, <2>1 DEF Repeats
  <2> QED
    BY <1>5, <2>2 DEF Repeats
<1>7. Rows(f)
  <2>1. \A k \in 0 .. n : f[k] = IF k = 0 THEN {} ELSE DropRow(es, union, k, f[k - 1])
    BY <1>1, <1>5, <1>6 DEF Repeats
  <2> QED
    BY <1>5, <2>1 DEF Repeats
<1>8. Rows(after)
  BY <1>7
<1>9. Subsumed(es, union) = after[n]
  BY DEF Subsumed, n
<1> HIDE DEF after
<1>10. after[0] = {} /\ \A k \in 1 .. n : after[k] = DropRow(es, union, k, after[k - 1])
  <2>1. \A k \in 0 .. n : after[k] = IF k = 0 THEN {} ELSE DropRow(es, union, k, after[k - 1])
    BY <1>8
  <2>2. 0 \in 0 .. n /\ \A k \in 1 .. n : k \in 0 .. n /\ k # 0
    BY <1>1
  <2> QED
    BY <2>1, <2>2
<1>11. after[n] \in D
  <2>1. \A k \in 1 .. n : after[k - 1] \in D => after[k] \in D
    BY <1>2, <1>10
  <2>2. n \in Nat /\ after[0] \in D
    BY <1>1, <1>3, <1>10
  <2> QED
    BY <2>1, <2>2, StepsStay
<1> QED
  BY <1>9, <1>11 DEF D

(* Whatever pairs the loops meet first, a conjunction without the weaker   *)
(* and a union without the stronger operands stands for what it stood for. *)
THEOREM ThinningKeepsMeaning ==
  ASSUME Language, NEW es \in Seq(Exprs), NEW v \in Values
  PROVE  /\ Thinned(es, FALSE) \in Seq(Exprs) /\ Thinned(es, TRUE) \in Seq(Exprs)
         /\ AllOf(Thinned(es, FALSE), v) <=> AllOf(es, v)
         /\ AnyOf(Thinned(es, TRUE), v) <=> AnyOf(es, v)
<1>1. Thinned(es, FALSE) \in Seq(Exprs) /\ Thinned(es, TRUE) \in Seq(Exprs)
  BY WithoutKeeps DEF Thinned
<1>2. AllOf(Thinned(es, FALSE), v) <=> AllOf(es, v)
  <2>1. Harmless(es, FALSE, Subsumed(es, FALSE), v)
    BY SubsumedIsHarmless
  <2>2. \A i \in DOMAIN es \cap Subsumed(es, FALSE) :
          (\A k \in DOMAIN es \ Subsumed(es, FALSE) : In(es[k], v)) => In(es[i], v)
    BY <2>1 DEF Harmless
  <2> QED
    BY <2>2, WithoutKeepsAll DEF Thinned
<1>3. AnyOf(Thinned(es, TRUE), v) <=> AnyOf(es, v)
  <2>1. Harmless(es, TRUE, Subsumed(es, TRUE), v)
    BY SubsumedIsHarmless
  <2>2. \A i \in DOMAIN es \cap Subsumed(es, TRUE) :
          In(es[i], v) => \E k \in DOMAIN es \ Subsumed(es, TRUE) : In(es[k], v)
    BY <2>1 DEF Harmless
  <2> QED
    BY <2>2, WithoutKeepsAny DEF Thinned
<1> QED
  BY <1>1, <1>2, <1>3

-----------------------------------------------------------------------------
(* Unions and complements.                                                 *)

LEMMA ImpossibleIsExpr ==
  ASSUME Language, NEW why \in BOOLEAN
  PROVE  /\ Never(why) \in Exprs /\ Never(why)[1] = "never"
         /\ \A v \in Values : ~ In(Never(why), v)
<1>1. Never(why) \in Exprs
  BY DEF Language, Grammar
<1>2. Never(why)[1] = "never"
  BY DEF Never
<1> QED
  BY <1>1, <1>2, Meanings

LEMMA UnionOfMeans ==
  ASSUME Language, NEW kept \in Seq(Exprs), NEW d \in Discriminators
  PROVE  /\ UnionOf(kept, d) \in Exprs
         /\ \A v \in Values : In(UnionOf(kept, d), v) <=> AnyOf(kept, v)
<1>1. CASE kept = <<>>
  <2>1. UnionOf(kept, d) = Never(TRUE)
    BY <1>1 DEF UnionOf
  <2>2. Never(TRUE) \in Exprs /\ Never(TRUE)[1] = "never"
    BY ImpossibleIsExpr
  <2>3. \A v \in Values : ~ AnyOf(kept, v)
    BY <1>1 DEF AnyOf
  <2> QED
    BY <2>1, <2>2, <2>3, Meanings
<1>2. CASE Len(kept) = 1
  <2>1. UnionOf(kept, d) = kept[1] /\ DOMAIN kept = {1} /\ kept[1] \in Exprs
    BY <1>2 DEF UnionOf
  <2> QED
    BY <2>1 DEF AnyOf
<1>3. CASE kept # <<>> /\ Len(kept) # 1
  <2>1. UnionOf(kept, d) = <<"anyOf", kept, d>>
    BY <1>3 DEF UnionOf
  <2>2. <<"anyOf", kept, d>> \in Exprs
    BY DEF Language, Grammar
  <2> QED
    BY <2>1, <2>2, Meanings
<1> QED
  BY <1>1, <1>2, <1>3

(* Dropping what is impossible, repeated or covered, and unwrapping what   *)
(* is left alone, a union stands for what it stood for.                    *)
THEOREM SimplifyAnyOfKeepsMeaning ==
  ASSUME Language, NEW es \in Seq(Exprs), NEW d \in Discriminators
  PROVE  /\ SimplifyAnyOf(es, d) \in Exprs
         /\ \A v \in Values : In(SimplifyAnyOf(es, d), v) <=> AnyOf(es, v)
<1> DEFINE live == Without(es, Are(es, "never"))
           once == Deduped(live)
           kept == Thinned(once, TRUE)
<1>1. live \in Seq(Exprs)
  BY WithoutKeeps
<1>2. ASSUME NEW v \in Values PROVE AnyOf(live, v) <=> AnyOf(es, v)
  <2>1. \A i \in DOMAIN es \cap Are(es, "never") : ~ In(es[i], v)
    <3>1. \A i \in DOMAIN es : es[i] \in Exprs
      BY IndexesAreNumbers
    <3> QED
      BY <3>1, Meanings DEF Are
  <2>2. \A i \in DOMAIN es \cap Are(es, "never") :
          In(es[i], v) => \E k \in DOMAIN es \ Are(es, "never") : In(es[k], v)
    BY <2>1
  <2> QED
    BY <2>2, WithoutKeepsAny
<1> HIDE DEF live
<1>3. once \in Seq(Exprs) /\ \A v \in Values : AnyOf(once, v) <=> AnyOf(live, v)
  BY <1>1, DedupedKeeps
<1> HIDE DEF once
<1>4. ASSUME NEW v \in Values PROVE kept \in Seq(Exprs) /\ (AnyOf(kept, v) <=> AnyOf(once, v))
  BY <1>3, ThinningKeepsMeaning
<1>5. kept \in Seq(Exprs)
  BY <1>3, WithoutKeeps DEF Thinned
<1> HIDE DEF kept
<1>6. SimplifyAnyOf(es, d) = UnionOf(kept, d)
  BY DEF SimplifyAnyOf, kept, once, live
<1>7. UnionOf(kept, d) \in Exprs /\ \A v \in Values : In(UnionOf(kept, d), v) <=> AnyOf(kept, v)
  BY <1>5, UnionOfMeans
<1> QED
  BY <1>2, <1>3, <1>4, <1>6, <1>7

(* A complement simplified is the complement.                              *)
THEOREM SimplifyNotKeepsMeaning ==
  ASSUME Language, NEW e \in Exprs
  PROVE  /\ SimplifyNot(e) \in Exprs
         /\ \A v \in Values : In(SimplifyNot(e), v) <=> ~ In(e, v)
<1>1. CASE e[1] = "any"
  <2>1. SimplifyNot(e) = Never(FALSE) /\ Never(FALSE) \in Exprs /\ Never(FALSE)[1] = "never"
    BY <1>1 DEF SimplifyNot, Never, Language, Grammar
  <2> QED
    BY <1>1, <2>1, Meanings
<1>2. CASE e[1] = "never"
  <2>1. SimplifyNot(e) = Anything /\ Anything \in Exprs /\ Anything[1] = "any"
    BY <1>2 DEF SimplifyNot, Anything, Language, Grammar
  <2> QED
    BY <1>2, <2>1, Meanings
<1>3. CASE e[1] = "not"
  <2>1. SimplifyNot(e) = e[2] /\ e[2] \in Exprs
    BY <1>3, PartsAreSmaller DEF SimplifyNot
  <2> QED
    BY <1>3, <2>1, Meanings
<1>4. CASE e[1] \notin {"any", "never", "not"}
  <2>1. SimplifyNot(e) = <<"not", e>> /\ <<"not", e>> \in Exprs
    BY <1>4 DEF SimplifyNot, Language, Grammar
  <2>2. \A v \in Values : In(<<"not", e>>, v) <=> ~ In(e, v)
    BY <2>1, Meanings
  <2> QED
    BY <2>1, <2>2
<1> QED
  BY <1>1, <1>2, <1>3, <1>4

-----------------------------------------------------------------------------
(* Conjunctions.                                                           *)

LEMMA KindsTogetherMeans ==
  ASSUME Language, NEW es \in Seq(Exprs), Are(es, "kinds") # {}
  PROVE  /\ KindsTogether(es) \in Exprs
         /\ \A v \in Values :
              In(KindsTogether(es), v) <=> \A i \in Are(es, "kinds") : In(es[i], v)
<1> DEFINE at == Are(es, "kinds")
           set == Common({es[i][2] : i \in at})
           numeric == IF \E i \in at : es[i][3] = "IntegerOnly" THEN "IntegerOnly" ELSE "AnyNumber"
           all == <<"kinds", set, numeric>>
<1>1. KindsTogether(es) = all
  BY DEF KindsTogether
<1>2. all \in Exprs
  <2>1. set \in SUBSET AllKinds /\ numeric \in Numerics
    BY DEF Common, Numerics
  <2> HIDE DEF set, numeric
  <2> QED
    BY <2>1 DEF Language, Grammar
<1>3. ASSUME NEW v \in Values
      PROVE  In(all, v) <=> \A i \in at : In(es[i], v)
  <2>1. KindOf(v) \in AllKinds
    BY DEF Language, Meaning
  <2>2. KindOf(v) \in set <=> \A i \in at : KindOf(v) \in es[i][2]
    BY <2>1 DEF Common
  <2>3. numeric = "IntegerOnly" <=> \E i \in at : es[i][3] = "IntegerOnly"
    OBVIOUS
  <2>4. \A i \in at : es[i] \in Exprs /\ es[i][1] = "kinds"
    BY IndexesAreNumbers DEF Are
  <2>5. \A i \in at : In(es[i], v) <=> /\ KindOf(v) \in es[i][2]
                                       /\ KindOf(v) = "number" /\ es[i][3] = "IntegerOnly" => IsInteger(v)
    BY <2>4, Meanings
  <2> HIDE DEF set, numeric, at
  <2>6. In(all, v) <=> /\ KindOf(v) \in set
                       /\ KindOf(v) = "number" /\ numeric = "IntegerOnly" => IsInteger(v)
    BY <1>2, Meanings
  <2> QED
    BY <2>2, <2>3, <2>5, <2>6
<1> QED
  BY <1>1, <1>2, <1>3

(* Folding the kinds of a conjunction into one, and dropping the           *)
(* predicates that guard against every kind left, loses and adds nothing.  *)
THEOREM FoldKindsKeepsMeaning ==
  ASSUME Language, NEW es \in Seq(Exprs)
  PROVE  /\ FoldKinds(es) \in Seq(Exprs)
         /\ \A v \in Values : AllOf(FoldKinds(es), v) <=> AllOf(es, v)
<1>1. CASE Are(es, "kinds") = {}
  BY <1>1 DEF FoldKinds
<1>2. CASE Are(es, "kinds") # {}
  <2> DEFINE at == Are(es, "kinds")
             all == KindsTogether(es)
             idle == GuardVacuous(es, all[2])
             rest == Without(es, at \cup idle)
  <2>1. FoldKinds(es) = <<all>> \o rest
    BY <1>2 DEF FoldKinds
  <2>2. all \in Exprs /\ all[1] = "kinds"
    BY <1>2, KindsTogetherMeans DEF KindsTogether
  <2>3. rest \in Seq(Exprs) /\ Selects(rest, es, DOMAIN es \ (at \cup idle))
    BY WithoutHolds
  <2>4. \A i \in DOMAIN es : es[i] \in Exprs
    BY IndexesAreNumbers
  <2>5. \A v \in Values : In(all, v) <=> \A i \in at : In(es[i], v)
    BY <1>2, KindsTogetherMeans
  <2>6. ASSUME NEW v \in Values, In(all, v), NEW i \in idle PROVE In(es[i], v)
    <3>1. KindOf(v) \in all[2]
      BY <2>2, <2>6, Meanings
    <3>2. i \in DOMAIN es /\ IsPredicate(es[i]) /\ Guard(es[i]) \cap all[2] = {}
      BY DEF GuardVacuous
    <3>3. KindOf(v) \notin Guard(es[i])
      BY <3>1, <3>2
    <3> QED
      BY <2>4, <3>2, <3>3 DEF Language, Meaning, In
  <2>7. at \subseteq DOMAIN es
    BY DEF Are
  <2> HIDE DEF all, rest, at, idle
  <2>8. FoldKinds(es) \in Seq(Exprs)
    BY <2>1, <2>2, <2>3
  <2>9. ASSUME NEW v \in Values PROVE AllOf(FoldKinds(es), v) <=> In(all, v) /\ AllOf(rest, v)
    <3>1. DOMAIN (<<all>> \o rest) = 1 .. 1 + Len(rest) /\ DOMAIN rest = 1 .. Len(rest) /\ Len(rest) \in Nat
      BY <2>2, <2>3
    <3>2. (<<all>> \o rest)[1] = all
      BY <2>2, <2>3
    <3>3. \A n \in 1 .. Len(rest) : (<<all>> \o rest)[n + 1] = rest[n]
      BY <2>2, <2>3
    <3>4. \A m \in 1 .. 1 + Len(rest) : m = 1 \/ (m - 1 \in 1 .. Len(rest) /\ (m - 1) + 1 = m)
      BY <3>1
    <3>5. ASSUME In(all, v), AllOf(rest, v), NEW m \in 1 .. 1 + Len(rest)
          PROVE  In((<<all>> \o rest)[m], v)
      <4>1. CASE m = 1
        BY <3>2, <3>5, <4>1
      <4>2. CASE m # 1
        BY <3>1, <3>3, <3>4, <3>5, <4>2 DEF AllOf
      <4> QED
        BY <4>1, <4>2
    <3>6. ASSUME AllOf(<<all>> \o rest, v) PROVE In(all, v) /\ AllOf(rest, v)
      <4>1. 1 \in 1 .. 1 + Len(rest) /\ \A n \in 1 .. Len(rest) : n + 1 \in 1 .. 1 + Len(rest)
        BY <3>1
      <4>2. In(all, v)
        BY <3>1, <3>2, <3>6, <4>1 DEF AllOf
      <4>3. \A n \in 1 .. Len(rest) : In(rest[n], v)
        BY <3>1, <3>3, <3>6, <4>1 DEF AllOf
      <4> QED
        BY <3>1, <4>2, <4>3 DEF AllOf
    <3> QED
      BY <2>1, <3>1, <3>5, <3>6 DEF AllOf
  <2>10. ASSUME NEW v \in Values, AllOf(es, v) PROVE In(all, v) /\ AllOf(rest, v)
    <3>1. In(all, v)
      BY <2>5, <2>7, <2>10 DEF AllOf
    <3>2. \A n \in DOMAIN rest : In(rest[n], v)
      BY <2>3, <2>10 DEF AllOf, Selects
    <3> QED
      BY <3>1, <3>2 DEF AllOf
  <2>11. ASSUME NEW v \in Values, In(all, v), AllOf(rest, v), NEW i \in DOMAIN es PROVE In(es[i], v)
    <3>1. CASE i \in at
      BY <2>5, <2>11, <3>1
    <3>2. CASE i \in idle
      BY <2>6, <2>11, <3>2
    <3>3. CASE i \notin at \cup idle
      BY <2>3, <2>11, <3>3 DEF AllOf, Selects
    <3> QED
      BY <3>1, <3>2, <3>3
  <2> QED
    BY <2>8, <2>9, <2>10, <2>11 DEF AllOf
<1> QED
  BY <1>1, <1>2

LEMMA ConjoinMeans ==
  ASSUME Language, NEW es \in Seq(Exprs)
  PROVE  /\ Conjoin(es) \in Exprs
         /\ \A v \in Values : In(Conjoin(es), v) <=> AllOf(es, v)
<1>1. CASE es = <<>>
  <2>1. Conjoin(es) = Anything /\ Anything \in Exprs /\ Anything[1] = "any"
    BY <1>1 DEF Conjoin, Anything, Language, Grammar
  <2>2. \A v \in Values : AllOf(es, v)
    BY <1>1 DEF AllOf
  <2> QED
    BY <2>1, <2>2, Meanings
<1>2. CASE Len(es) = 1
  <2>1. Conjoin(es) = es[1] /\ DOMAIN es = {1} /\ es[1] \in Exprs
    BY <1>2 DEF Conjoin
  <2> QED
    BY <2>1 DEF AllOf
<1>3. CASE es # <<>> /\ Len(es) # 1
  <2>1. Conjoin(es) = <<"all", es>>
    BY <1>3 DEF Conjoin
  <2>2. <<"all", es>> \in Exprs
    BY DEF Language, Grammar
  <2> QED
    BY <2>1, <2>2, Meanings
<1> QED
  BY <1>1, <1>2, <1>3

(* Whatever rule applies - no kind left, an operand that is impossible, or *)
(* the operands folded, without the trivial, the repeated and the weaker   *)
(* ones - a conjunction stands for what it stood for.                      *)
THEOREM SimplifyAllKeepsMeaning ==
  ASSUME Language, NEW es \in Seq(Exprs)
  PROVE  /\ SimplifyAll(es) \in Exprs
         /\ \A v \in Values : In(SimplifyAll(es), v) <=> AllOf(es, v)
<1> DEFINE folded == FoldKinds(es)
           nevers == Are(folded, "never")
           live == Without(folded, Are(folded, "any"))
           once == Deduped(live)
           kept == Thinned(once, FALSE)
<1>1. folded \in Seq(Exprs) /\ \A v \in Values : AllOf(folded, v) <=> AllOf(es, v)
  BY FoldKindsKeepsMeaning
<1> HIDE DEF folded
<1>2. \A i \in DOMAIN folded : folded[i] \in Exprs
  BY <1>1, IndexesAreNumbers
<1>3. CASE Kinds(<<"all", es>>) = {}
  <2>1. <<"all", es>> \in Exprs
    BY DEF Language, Grammar
  <2>2. \A v \in Values : ~ AllOf(es, v)
    BY <1>3, <2>1, KindsAreSound, Meanings
  <2>3. SimplifyAll(es) = Never(Explained(es))
    BY <1>3 DEF SimplifyAll, SimplifyFolded
  <2>4. Explained(es) \in BOOLEAN
    BY DEF Explained
  <2>5. Never(Explained(es)) \in Exprs /\ Never(Explained(es))[1] = "never"
    BY <2>4 DEF Never, Language, Grammar
  <2> QED
    BY <2>2, <2>3, <2>5, Meanings
<1>4. CASE Kinds(<<"all", es>>) # {} /\ nevers # {}
  <2> DEFINE first == CHOOSE i \in nevers : \A j \in nevers : i <= j
  <2>1. nevers \in SUBSET Nat
    BY <1>1, IndexesAreNumbers DEF Are
  <2>2. first \in nevers
    BY <1>4, <2>1, HasLeast
  <2>3. SimplifyAll(es) = folded[first]
    BY <1>4 DEF SimplifyAll, SimplifyFolded, folded
  <2> HIDE DEF first
  <2>4. first \in DOMAIN folded /\ folded[first] \in Exprs /\ folded[first][1] = "never"
    BY <1>2, <2>2 DEF Are
  <2>5. \A v \in Values : ~ In(folded[first], v)
    BY <2>4, Meanings
  <2>6. \A v \in Values : ~ AllOf(folded, v)
    BY <2>4, <2>5 DEF AllOf
  <2> QED
    BY <1>1, <2>3, <2>4, <2>5, <2>6
<1>5. CASE Kinds(<<"all", es>>) # {} /\ nevers = {}
  <2>1. SimplifyAll(es) = Conjoin(kept)
    BY <1>5 DEF SimplifyAll, SimplifyFolded, folded
  <2>2. live \in Seq(Exprs)
    BY <1>1, WithoutKeeps
  <2>3. ASSUME NEW v \in Values PROVE AllOf(live, v) <=> AllOf(folded, v)
    <3>1. \A i \in DOMAIN folded \cap Are(folded, "any") : In(folded[i], v)
      BY <1>2, Meanings DEF Are
    <3> QED
      BY <1>1, <3>1, WithoutKeepsAll
  <2> HIDE DEF live
  <2>4. once \in Seq(Exprs) /\ \A v \in Values : AllOf(once, v) <=> AllOf(live, v)
    BY <2>2, DedupedKeeps
  <2> HIDE DEF once
  <2>5. kept \in Seq(Exprs)
    BY <2>4, WithoutKeeps DEF Thinned
  <2>6. \A v \in Values : AllOf(kept, v) <=> AllOf(once, v)
    BY <2>4, ThinningKeepsMeaning
  <2> HIDE DEF kept
  <2>7. Conjoin(kept) \in Exprs /\ \A v \in Values : In(Conjoin(kept), v) <=> AllOf(kept, v)
    BY <2>5, ConjoinMeans
  <2> QED
    BY <1>1, <2>1, <2>3, <2>4, <2>6, <2>7
<1> QED
  BY <1>3, <1>4, <1>5

-----------------------------------------------------------------------------
(* Exclusive unions.                                                       *)

LEMMA CopyIsNotOne ==
  ASSUME NEW es, NEW v, NEW i \in DOMAIN es, NEW j \in DOMAIN es, i # j, es[i] = es[j], In(es[i], v)
  PROVE  ~ OneOf(es, v)
<1> SUFFICES ASSUME NEW k \in DOMAIN es, \A m \in DOMAIN es \ {k} : ~ In(es[m], v) PROVE FALSE
  BY DEF OneOf
<1>1. i \in DOMAIN es \ {k} \/ j \in DOMAIN es \ {k}
  OBVIOUS
<1> QED
  BY <1>1

(* Two expressions side by side.                                           *)
LEMMA BothMean ==
  ASSUME Language, NEW a \in Exprs, NEW b \in Exprs
  PROVE  /\ <<"all", <<a, b>>>> \in Exprs
         /\ \A v \in Values : In(<<"all", <<a, b>>>>, v) <=> In(a, v) /\ In(b, v)
<1>1. <<a, b>> \in Seq(Exprs) /\ DOMAIN <<a, b>> = {1, 2}
  OBVIOUS
<1>2. <<"all", <<a, b>>>> \in Exprs
  BY <1>1 DEF Language, Grammar
<1>3. \A v \in Values : In(<<"all", <<a, b>>>>, v) <=> AllOf(<<a, b>>, v)
  BY <1>2, Meanings
<1>4. \A v \in Values : AllOf(<<a, b>>, v) <=> In(a, v) /\ In(b, v)
  BY <1>1 DEF AllOf
<1> QED
  BY <1>2, <1>3, <1>4

LEMMA ComplementMeans ==
  ASSUME Language, NEW a \in Exprs
  PROVE  /\ <<"not", a>> \in Exprs
         /\ \A v \in Values : In(<<"not", a>>, v) <=> ~ In(a, v)
<1>1. <<"not", a>> \in Exprs
  BY DEF Language, Grammar
<1> QED
  BY <1>1, Meanings

(* e stands for exactly one of es.                                         *)
Means(e, es) == e \in Exprs /\ \A v \in Values : In(e, v) <=> OneOf(es, v)

(* The rules for two alternatives: one that covers the other is left       *)
(* without it.                                                             *)
LEMMA CoveredAlternative ==
  ASSUME Language, NEW es \in Seq(Exprs), NEW a \in {1, 2}, NEW b \in {1, 2}, a # b,
         Len(es) = 2, Subsumes(es[a], es[b])
  PROVE  Means(<<"all", <<es[b], <<"not", es[a]>>>>>>, es)
<1>1. DOMAIN es = {1, 2} /\ es[a] \in Exprs /\ es[b] \in Exprs
  OBVIOUS
<1>2. <<"not", es[a]>> \in Exprs /\ \A v \in Values : In(<<"not", es[a]>>, v) <=> ~ In(es[a], v)
  BY <1>1, ComplementMeans
<1>3. \A v \in Values : In(es[a], v) => In(es[b], v)
  BY <1>1, SubsumesIsSound
<1>4. \A v \in Values : OneOf(es, v) <=> In(es[b], v) /\ ~ In(es[a], v)
  <2> SUFFICES ASSUME NEW v \in Values PROVE OneOf(es, v) <=> In(es[b], v) /\ ~ In(es[a], v)
    OBVIOUS
  <2>1. DOMAIN es = {a, b} /\ DOMAIN es \ {a} = {b} /\ DOMAIN es \ {b} = {a}
    BY <1>1
  <2> QED
    BY <1>3, <2>1 DEF OneOf
<1>5. <<"all", <<es[b], <<"not", es[a]>>>>>> \in Exprs
  BY <1>1, <1>2, BothMean
<1>6. \A v \in Values :
        In(<<"all", <<es[b], <<"not", es[a]>>>>>>, v) <=> In(es[b], v) /\ In(<<"not", es[a]>>, v)
  BY <1>1, <1>2, BothMean
<1> QED
  BY <1>2, <1>4, <1>5, <1>6 DEF Means

(* Alternatives of which no two share a value: exactly one is any.         *)
LEMMA DisjointAlternatives ==
  ASSUME Language, NEW es \in Seq(Exprs), PairwiseDisjoint(es), NEW v \in Values
  PROVE  OneOf(es, v) <=> AnyOf(es, v)
<1>1. ASSUME NEW i \in DOMAIN es, NEW j \in DOMAIN es, i # j, In(es[i], v), In(es[j], v)
      PROVE  FALSE
  <2>1. i \in Nat /\ j \in Nat /\ es[i] \in Exprs /\ es[j] \in Exprs
    BY IndexesAreNumbers
  <2>2. i < j \/ j < i
    BY <1>1, <2>1
  <2>3. Disjoint(es[i], es[j]) \/ Disjoint(es[j], es[i])
    BY <2>2 DEF PairwiseDisjoint
  <2> QED
    BY <1>1, <2>1, <2>3, DisjointIsSound
<1> QED
  BY <1>1 DEF OneOf, AnyOf

(* An alternative that is there twice can never be the one that accepts.   *)
LEMMA CopiedAlternative ==
  ASSUME Language, <<>> \in Discriminators, NEW es \in Seq(Exprs),
         NEW i \in DOMAIN es, NEW j \in DOMAIN es, i # j, es[i] = es[j]
  PROVE  LET rest == Without(es, {k \in DOMAIN es : es[k] = es[i]})
             e == <<"all", <<<<"not", es[i]>>, <<"exactlyOne", rest, <<>>>>>>>>
         IN  /\ e \in Exprs
             /\ \A v \in Values : In(e, v) <=> OneOf(es, v)
             /\ rest = <<>> => \A v \in Values : ~ OneOf(es, v)
<1> DEFINE same == {k \in DOMAIN es : es[k] = es[i]}
           rest == Without(es, same)
           one == <<"exactlyOne", rest, <<>>>>
<1>1. rest \in Seq(Exprs) /\ es[i] \in Exprs
  BY WithoutKeeps, IndexesAreNumbers
<1>2. ASSUME NEW v \in Values, ~ In(es[i], v) PROVE OneOf(rest, v) <=> OneOf(es, v)
  <2>1. \A k \in DOMAIN es \cap same : ~ In(es[k], v)
    BY <1>2
  <2> HIDE DEF same
  <2> QED
    BY <2>1, WithoutKeepsOne
<1>3. ASSUME NEW v \in Values, In(es[i], v) PROVE ~ OneOf(es, v)
  BY <1>3, CopyIsNotOne
<1> HIDE DEF rest
<1>4. one \in Exprs /\ \A v \in Values : In(one, v) <=> OneOf(rest, v)
  <2>1. one \in Exprs
    BY <1>1 DEF Language, Grammar
  <2> QED
    BY <2>1, Meanings
<1> HIDE DEF one
<1>5. <<"not", es[i]>> \in Exprs /\ \A v \in Values : In(<<"not", es[i]>>, v) <=> ~ In(es[i], v)
  BY <1>1, ComplementMeans
<1>6. /\ <<"all", <<<<"not", es[i]>>, one>>>> \in Exprs
      /\ \A v \in Values : In(<<"all", <<<<"not", es[i]>>, one>>>>, v) <=> In(<<"not", es[i]>>, v) /\ In(one, v)
  BY <1>4, <1>5, BothMean
<1>7. \A v \in Values : In(<<"all", <<<<"not", es[i]>>, one>>>>, v) <=> OneOf(es, v)
  BY <1>2, <1>3, <1>4, <1>5, <1>6
<1>8. ASSUME rest = <<>>, NEW v \in Values PROVE ~ OneOf(es, v)
  <2>1. ~ OneOf(rest, v)
    BY <1>8 DEF OneOf
  <2> QED
    BY <1>2, <1>3, <2>1
<1> QED
  BY <1>6, <1>7, <1>8 DEF one, rest

(* Whichever rule applies - copies taken out under a complement, one of    *)
(* two alternatives taken out of the other, alternatives found disjoint    *)
(* made a union - an exclusive union stands for what it stood for.         *)
THEOREM ExactlyOneOfKeepsMeaning ==
  ASSUME Language, <<>> \in Discriminators, NEW flat \in Seq(Exprs), NEW d \in Discriminators
  PROVE  /\ ExactlyOneOf(flat, d).out \in Exprs
         /\ \A v \in Values : In(ExactlyOneOf(flat, d).out, v) <=> OneOf(flat, v)
<1> DEFINE copies == {i \in DOMAIN flat : \E j \in DOMAIN flat \ {i} : flat[j] = flat[i]}
           first == CHOOSE i \in copies : \A j \in copies : i <= j
           dup == flat[first]
           rest == Without(flat, {i \in DOMAIN flat : flat[i] = dup})
           e == ExactlyOneOf(flat, d).out
           Done(x) == [out |-> x, more |-> FALSE]
           More(x) == [out |-> x, more |-> TRUE]
<1>0. ExactlyOneOf(flat, d) =
        CASE copies # {} /\ rest = <<>> -> Done(Never(TRUE))
          [] copies # {} /\ rest # <<>> ->
               More(<<"all", <<<<"not", dup>>, <<"exactlyOne", rest, <<>>>>>>>>)
          [] flat = <<>> -> Done(Never(TRUE))
          [] Len(flat) = 1 -> Done(flat[1])
          [] copies = {} /\ Len(flat) = 2 /\ Subsumes(flat[1], flat[2]) ->
               More(<<"all", <<flat[2], <<"not", flat[1]>>>>>>)
          [] copies = {} /\ Len(flat) = 2 /\ ~ Subsumes(flat[1], flat[2])
               /\ Subsumes(flat[2], flat[1]) ->
               More(<<"all", <<flat[1], <<"not", flat[2]>>>>>>)
          [] OTHER -> IF PairwiseDisjoint(flat) THEN More(<<"anyOf", flat, d>>)
                      ELSE Done(<<"exactlyOne", flat, d>>)
  BY DEF ExactlyOneOf
<1> HIDE DEF copies, first, dup, rest
<1>1. CASE copies # {}
  <2>1. copies \in SUBSET Nat
    BY IndexesAreNumbers DEF copies
  <2>2. first \in copies
    BY <1>1, <2>1, HasLeast DEF first
  <2>3. PICK j \in DOMAIN flat \ {first} : flat[j] = flat[first]
    BY <2>2 DEF copies
  <2>4. first \in DOMAIN flat
    BY <2>2 DEF copies
  <2>5. flat # <<>> /\ Len(flat) # 1
    BY <2>3, <2>4
  <2>6. ASSUME rest = <<>> PROVE e = Never(TRUE)
    <3>1. ExactlyOneOf(flat, d) = Done(Never(TRUE))
      BY <1>0, <1>1, <2>5, <2>6
    <3> QED
      BY <3>1
  <2>7. rest # <<>> => e = <<"all", <<<<"not", dup>>, <<"exactlyOne", rest, <<>>>>>>>>
    BY <1>0, <1>1, <2>5
  <2>8. LET x == <<"all", <<<<"not", dup>>, <<"exactlyOne", rest, <<>>>>>>>>
        IN  /\ x \in Exprs
            /\ \A v \in Values : In(x, v) <=> OneOf(flat, v)
            /\ rest = <<>> => \A v \in Values : ~ OneOf(flat, v)
    BY <2>3, <2>4, CopiedAlternative DEF rest, dup
  <2> HIDE DEF e
  <2>9. CASE rest = <<>>
    BY <2>6, <2>8, <2>9, ImpossibleIsExpr DEF e
  <2>10. CASE rest # <<>>
    BY <2>7, <2>8, <2>10 DEF e
  <2> QED
    BY <2>9, <2>10
<1>2. CASE copies = {} /\ flat = <<>>
  <2>1. e = Never(TRUE)
    <3>1. Len(flat) = 0
      BY <1>2
    <3>2. ExactlyOneOf(flat, d) = Done(Never(TRUE))
      BY <1>0, <1>2, <3>1
    <3> QED
      BY <3>2
  <2>2. \A v \in Values : ~ OneOf(flat, v)
    BY <1>2 DEF OneOf
  <2> QED
    BY <2>1, <2>2, ImpossibleIsExpr
<1>3. CASE copies = {} /\ Len(flat) = 1
  <2>1. e = flat[1]
    BY <1>0, <1>3
  <2>2. DOMAIN flat = {1} /\ flat[1] \in Exprs
    BY <1>3
  <2>3. \A v \in Values : OneOf(flat, v) <=> In(flat[1], v)
    BY <2>2 DEF OneOf
  <2> QED
    BY <2>1, <2>2, <2>3
<1>4. CASE copies = {} /\ Len(flat) = 2 /\ Subsumes(flat[1], flat[2])
  <2>1. e = <<"all", <<flat[2], <<"not", flat[1]>>>>>>
    BY <1>0, <1>4
  <2>2. Means(<<"all", <<flat[2], <<"not", flat[1]>>>>>>, flat)
    <3>1. Len(flat) = 2 /\ Subsumes(flat[1], flat[2])
      BY <1>4
    <3>2. \A a, b \in {1, 2} :
            a # b /\ Subsumes(flat[a], flat[b]) =>
              Means(<<"all", <<flat[b], <<"not", flat[a]>>>>>>, flat)
      BY <3>1, CoveredAlternative
    <3> QED
      BY <3>1, <3>2
  <2> QED
    BY <2>1, <2>2 DEF Means
<1>5. CASE copies = {} /\ Len(flat) = 2 /\ ~ Subsumes(flat[1], flat[2]) /\ Subsumes(flat[2], flat[1])
  <2>1. e = <<"all", <<flat[1], <<"not", flat[2]>>>>>>
    BY <1>0, <1>5
  <2>2. Means(<<"all", <<flat[1], <<"not", flat[2]>>>>>>, flat)
    BY <1>5, CoveredAlternative
  <2> QED
    BY <2>1, <2>2 DEF Means
<1>6. CASE /\ copies = {} /\ flat # <<>> /\ Len(flat) # 1
           /\ Len(flat) = 2 => ~ Subsumes(flat[1], flat[2]) /\ ~ Subsumes(flat[2], flat[1])
  <2>1. e = IF PairwiseDisjoint(flat) THEN <<"anyOf", flat, d>> ELSE <<"exactlyOne", flat, d>>
    BY <1>0, <1>6
  <2>2. <<"anyOf", flat, d>> \in Exprs /\ <<"exactlyOne", flat, d>> \in Exprs
    BY DEF Language, Grammar
  <2>3. \A v \in Values : /\ In(<<"anyOf", flat, d>>, v) <=> AnyOf(flat, v)
                          /\ In(<<"exactlyOne", flat, d>>, v) <=> OneOf(flat, v)
    BY <2>2, Meanings
  <2>4. PairwiseDisjoint(flat) => \A v \in Values : OneOf(flat, v) <=> AnyOf(flat, v)
    BY DisjointAlternatives
  <2> QED
    BY <2>1, <2>2, <2>3, <2>4
<1> QED
  BY <1>1, <1>2, <1>3, <1>4, <1>5, <1>6

-----------------------------------------------------------------------------
(* Distributing a conjunction over a union.                                *)

LEMMA BranchMeans ==
  ASSUME Language, NEW es \in Seq(Exprs), NEW i \in DOMAIN es, es[i][1] \in Combinators,
         NEW b \in DOMAIN es[i][2], NEW v \in Values
  PROVE  /\ b \in DOMAIN Branches(es, i) /\ es[i][2][b] \in Exprs
         /\ In(Branches(es, i)[b], v) <=>
              In(es[i][2][b], v) /\ \A k \in DOMAIN es \ {i} : In(es[k], v)
<1> DEFINE others == Without(es, {i})
           x == es[i][2][b]
           n == Len(others)
<1>1. es[i] \in Exprs /\ x \in Exprs
  BY IndexesAreNumbers, PartsAreSmaller
<1>2. others \in Seq(Exprs) /\ Selects(others, es, DOMAIN es \ {i})
  BY WithoutHolds
<1>3. b \in DOMAIN Branches(es, i) /\ Branches(es, i)[b] = <<"all", Append(others, x)>>
  BY DEF Branches
<1> HIDE DEF others, x
<1>4. Append(others, x) \in Seq(Exprs)
  BY <1>1, <1>2
<1>5. <<"all", Append(others, x)>> \in Exprs
  BY <1>4 DEF Language, Grammar
<1>6. In(Branches(es, i)[b], v) <=> AllOf(Append(others, x), v)
  <2> DEFINE e == <<"all", Append(others, x)>>
  <2>1. e \in Exprs /\ e[1] = "all" /\ e[2] = Append(others, x)
    BY <1>5
  <2> HIDE DEF e
  <2>2. In(e, v) <=> AllOf(e[2], v)
    BY <2>1, Meanings
  <2> QED
    BY <1>3, <2>1, <2>2 DEF e
<1>7. /\ DOMAIN Append(others, x) = 1 .. n + 1 /\ n \in Nat /\ DOMAIN others = 1 .. n
      /\ Append(others, x)[n + 1] = x
      /\ \A m \in 1 .. n : Append(others, x)[m] = others[m]
  BY <1>1, <1>2
<1>8. AllOf(Append(others, x), v) <=> In(x, v) /\ AllOf(others, v)
  <2>1. \A m \in 1 .. n + 1 : m \in 1 .. n \/ m = n + 1
    BY <1>7
  <2>2. n + 1 \in 1 .. n + 1 /\ \A m \in 1 .. n : m \in 1 .. n + 1
    BY <1>7
  <2> HIDE DEF n
  <2> QED
    BY <1>7, <2>1, <2>2 DEF AllOf
<1>9. AllOf(others, v) <=> \A k \in DOMAIN es \ {i} : In(es[k], v)
  BY <1>2 DEF AllOf, Selects
<1> QED
  BY <1>1, <1>3, <1>6, <1>8, <1>9 DEF x

(* Pushing the other operands into every alternative of a union, rewriting *)
(* each by whatever keeps its meaning and dropping those that come out     *)
(* impossible, leaves a union of the same kind that stands for the         *)
(* conjunction.                                                            *)
THEOREM DistributionKeepsMeaning ==
  ASSUME Language, NEW es \in Seq(Exprs), NEW i \in LoneUnion(es),
         NEW out \in Seq(Exprs), DOMAIN out = DOMAIN Branches(es, i),
         \A b \in DOMAIN out, v \in Values : In(out[b], v) <=> In(Branches(es, i)[b], v)
  PROVE  /\ Rejoined(es[i], out) \in Exprs
         /\ \A v \in Values : In(Rejoined(es[i], out), v) <=> AllOf(es, v)
<1> DEFINE live == Without(out, Are(out, "never"))
           whole == <<es[i][1], live, es[i][3]>>
           Others(v) == \A k \in DOMAIN es \ {i} : In(es[k], v)
<1>1. /\ i \in DOMAIN es /\ es[i] \in Exprs
      /\ es[i][1] \in {"exactlyOne", "anyOf"} /\ es[i][1] \in Combinators
  <2>1. i \in Are(es, "exactlyOne") \/ i \in Are(es, "anyOf")
    BY DEF LoneUnion
  <2>2. i \in DOMAIN es /\ es[i][1] \in {"exactlyOne", "anyOf"}
    BY <2>1 DEF Are
  <2> QED
    BY <2>2, IndexesAreNumbers DEF Combinators
<1>2. DOMAIN out = DOMAIN es[i][2]
  BY DEF Branches
<1>3. ASSUME NEW v \in Values, NEW b \in DOMAIN out
      PROVE  In(out[b], v) <=> In(es[i][2][b], v) /\ Others(v)
  BY <1>1, <1>2, <1>3, BranchMeans
<1>4. ASSUME NEW v \in Values PROVE AllOf(es, v) <=> In(es[i], v) /\ Others(v)
  BY <1>1 DEF AllOf
<1>5. live \in Seq(Exprs)
  BY WithoutKeeps
<1>6. ASSUME NEW v \in Values
      PROVE  (AnyOf(live, v) <=> AnyOf(out, v)) /\ (OneOf(live, v) <=> OneOf(out, v))
  <2>1. \A b \in DOMAIN out \cap Are(out, "never") : ~ In(out[b], v)
    <3>1. \A b \in DOMAIN out : out[b] \in Exprs
      BY IndexesAreNumbers
    <3> QED
      BY <3>1, Meanings DEF Are
  <2>2. \A b \in DOMAIN out \cap Are(out, "never") :
          In(out[b], v) => \E k \in DOMAIN out \ Are(out, "never") : In(out[k], v)
    BY <2>1
  <2>3. AnyOf(live, v) <=> AnyOf(out, v)
    BY <2>2, WithoutKeepsAny
  <2>4. OneOf(live, v) <=> OneOf(out, v)
    BY <2>1, WithoutKeepsOne
  <2> QED
    BY <2>3, <2>4
<1>7. Rejoined(es[i], out) = IF live = <<>> THEN Never(TRUE) ELSE whole
  BY DEF Rejoined
<1> HIDE DEF live, Others
<1>8. whole \in Exprs /\ whole[1] = es[i][1] /\ whole[2] = live
  <2>1. es[i][3] \in Discriminators
    BY <1>1 DEF Language, Grammar
  <2> QED
    BY <1>1, <1>5, <2>1 DEF Language, Grammar
<1>9. ASSUME NEW v \in Values PROVE In(whole, v) <=> AllOf(es, v)
  <2>1. CASE es[i][1] = "anyOf"
    <3>1. In(whole, v) <=> AnyOf(out, v)
      BY <1>6, <1>8, <2>1, Meanings
    <3>2. In(es[i], v) <=> AnyOf(es[i][2], v)
      BY <1>1, <2>1, Meanings
    <3>3. AnyOf(out, v) <=> AnyOf(es[i][2], v) /\ Others(v)
      BY <1>2, <1>3 DEF AnyOf
    <3> QED
      BY <1>4, <3>1, <3>2, <3>3
  <2>2. CASE es[i][1] = "exactlyOne"
    <3>1. In(whole, v) <=> OneOf(out, v)
      BY <1>6, <1>8, <2>2, Meanings
    <3>2. In(es[i], v) <=> OneOf(es[i][2], v)
      BY <1>1, <2>2, Meanings
    <3>3. OneOf(out, v) <=> OneOf(es[i][2], v) /\ Others(v)
      BY <1>2, <1>3 DEF OneOf
    <3> QED
      BY <1>4, <3>1, <3>2, <3>3
  <2> QED
    BY <1>1, <2>1, <2>2
<1>10. CASE live = <<>>
  <2>1. \A v \in Values : ~ AnyOf(live, v) /\ ~ OneOf(live, v)
    BY <1>10 DEF AnyOf, OneOf
  <2>2. \A v \in Values : ~ In(whole, v)
    BY <1>1, <1>8, <2>1, Meanings
  <2>3. Rejoined(es[i], out) = Never(TRUE)
    BY <1>7, <1>10
  <2> QED
    BY <1>9, <2>2, <2>3, ImpossibleIsExpr
<1>11. CASE live # <<>>
  BY <1>7, <1>8, <1>9, <1>11
<1> QED
  BY <1>10, <1>11

-----------------------------------------------------------------------------
(* Flattening.                                                             *)

Elements(es) == {es[i] : i \in DOMAIN es}

LEMMA ElementsMean ==
  ASSUME NEW es, NEW v
  PROVE  /\ AllOf(es, v) <=> \A x \in Elements(es) : In(x, v)
         /\ AnyOf(es, v) <=> \E x \in Elements(es) : In(x, v)
BY DEF AllOf, AnyOf, Elements

LEMMA ElementsOfConcat ==
  ASSUME NEW S, NEW s \in Seq(S), NEW t \in Seq(S)
  PROVE  Elements(s \o t) = Elements(s) \cup Elements(t)
<1>1. /\ DOMAIN s = 1 .. Len(s) /\ DOMAIN t = 1 .. Len(t) /\ Len(s) \in Nat /\ Len(t) \in Nat
      /\ DOMAIN (s \o t) = 1 .. Len(s) + Len(t)
      /\ \A i \in 1 .. Len(s) + Len(t) : (s \o t)[i] = IF i <= Len(s) THEN s[i] ELSE t[i - Len(s)]
  OBVIOUS
<1>2. ASSUME NEW i \in DOMAIN s PROVE s[i] \in Elements(s \o t)
  <2>1. i \in 1 .. Len(s) + Len(t) /\ i <= Len(s)
    BY <1>1
  <2>2. (s \o t)[i] = s[i]
    BY <1>1, <2>1
  <2> QED
    BY <1>1, <2>1, <2>2 DEF Elements
<1>3. ASSUME NEW i \in DOMAIN t PROVE t[i] \in Elements(s \o t)
  <2>1. Len(s) + i \in 1 .. Len(s) + Len(t) /\ ~ (Len(s) + i <= Len(s)) /\ (Len(s) + i) - Len(s) = i
    BY <1>1
  <2>2. (s \o t)[Len(s) + i] = t[i]
    BY <1>1, <2>1
  <2> QED
    BY <1>1, <2>1, <2>2 DEF Elements
<1>4. ASSUME NEW i \in 1 .. Len(s) + Len(t) PROVE (s \o t)[i] \in Elements(s) \cup Elements(t)
  <2>1. CASE i <= Len(s)
    BY <1>1, <2>1 DEF Elements
  <2>2. CASE ~ (i <= Len(s))
    <3>1. i - Len(s) \in DOMAIN t
      BY <1>1, <2>2
    <3>2. (s \o t)[i] = t[i - Len(s)]
      BY <1>1, <2>2
    <3> QED
      BY <3>1, <3>2 DEF Elements
  <2> QED
    BY <2>1, <2>2
<1> QED
  BY <1>1, <1>2, <1>3, <1>4 DEF Elements

LEMMA FlattenSeqHolds ==
  ASSUME NEW S, NEW ss \in Seq(Seq(S))
  PROVE  /\ FlattenSeq(ss) \in Seq(S)
         /\ Elements(FlattenSeq(ss)) = UNION {Elements(ss[j]) : j \in DOMAIN ss}
<1> DEFINE n == Len(ss)
           g == [p \in Seq(S) \X (1 .. n) |-> p[1] \o ss[p[2]]]
           Rows(f) == f = [i \in 1 .. n |-> IF i = 1 THEN ss[i] ELSE f[i - 1] \o ss[i]]
           flatten == CHOOSE f : Rows(f)
           Upto(k) == UNION {Elements(ss[j]) : j \in 1 .. k}
<1>1. n \in Nat /\ DOMAIN ss = 1 .. n /\ \A j \in 1 .. n : ss[j] \in Seq(S)
  BY IndexesAreNumbers
<1>2. CASE n = 0
  <2>1. FlattenSeq(ss) = <<>> /\ DOMAIN ss = {} /\ <<>> \in Seq(S)
    BY <1>1, <1>2 DEF FlattenSeq
  <2> QED
    BY <2>1 DEF Elements
<1>3. CASE n # 0
  <2>1. FlattenSeq(ss) = flatten[n]
    BY <1>3 DEF FlattenSeq
  <2> HIDE DEF n
  <2>2. g \in [Seq(S) \X (1 .. n) -> Seq(S)] /\ <<>> \in Seq(S)
    BY <1>1
  <2>3. PICK h : Repeats(h, Seq(S), <<>>, n, g)
    <3> HIDE DEF g
    <3> QED
      BY <1>1, <2>2, StepsExist
  <2>4. ASSUME NEW k \in 1 .. n PROVE h[k] = h[k - 1] \o ss[k] /\ h[k - 1] \in Seq(S) /\ h[k] \in Seq(S)
    <3>1. k - 1 \in 0 .. n /\ k \in 0 .. n
      BY <1>1
    <3>2. h[k - 1] \in Seq(S) /\ h[k] \in Seq(S)
      BY <2>3, <3>1 DEF Repeats
    <3>3. h[k] = g[<<h[k - 1], k>>]
      BY <2>3 DEF Repeats
    <3> QED
      BY <3>2, <3>3
  <2>5. h[0] = <<>>
    BY <2>3 DEF Repeats
  <2> DEFINE f == [k \in 1 .. n |-> h[k]]
  <2>6. ASSUME NEW i \in 1 .. n PROVE f[i] = IF i = 1 THEN ss[i] ELSE f[i - 1] \o ss[i]
    <3>1. CASE i = 1
      <4>1. ss[1] \in Seq(S) /\ 1 - 1 = 0
        BY <1>1, <3>1
      <4>2. h[1] = h[1 - 1] \o ss[1]
        BY <2>4, <3>1
      <4>3. h[1] = <<>> \o ss[1]
        BY <2>5, <4>1, <4>2
      <4>4. <<>> \o ss[1] = ss[1]
        BY <4>1
      <4> QED
        BY <3>1, <4>3, <4>4
    <3>2. CASE i # 1
      <4>1. i - 1 \in 1 .. n
        BY <1>1, <3>2
      <4> QED
        BY <2>4, <3>2, <4>1
    <3> QED
      BY <3>1, <3>2
  <2>7. Rows(f)
    BY <2>6
  <2>8. Rows(flatten)
    BY <2>7
  <2> HIDE DEF flatten
  <2>9. \A i \in 1 .. n : flatten[i] = IF i = 1 THEN ss[i] ELSE flatten[i - 1] \o ss[i]
    BY <2>8
  <2> DEFINE T == {k \in 1 .. n : flatten[k] \in Seq(S) /\ Elements(flatten[k]) = Upto(k)}
             steps == [k \in 0 .. n - 1 |-> k + 1]
  <2>10. 1 \in T
    <3>1. 1 \in 1 .. n /\ 1 .. 1 = {1}
      BY <1>1, <1>3
    <3>2. flatten[1] = ss[1]
      BY <2>9, <3>1
    <3>3. Upto(1) = Elements(ss[1])
      BY <3>1
    <3> QED
      BY <1>1, <3>1, <3>2, <3>3
  <2>11. ASSUME NEW k \in 1 .. n - 1, k \in T PROVE k + 1 \in T
    <3>1. k \in 1 .. n /\ k + 1 \in 1 .. n /\ k + 1 # 1 /\ (k + 1) - 1 = k
      BY <1>1
    <3>2. flatten[k + 1] = flatten[k] \o ss[k + 1]
      BY <2>9, <3>1
    <3>3. flatten[k] \in Seq(S) /\ Elements(flatten[k]) = Upto(k) /\ ss[k + 1] \in Seq(S)
      BY <1>1, <2>11, <3>1
    <3>4. Elements(flatten[k + 1]) = Upto(k) \cup Elements(ss[k + 1])
      BY <3>2, <3>3, ElementsOfConcat
    <3>5. 1 .. k + 1 = (1 .. k) \cup {k + 1}
      BY <3>1
    <3>6. Upto(k + 1) = Upto(k) \cup Elements(ss[k + 1])
      BY <3>5
    <3>7. flatten[k + 1] \in Seq(S)
      BY <3>2, <3>3
    <3> QED
      BY <3>1, <3>4, <3>6, <3>7
  <2> HIDE DEF T
  <2>12. n \in T
    <3>1. n - 1 \in Nat /\ steps[0] \in T /\ n - 1 \in 0 .. n - 1
      BY <1>1, <1>3, <2>10
    <3>2. ASSUME NEW k \in 1 .. n - 1, steps[k - 1] \in T PROVE steps[k] \in T
      <4>1. k - 1 \in 0 .. n - 1 /\ k \in 0 .. n - 1 /\ (k - 1) + 1 = k
        BY <1>1
      <4>2. steps[k - 1] = k /\ steps[k] = k + 1
        BY <4>1
      <4> QED
        BY <2>11, <3>2, <4>2
    <3>3. steps[n - 1] = n
      BY <1>1, <3>1
    <3> HIDE DEF steps
    <3>4. steps[n - 1] \in T
      BY <3>1, <3>2, StepsStay
    <3> QED
      BY <3>3, <3>4
  <2> QED
    BY <1>1, <2>1, <2>12 DEF T
<1> QED
  BY <1>2, <1>3


(* FlattenAll, and FlattenAnyOf, do what they should with es.              *)
FlatAll(es) ==
  FlattenAll(es) \in Seq(Exprs) /\ \A v \in Values : AllOf(FlattenAll(es), v) <=> AllOf(es, v)
FlatAny(es) ==
  FlattenAnyOf(es) \in Seq(Exprs) /\ \A v \in Values : AnyOf(FlattenAnyOf(es), v) <=> AnyOf(es, v)

LEMMA FlattenAllStep ==
  ASSUME Language, NEW es \in Seq(Exprs), \A i \in DOMAIN es : es[i][1] = "all" => FlatAll(es[i][2])
  PROVE  FlatAll(es)
<1> DEFINE part == [i \in DOMAIN es |-> IF es[i][1] = "all" THEN FlattenAll(es[i][2]) ELSE <<es[i]>>]
<1>1. DOMAIN es = 1 .. Len(es) /\ Len(es) \in Nat /\ \A i \in DOMAIN es : es[i] \in Exprs
  BY IndexesAreNumbers
<1>2. FlattenAll(es) = FlattenSeq(part)
  BY DEF Language, Knots, FlattenAllBy
<1>3. ASSUME NEW i \in DOMAIN es
      PROVE  /\ part[i] \in Seq(Exprs)
             /\ \A v \in Values : In(es[i], v) <=> \A x \in Elements(part[i]) : In(x, v)
  <2>1. CASE es[i][1] = "all"
    <3>1. part[i] = FlattenAll(es[i][2]) /\ FlatAll(es[i][2])
      BY <2>1
    <3>2. \A v \in Values : In(es[i], v) <=> AllOf(es[i][2], v)
      BY <1>1, <2>1, Meanings
    <3>3. \A v \in Values : In(es[i], v) <=> AllOf(part[i], v)
      BY <3>1, <3>2 DEF FlatAll
    <3> HIDE DEF part
    <3> QED
      BY <3>1, <3>3, ElementsMean DEF FlatAll
  <2>2. CASE es[i][1] # "all"
    <3>1. part[i] = <<es[i]>> /\ <<es[i]>> \in Seq(Exprs) /\ Elements(<<es[i]>>) = {es[i]}
      BY <1>1, <2>2 DEF Elements
    <3> QED
      BY <3>1
  <2> QED
    BY <2>1, <2>2
<1>4. DOMAIN part = DOMAIN es
  OBVIOUS
<1> HIDE DEF part
<1>5. part \in Seq(Seq(Exprs))
  <2>1. part \in [1 .. Len(es) -> Seq(Exprs)]
    <3>1. part = [i \in DOMAIN es |-> part[i]]
      BY DEF part
    <3> QED
      BY <1>1, <1>3, <3>1
  <2> QED
    BY <1>1, <2>1
<1>6. /\ FlattenSeq(part) \in Seq(Exprs)
      /\ Elements(FlattenSeq(part)) = UNION {Elements(part[j]) : j \in DOMAIN part}
  BY <1>5, FlattenSeqHolds
<1>7. ASSUME NEW v \in Values PROVE AllOf(FlattenSeq(part), v) <=> AllOf(es, v)
  <2>1. AllOf(FlattenSeq(part), v) <=> \A i \in DOMAIN es : \A x \in Elements(part[i]) : In(x, v)
    BY <1>4, <1>6, ElementsMean
  <2> QED
    BY <1>3, <2>1 DEF AllOf
<1> QED
  BY <1>2, <1>6, <1>7 DEF FlatAll

LEMMA FlattenAnyOfStep ==
  ASSUME Language, NEW es \in Seq(Exprs), \A i \in DOMAIN es : es[i][1] = "anyOf" => FlatAny(es[i][2])
  PROVE  FlatAny(es)
<1> DEFINE part == [i \in DOMAIN es |-> IF es[i][1] = "anyOf" /\ es[i][3] = <<>>
                                        THEN FlattenAnyOf(es[i][2]) ELSE <<es[i]>>]
<1>1. DOMAIN es = 1 .. Len(es) /\ Len(es) \in Nat /\ \A i \in DOMAIN es : es[i] \in Exprs
  BY IndexesAreNumbers
<1>2. FlattenAnyOf(es) = FlattenSeq(part)
  BY DEF Language, Knots, FlattenAnyOfBy
<1>3. ASSUME NEW i \in DOMAIN es
      PROVE  /\ part[i] \in Seq(Exprs)
             /\ \A v \in Values : In(es[i], v) <=> \E x \in Elements(part[i]) : In(x, v)
  <2>1. CASE es[i][1] = "anyOf" /\ es[i][3] = <<>>
    <3>1. part[i] = FlattenAnyOf(es[i][2]) /\ FlatAny(es[i][2])
      BY <2>1
    <3>2. \A v \in Values : In(es[i], v) <=> AnyOf(es[i][2], v)
      BY <1>1, <2>1, Meanings
    <3>3. \A v \in Values : In(es[i], v) <=> AnyOf(part[i], v)
      BY <3>1, <3>2 DEF FlatAny
    <3> HIDE DEF part
    <3> QED
      BY <3>1, <3>3, ElementsMean DEF FlatAny
  <2>2. CASE ~ (es[i][1] = "anyOf" /\ es[i][3] = <<>>)
    <3>1. part[i] = <<es[i]>> /\ <<es[i]>> \in Seq(Exprs) /\ Elements(<<es[i]>>) = {es[i]}
      BY <1>1, <2>2 DEF Elements
    <3> QED
      BY <3>1
  <2> QED
    BY <2>1, <2>2
<1>4. DOMAIN part = DOMAIN es
  OBVIOUS
<1> HIDE DEF part
<1>5. part \in Seq(Seq(Exprs))
  <2>1. part \in [1 .. Len(es) -> Seq(Exprs)]
    <3>1. part = [i \in DOMAIN es |-> part[i]]
      BY DEF part
    <3> QED
      BY <1>1, <1>3, <3>1
  <2> QED
    BY <1>1, <2>1
<1>6. /\ FlattenSeq(part) \in Seq(Exprs)
      /\ Elements(FlattenSeq(part)) = UNION {Elements(part[j]) : j \in DOMAIN part}
  BY <1>5, FlattenSeqHolds
<1>7. ASSUME NEW v \in Values PROVE AnyOf(FlattenSeq(part), v) <=> AnyOf(es, v)
  <2>1. AnyOf(FlattenSeq(part), v) <=> \E i \in DOMAIN es : \E x \in Elements(part[i]) : In(x, v)
    BY <1>4, <1>6, ElementsMean
  <2> QED
    BY <1>3, <2>1 DEF AnyOf
<1> QED
  BY <1>2, <1>6, <1>7 DEF FlatAny

(* Merging nested conjunctions into their parent, or nested unions without *)
(* a discriminator into theirs, at whatever depth, changes nothing.        *)
THEOREM FlatteningKeepsMeaning ==
  ASSUME Language
  PROVE  \A es \in Seq(Exprs) :
           /\ FlattenAll(es) \in Seq(Exprs) /\ FlattenAnyOf(es) \in Seq(Exprs)
           /\ \A v \in Values : /\ AllOf(FlattenAll(es), v) <=> AllOf(es, v)
                                /\ AnyOf(FlattenAnyOf(es), v) <=> AnyOf(es, v)
<1> DEFINE Flat(e) == (e[1] = "all" => FlatAll(e[2])) /\ (e[1] = "anyOf" => FlatAny(e[2]))
           Bad == {e \in Exprs : ~ Flat(e)}
<1>1. ASSUME NEW e \in Exprs, \A f \in Exprs : Height(f) < Height(e) => Flat(f)
      PROVE  Flat(e)
  <2>1. ASSUME e[1] \in {"all", "anyOf"}
        PROVE  e[2] \in Seq(Exprs) /\ \A i \in DOMAIN e[2] : Flat(e[2][i])
    <3>1. e[2] \in Seq(Exprs) /\ \A i \in DOMAIN e[2] : e[2][i] \in Exprs /\ Height(e[2][i]) < Height(e)
      BY <2>1, PartsAreSmaller DEF Combinators
    <3> QED
      BY <1>1, <3>1
  <2>2. CASE e[1] = "all"
    BY <2>1, <2>2, FlattenAllStep
  <2>3. CASE e[1] = "anyOf"
    BY <2>1, <2>3, FlattenAnyOfStep
  <2> QED
    BY <2>2, <2>3
<1> HIDE DEF Flat
<1>2. ASSUME Bad # {} PROVE FALSE
  <2>1. PICK e \in Bad : \A f \in Bad : ~ (Height(f) < Height(e))
    BY <1>2, HasSmallest
  <2> QED
    BY <1>1, <2>1
<1>3. ASSUME NEW es \in Seq(Exprs) PROVE FlatAll(es) /\ FlatAny(es)
  <2>1. \A i \in DOMAIN es : Flat(es[i])
    BY <1>2, IndexesAreNumbers
  <2>2. /\ \A i \in DOMAIN es : es[i][1] = "all" => FlatAll(es[i][2])
        /\ \A i \in DOMAIN es : es[i][1] = "anyOf" => FlatAny(es[i][2])
    BY <2>1 DEF Flat
  <2> QED
    BY <2>2, FlattenAllStep, FlattenAnyOfStep
<1> QED
  BY <1>3 DEF FlatAll, FlatAny

-----------------------------------------------------------------------------
(* Whole passes of Normalize keep the set of values an expression stands   *)
(* for, whatever the schema, the budget and the cell `contains` points to. *)
(*                                                                         *)
(* Nothing here says that a pass returns: Calls are the calls of Rewrite   *)
(* that do, and Depth is how deep the calls are nested that one makes.     *)

CONSTANTS
  Labels,      (* the names of members, and those of patterns              *)
  Size(_),     (* of a value                                               *)
  Schemas,
  Calls,       (* expressions and states Rewrite returns from              *)
  Depth(_)     (* of a call                                                *)

Forms == Combinators \cup {"any", "never", "kinds", "literal", "minimum", "not",
                           "contains", "shape", "items"}

(* What a shape, or what is said of items, is made of.                     *)
Nesting ==
  /\ \A e \in Exprs : e[1] = "items" => e[2] \in Seq(Exprs) /\ e[3] \in Seq(Exprs)
  /\ \A e \in Exprs : e[1] = "shape" =>
       e[2] \in Seq(Labels \X Exprs) /\ e[3] \in Seq(Labels \X Exprs) /\ e[4] \in Seq(Exprs)
  /\ \A e \in Exprs : e[1] \in {"shape", "items"} =>
       \A i \in DOMAIN Members(e) : Height(Members(e)[i]) < Height(e)
  /\ \A s, t \in Seq(Exprs) : <<"items", s, t>> \in Exprs
  /\ \A s, t \in Seq(Labels \X Exprs), r \in Seq(Exprs) : <<"shape", s, t, r>> \in Exprs

(* What an array or an object holds is a smaller value.                    *)
Wholes ==
  \A v \in Values :
    /\ Size(v) \in Nat
    /\ KindOf(v) = "array" => v[2] \in Seq(Values)
    /\ KindOf(v) \in {"array", "object"} =>
         \A n \in DOMAIN v[2] : v[2][n] \in Values /\ Size(v[2][n]) < Size(v)

(* What an expression stands for, whatever the cell holds: only `contains` *)
(* looks there.                                                            *)
MeaningOfCells ==
  /\ Cell \in Exprs
  /\ \A e, d \in Exprs, v \in Values : e[1] \in Forms => (Accepts(e, d, v) <=> AcceptsBy(e, d, v))
  /\ \A e, d \in Exprs, v \in Values : e[1] \notin Forms => (Accepts(e, d, v) <=> Accepts(e, Cell, v))

Setting == Language /\ Nesting /\ Wholes /\ MeaningOfCells /\ <<>> \in Discriminators

(* The calls a call of Rewrite makes itself.                               *)
EachCalls(es, st) == {<<es[n], RewriteUpto(es, st)[n - 1].st>> : n \in 1 .. Len(es)}

Distributed(es, st) == RewriteEach(Branches(es, UnionAt(es)), Paid(st))

FlatCalls(es, st) ==
  IF Distributes(es, st)
  THEN EachCalls(Branches(es, UnionAt(es)), Paid(st))
       \cup {<<Rejoined(es[UnionAt(es)], Distributed(es, st).out), Distributed(es, st).st>>}
  ELSE EachCalls(es, st)

MoreCalls(e, st) == IF e.more THEN {<<e.out, st>>} ELSE {}

OneCalls(es, d, st) ==
  EachCalls(es, st) \cup MoreCalls(OneOfLive(RewriteEach(es, st).out, d), RewriteEach(es, st).st)

SubCalls(e, st) ==
  CASE e[1] = "all"        -> FlatCalls(FlattenAll(e[2]), st)
    [] e[1] = "anyOf"      -> EachCalls(e[2], st)
    [] e[1] = "exactlyOne" -> OneCalls(e[2], e[3], st)
    [] e[1] = "not"        -> {<<e[2], st>>}
    [] e[1] \in {"shape", "items"} -> EachCalls(Members(e), st)
    [] e[1] = "contains"   -> {<<st.detail, st>>}
    [] OTHER               -> {}

(* A call that returns is what the definition makes of it, and the calls   *)
(* it makes are nested less deep than it is.                               *)
Returning ==
  \A c \in Calls :
    /\ Rewrite(c[1], c[2]) = RewriteBy(c[1], c[2])
    /\ Depth(c) \in Nat
    /\ \A s \in SubCalls(c[1], c[2]) : s \in Calls /\ Depth(s) < Depth(c)

-----------------------------------------------------------------------------
(* What a call keeps.                                                      *)

Same(a, b) == \A v \in Values : In(a, v) <=> In(b, v)

(* One expression may stand where the other did.                           *)
Stands(new, old) == new \in Exprs /\ Same(new, old)

Held(st) == st \in [budget : Int, detail : Exprs] /\ Stands(st.detail, Cell)

Result(r, old) == r = [out |-> r.out, st |-> r.st] /\ Stands(r.out, old) /\ Held(r.st)

Keeps(c) == c[1] \in Exprs /\ Held(c[2]) => Result(Rewrite(c[1], c[2]), c[1])

(* r is what has become of the first n of es.                              *)
Results(r, es, n) ==
  /\ r = [out |-> r.out, st |-> r.st]
  /\ r.out \in Seq(Exprs) /\ Len(r.out) = n
  /\ \A i \in 1 .. n : Stands(r.out[i], es[i])
  /\ Held(r.st)

-----------------------------------------------------------------------------
(* Operands in turn.                                                       *)

(* The recursion over the operands has a value.                            *)
LEMMA UptoUnfolds ==
  ASSUME NEW S, NEW es \in Seq(S), NEW st
  PROVE  /\ RewriteUpto(es, st)[0] = [out |-> <<>>, st |-> st]
         /\ \A n \in 1 .. Len(es) :
              RewriteUpto(es, st)[n] =
                Appending(RewriteUpto(es, st)[n - 1], Rewrite(es[n], RewriteUpto(es, st)[n - 1].st))
<1> DEFINE first == [out |-> <<>>, st |-> st]
           Step(r, n) == Appending(r, Rewrite(es[n], r.st))
           Upto(f, m) == f = [n \in 0 .. m |-> IF n = 0 THEN first ELSE Step(f[n - 1], n)]
           Bad == {m \in Nat : ~ \E f : Upto(f, m)}
<1>1. \E f : Upto(f, 0)
  <2>1. Upto([n \in 0 .. 0 |-> first], 0)
    OBVIOUS
  <2> QED
    BY <2>1
<1>2. ASSUME NEW m \in Nat, NEW g, Upto(g, m)
      PROVE  \E f : Upto(f, m + 1)
  <2> DEFINE f == [n \in 0 .. m + 1 |-> IF n = m + 1 THEN Step(g[m], m + 1) ELSE g[n]]
  <2> HIDE DEF Step, first
  <2>1. ASSUME NEW n \in 0 .. m + 1
        PROVE  f[n] = IF n = 0 THEN first ELSE Step(f[n - 1], n)
    <3>1. CASE n = m + 1
      <4>1. m \in 0 .. m + 1 /\ m # m + 1 /\ n # 0 /\ n - 1 = m
        BY <3>1
      <4> QED
        BY <3>1, <4>1
    <3>2. CASE n = 0
      <4>1. 0 \in 0 .. m /\ n # m + 1
        BY <3>2
      <4>2. g[0] = first
        BY <1>2, <4>1
      <4> QED
        BY <3>2, <4>1, <4>2
    <3>3. CASE n # 0 /\ n # m + 1
      <4>1. n \in 0 .. m /\ n - 1 \in 0 .. m + 1 /\ n - 1 # m + 1
        BY <3>3
      <4>2. g[n] = Step(g[n - 1], n)
        BY <1>2, <3>3, <4>1
      <4> QED
        BY <3>3, <4>1, <4>2
    <3> QED
      BY <3>1, <3>2, <3>3
  <2>2. f = [n \in 0 .. m + 1 |-> f[n]]
    OBVIOUS
  <2> HIDE DEF f
  <2>3. Upto(f, m + 1)
    BY <2>1, <2>2
  <2> QED
    BY <2>3
<1> HIDE DEF Upto
<1>3. Bad = {}
  <2> SUFFICES ASSUME Bad # {} PROVE FALSE
    OBVIOUS
  <2>1. PICK m \in Bad : \A k \in Bad : m <= k
    BY HasLeast
  <2>2. m # 0
    BY <1>1
  <2>3. m - 1 \in Nat /\ m - 1 + 1 = m /\ ~ (m <= m - 1)
    BY <2>2
  <2>4. m - 1 \notin Bad
    BY <2>1, <2>3
  <2>5. \E f : Upto(f, m)
    BY <1>2, <2>3, <2>4
  <2> QED
    BY <2>5
<1>4. Len(es) \in Nat
  OBVIOUS
<1>5. \E f : Upto(f, Len(es))
  BY <1>3, <1>4
<1> DEFINE upto == CHOOSE f : Upto(f, Len(es))
<1>6. Upto(upto, Len(es))
  BY <1>5
<1>7. RewriteUpto(es, st) = upto
  BY DEF RewriteUpto, Upto
<1> HIDE DEF upto
<1>8. \A n \in 0 .. Len(es) : upto[n] = IF n = 0 THEN first ELSE Step(upto[n - 1], n)
  BY <1>6 DEF Upto
<1> QED
  BY <1>4, <1>7, <1>8

(* Each operand is rewritten from the state the one before it has left.    *)
LEMMA EachKeeps ==
  ASSUME NEW es \in Seq(Exprs), NEW st, Held(st), \A s \in EachCalls(es, st) : Keeps(s)
  PROVE  Results(RewriteEach(es, st), es, Len(es))
<1> DEFINE f == RewriteUpto(es, st)
           Bad == {n \in 0 .. Len(es) : ~ Results(f[n], es, n)}
<1>1. /\ f[0] = [out |-> <<>>, st |-> st]
      /\ \A n \in 1 .. Len(es) : f[n] = Appending(f[n - 1], Rewrite(es[n], f[n - 1].st))
  BY UptoUnfolds
<1>2. \A n \in 1 .. Len(es) : Keeps(<<es[n], f[n - 1].st>>)
  BY DEF EachCalls
<1> HIDE DEF f
<1>3. Results(f[0], es, 0)
  <2>1. <<>> \in Seq(Exprs) /\ Len(<<>>) = 0 /\ \A i \in 1 .. 0 : FALSE
    OBVIOUS
  <2> QED
    BY <1>1, <2>1 DEF Results
<1>4. ASSUME NEW n \in 1 .. Len(es), Results(f[n - 1], es, n - 1)
      PROVE  Results(f[n], es, n)
  <2> DEFINE before == f[n - 1]
             r == Rewrite(es[n], before.st)
  <2>1. before.out \in Seq(Exprs) /\ Len(before.out) = n - 1 /\ Held(before.st)
        /\ \A i \in 1 .. n - 1 : Stands(before.out[i], es[i])
    BY <1>4 DEF Results
  <2>2. es[n] \in Exprs
    OBVIOUS
  <2>3. Result(r, es[n])
    BY <1>2, <2>1, <2>2 DEF Keeps
  <2>4. f[n] = [out |-> Append(before.out, r.out), st |-> r.st]
    BY <1>1 DEF Appending
  <2>5. r.out \in Exprs /\ Stands(r.out, es[n]) /\ Held(r.st)
    BY <2>3 DEF Result, Stands
  <2> HIDE DEF before, r
  <2>6. f[n].out = Append(before.out, r.out) /\ f[n].st = r.st /\ f[n] = [out |-> f[n].out, st |-> f[n].st]
    BY <2>4
  <2>7. Append(before.out, r.out) \in Seq(Exprs) /\ Len(Append(before.out, r.out)) = n
    BY <2>1, <2>5
  <2>8. ASSUME NEW i \in 1 .. n PROVE Stands(Append(before.out, r.out)[i], es[i])
    <3>1. CASE i = n
      <4>1. Append(before.out, r.out)[i] = r.out
        BY <2>1, <2>5, <3>1
      <4> QED
        BY <2>5, <3>1, <4>1
    <3>2. CASE i # n
      <4>1. i \in 1 .. n - 1 /\ Append(before.out, r.out)[i] = before.out[i]
        BY <2>1, <2>5, <3>2
      <4> QED
        BY <2>1, <4>1
    <3> QED
      BY <3>1, <3>2
  <2> QED
    BY <2>5, <2>6, <2>7, <2>8 DEF Results
<1>5. Bad = {}
  <2> SUFFICES ASSUME Bad # {} PROVE FALSE
    OBVIOUS
  <2>1. Bad \in SUBSET Nat
    OBVIOUS
  <2>2. PICK n \in Bad : \A k \in Bad : n <= k
    BY <2>1, HasLeast
  <2>3. n \in 1 .. Len(es)
    BY <1>3
  <2>4. n - 1 \in 0 .. Len(es) /\ ~ (n <= n - 1)
    BY <2>3
  <2>5. Results(f[n - 1], es, n - 1)
    BY <2>2, <2>4
  <2> QED
    BY <1>4, <2>3, <2>5
<1>6. Len(es) \in 0 .. Len(es)
  OBVIOUS
<1> QED
  BY <1>5, <1>6 DEF f, RewriteEach

(* Operands rewritten stand together for what they stood for.              *)
LEMMA ResultsMean ==
  ASSUME NEW es \in Seq(Exprs), NEW r, Results(r, es, Len(es))
  PROVE  /\ r = [out |-> r.out, st |-> r.st] /\ Held(r.st)
         /\ r.out \in Seq(Exprs) /\ DOMAIN r.out = DOMAIN es
         /\ \A i \in DOMAIN es : Stands(r.out[i], es[i])
         /\ \A v \in Values : /\ AllOf(r.out, v) <=> AllOf(es, v)
                              /\ AnyOf(r.out, v) <=> AnyOf(es, v)
                              /\ OneOf(r.out, v) <=> OneOf(es, v)
<1>1. /\ r = [out |-> r.out, st |-> r.st] /\ Held(r.st)
      /\ r.out \in Seq(Exprs) /\ DOMAIN r.out = DOMAIN es
      /\ \A i \in DOMAIN es : Stands(r.out[i], es[i])
  BY DEF Results
<1>2. \A i \in DOMAIN es, v \in Values : In(r.out[i], v) <=> In(es[i], v)
  BY <1>1 DEF Stands, Same
<1> QED
  BY <1>1, <1>2 DEF AllOf, AnyOf, OneOf

LEMMA NotKeeps ==
  ASSUME Setting, NEW e \in Exprs, NEW st, Held(st), e[1] = "not",
         \A s \in SubCalls(e, st) : Keeps(s)
  PROVE  Result(RewriteBy(e, st), e)
<1> DEFINE r == Rewrite(e[2], st)
<1>1. Keeps(<<e[2], st>>)
  BY DEF SubCalls, Combinators
<1>2. e[2] \in Exprs
  BY PartsAreSmaller DEF Setting
<1>3. Result(r, e[2])
  BY <1>1, <1>2 DEF Keeps
<1>4. RewriteBy(e, st) = [r EXCEPT !.out = SimplifyNot(@)]
  BY DEF RewriteBy, RewriteNot
<1> HIDE DEF r
<1>5. r = [out |-> r.out, st |-> r.st] /\ r.out \in Exprs /\ Held(r.st) /\ Same(r.out, e[2])
  BY <1>3 DEF Result, Stands
<1>6. RewriteBy(e, st) = [out |-> SimplifyNot(r.out), st |-> r.st]
  BY <1>4, <1>5
<1>7. SimplifyNot(r.out) \in Exprs /\ \A v \in Values : In(SimplifyNot(r.out), v) <=> ~ In(r.out, v)
  BY <1>5, SimplifyNotKeepsMeaning DEF Setting
<1>8. \A v \in Values : In(e, v) <=> ~ In(e[2], v)
  BY Meanings DEF Setting
<1>9. Stands(SimplifyNot(r.out), e)
  BY <1>5, <1>7, <1>8 DEF Stands, Same
<1> QED
  BY <1>5, <1>6, <1>9 DEF Result

(* The cell is written to, with what stands for what it held.              *)
LEMMA ContainsKeeps ==
  ASSUME NEW e \in Exprs, NEW st, Held(st), e[1] = "contains",
         \A s \in SubCalls(e, st) : Keeps(s)
  PROVE  Result(RewriteBy(e, st), e)
<1> DEFINE r == Rewrite(st.detail, st)
<1>1. Keeps(<<st.detail, st>>)
  BY DEF SubCalls, Combinators
<1>2. st.detail \in Exprs /\ Same(st.detail, Cell)
  BY DEF Held, Stands
<1>3. Result(r, st.detail)
  BY <1>1, <1>2 DEF Keeps
<1>4. RewriteBy(e, st) = [out |-> e, st |-> [r.st EXCEPT !.detail = r.out]]
  BY DEF RewriteBy, RewriteContains, StoreDetail
<1> HIDE DEF r
<1>5. r.out \in Exprs /\ Held(r.st) /\ Same(r.out, st.detail)
  BY <1>3 DEF Result, Stands
<1>6. Stands(r.out, Cell)
  BY <1>2, <1>5 DEF Stands, Same
<1>7. Held([r.st EXCEPT !.detail = r.out])
  <2>1. r.st \in [budget : Int, detail : Exprs]
    BY <1>5 DEF Held
  <2>2. /\ [r.st EXCEPT !.detail = r.out] \in [budget : Int, detail : Exprs]
        /\ [r.st EXCEPT !.detail = r.out].detail = r.out
    BY <1>5, <2>1
  <2> QED
    BY <1>6, <2>2 DEF Held
<1>8. Stands(e, e)
  BY DEF Stands, Same
<1> QED
  BY <1>4, <1>7, <1>8 DEF Result

LEMMA AnyOfKeeps ==
  ASSUME Setting, NEW e \in Exprs, NEW st, Held(st), e[1] = "anyOf",
         \A s \in SubCalls(e, st) : Keeps(s)
  PROVE  Result(RewriteBy(e, st), e)
<1> DEFINE r == RewriteEach(e[2], st)
           out == SimplifyAnyOf(FlattenAnyOf(r.out), e[3])
<1>1. e[2] \in Seq(Exprs) /\ e[3] \in Discriminators
  BY DEF Setting, Language, Grammar, Combinators
<1>2. SubCalls(e, st) = EachCalls(e[2], st)
  BY DEF SubCalls
<1>3. RewriteBy(e, st) = [r EXCEPT !.out = SimplifyAnyOf(FlattenAnyOf(@), e[3])]
  BY DEF RewriteBy, RewriteAnyOf
<1>4. Results(r, e[2], Len(e[2]))
  BY <1>1, <1>2, EachKeeps
<1> HIDE DEF r
<1>5. /\ r = [out |-> r.out, st |-> r.st] /\ Held(r.st) /\ r.out \in Seq(Exprs)
      /\ \A v \in Values : AnyOf(r.out, v) <=> AnyOf(e[2], v)
  BY <1>1, <1>4, ResultsMean
<1>6. RewriteBy(e, st) = [out |-> out, st |-> r.st]
  BY <1>3, <1>5
<1>7. FlattenAnyOf(r.out) \in Seq(Exprs) /\ \A v \in Values : AnyOf(FlattenAnyOf(r.out), v) <=> AnyOf(r.out, v)
  BY <1>5, FlatteningKeepsMeaning DEF Setting
<1>8. out \in Exprs /\ \A v \in Values : In(out, v) <=> AnyOf(FlattenAnyOf(r.out), v)
  BY <1>1, <1>7, SimplifyAnyOfKeepsMeaning DEF Setting
<1>9. \A v \in Values : In(e, v) <=> AnyOf(e[2], v)
  BY Meanings DEF Setting
<1> HIDE DEF out
<1>10. Stands(out, e)
  BY <1>5, <1>7, <1>8, <1>9 DEF Stands, Same
<1> QED
  BY <1>5, <1>6, <1>10 DEF Result

(* What an exclusive union became stands for it, and so does what that is  *)
(* rewritten to in its turn.                                               *)
LEMMA ExactlyOneKeeps ==
  ASSUME Setting, NEW e \in Exprs, NEW st, Held(st), e[1] = "exactlyOne",
         \A s \in SubCalls(e, st) : Keeps(s)
  PROVE  Result(RewriteBy(e, st), e)
<1> DEFINE r == RewriteEach(e[2], st)
           flat == Without(r.out, Are(r.out, "never"))
           settled == OneOfLive(r.out, e[3])
<1>1. e[2] \in Seq(Exprs) /\ e[3] \in Discriminators
  BY DEF Setting, Language, Grammar, Combinators
<1>2. SubCalls(e, st) = EachCalls(e[2], st) \cup MoreCalls(settled, r.st)
  BY DEF SubCalls, OneCalls
<1>3. RewriteBy(e, st) = RewriteMore(settled, r.st)
  BY DEF RewriteBy, RewriteExactlyOne, SettleExactlyOne
<1>4. Results(r, e[2], Len(e[2]))
  BY <1>1, <1>2, EachKeeps
<1>5. settled = ExactlyOneOf(flat, e[3])
  BY DEF OneOfLive
<1> HIDE DEF r, flat, settled
<1>6. /\ Held(r.st) /\ r.out \in Seq(Exprs)
      /\ \A v \in Values : OneOf(r.out, v) <=> OneOf(e[2], v)
  BY <1>1, <1>4, ResultsMean
<1>7. flat \in Seq(Exprs) /\ \A v \in Values : OneOf(flat, v) <=> OneOf(r.out, v)
  <2>1. flat \in Seq(Exprs)
    BY <1>6, WithoutKeeps DEF flat
  <2>2. ASSUME NEW v \in Values PROVE OneOf(flat, v) <=> OneOf(r.out, v)
    <3>1. \A i \in DOMAIN r.out \cap Are(r.out, "never") : ~ In(r.out[i], v)
      BY <1>6, IndexesAreNumbers, Meanings DEF Are, Setting
    <3> QED
      BY <1>6, <3>1, WithoutKeepsOne DEF flat
  <2> QED
    BY <2>1, <2>2
<1>8. settled.out \in Exprs /\ \A v \in Values : In(settled.out, v) <=> OneOf(flat, v)
  BY <1>1, <1>5, <1>7, ExactlyOneOfKeepsMeaning DEF Setting
<1>9. \A v \in Values : In(e, v) <=> OneOf(e[2], v)
  BY Meanings DEF Setting
<1>10. Stands(settled.out, e)
  BY <1>6, <1>7, <1>8, <1>9 DEF Stands, Same
<1>11. CASE settled.more
  <2>1. RewriteBy(e, st) = Rewrite(settled.out, r.st)
    BY <1>3, <1>11 DEF RewriteMore
  <2>2. Keeps(<<settled.out, r.st>>)
    BY <1>2, <1>11 DEF MoreCalls
  <2>3. Result(RewriteBy(e, st), settled.out)
    BY <1>6, <1>8, <2>1, <2>2 DEF Keeps
  <2> QED
    BY <1>10, <2>3 DEF Result, Stands, Same
<1>12. CASE ~ settled.more
  <2>1. RewriteBy(e, st) = [out |-> settled.out, st |-> r.st]
    BY <1>3, <1>12 DEF RewriteMore
  <2> QED
    BY <1>6, <1>10, <2>1 DEF Result
<1> QED
  BY <1>11, <1>12

-----------------------------------------------------------------------------
(* Conjunctions.                                                           *)

LEMMA OperandsKeep ==
  ASSUME Setting, NEW es \in Seq(Exprs), NEW st, Held(st), \A s \in EachCalls(es, st) : Keeps(s)
  PROVE  LET r == RewriteOperands(es, st)
         IN  /\ r = [out |-> r.out, st |-> r.st] /\ Held(r.st) /\ r.out \in Exprs
             /\ \A v \in Values : In(r.out, v) <=> AllOf(es, v)
<1> DEFINE r == RewriteEach(es, st)
           out == SimplifyAll(FlattenAll(r.out))
<1>1. RewriteOperands(es, st) = [r EXCEPT !.out = SimplifyAll(FlattenAll(@))]
  BY DEF RewriteOperands
<1>2. Results(r, es, Len(es))
  BY EachKeeps
<1> HIDE DEF r
<1>3. /\ r = [out |-> r.out, st |-> r.st] /\ Held(r.st) /\ r.out \in Seq(Exprs)
      /\ \A v \in Values : AllOf(r.out, v) <=> AllOf(es, v)
  BY <1>2, ResultsMean
<1>4. RewriteOperands(es, st) = [out |-> out, st |-> r.st]
  BY <1>1, <1>3
<1>5. FlattenAll(r.out) \in Seq(Exprs) /\ \A v \in Values : AllOf(FlattenAll(r.out), v) <=> AllOf(r.out, v)
  BY <1>3, FlatteningKeepsMeaning DEF Setting
<1>6. out \in Exprs /\ \A v \in Values : In(out, v) <=> AllOf(FlattenAll(r.out), v)
  BY <1>5, SimplifyAllKeepsMeaning DEF Setting
<1> HIDE DEF out
<1> QED
  BY <1>3, <1>4, <1>5, <1>6

LEMMA BranchesAreExprs ==
  ASSUME Setting, NEW es \in Seq(Exprs), NEW i \in LoneUnion(es)
  PROVE  Branches(es, i) \in Seq(Exprs)
<1>1. i \in DOMAIN es /\ es[i] \in Exprs /\ es[i][1] \in Combinators
  <2>1. i \in Are(es, "exactlyOne") \cup Are(es, "anyOf")
    BY DEF LoneUnion
  <2> QED
    BY <2>1 DEF Are, Combinators
<1>2. es[i][2] \in Seq(Exprs)
  BY <1>1 DEF Setting, Language, Grammar
<1> DEFINE others == Without(es, {i})
           us == es[i][2]
<1>3. others \in Seq(Exprs)
  BY WithoutKeeps
<1>4. Branches(es, i) = [b \in 1 .. Len(us) |-> <<"all", Append(others, us[b])>>]
  BY <1>2 DEF Branches
<1> HIDE DEF others, us
<1>5. us \in Seq(Exprs) /\ Len(us) \in Nat
  BY <1>2 DEF us
<1>6. \A b \in 1 .. Len(us) : <<"all", Append(others, us[b])>> \in Exprs
  <2> SUFFICES ASSUME NEW b \in 1 .. Len(us) PROVE <<"all", Append(others, us[b])>> \in Exprs
    OBVIOUS
  <2>1. Append(others, us[b]) \in Seq(Exprs)
    BY <1>3, <1>5
  <2> QED
    BY <2>1 DEF Setting, Language, Grammar
<1> QED
  BY <1>4, <1>5, <1>6

LEMMA DistributeKeeps ==
  ASSUME Setting, NEW es \in Seq(Exprs), NEW st, Held(st), Distributes(es, st),
         \A s \in FlatCalls(es, st) : Keeps(s)
  PROVE  LET r == Distribute(es, UnionAt(es), st)
         IN  /\ r = [out |-> r.out, st |-> r.st] /\ Held(r.st) /\ r.out \in Exprs
             /\ \A v \in Values : In(r.out, v) <=> AllOf(es, v)
<1> DEFINE i == UnionAt(es)
           each == Distributed(es, st)
           joined == Rejoined(es[i], each.out)
<1>1. i \in LoneUnion(es)
  BY DEF Distributes, UnionAt
<1>2. Held(Paid(st))
  <2>1. st \in [budget : Int, detail : Exprs]
    BY DEF Held
  <2>2. Paid(st) \in [budget : Int, detail : Exprs] /\ Paid(st).detail = st.detail
    BY <2>1 DEF Paid
  <2> QED
    BY <2>2 DEF Held
<1>3. FlatCalls(es, st) = EachCalls(Branches(es, i), Paid(st)) \cup {<<joined, each.st>>}
  BY DEF FlatCalls
<1>4. Distribute(es, i, st) = Rewrite(joined, each.st)
  BY DEF Distribute, Rejoin, Distributed
<1>5. Branches(es, i) \in Seq(Exprs)
  BY <1>1, BranchesAreExprs
<1>6. Results(each, Branches(es, i), Len(Branches(es, i)))
  BY <1>2, <1>3, <1>5, EachKeeps DEF Distributed
<1> HIDE DEF i, each
<1>7. /\ Held(each.st) /\ each.out \in Seq(Exprs) /\ DOMAIN each.out = DOMAIN Branches(es, i)
      /\ \A b \in DOMAIN each.out, v \in Values : In(each.out[b], v) <=> In(Branches(es, i)[b], v)
  <2>1. /\ Held(each.st) /\ each.out \in Seq(Exprs) /\ DOMAIN each.out = DOMAIN Branches(es, i)
        /\ \A b \in DOMAIN Branches(es, i) : Stands(each.out[b], Branches(es, i)[b])
    BY <1>5, <1>6, ResultsMean
  <2> QED
    BY <2>1 DEF Stands, Same
<1>8. joined \in Exprs /\ \A v \in Values : In(joined, v) <=> AllOf(es, v)
  BY <1>1, <1>7, DistributionKeepsMeaning DEF Setting
<1> HIDE DEF joined
<1>9. Result(Distribute(es, i, st), joined)
  <2>1. Keeps(<<joined, each.st>>)
    BY <1>3
  <2> QED
    BY <1>4, <1>7, <1>8, <2>1 DEF Keeps
<1> QED
  BY <1>8, <1>9 DEF Result, Stands, Same, i

LEMMA AllKeeps ==
  ASSUME Setting, NEW e \in Exprs, NEW st, Held(st), e[1] = "all",
         \A s \in SubCalls(e, st) : Keeps(s)
  PROVE  Result(RewriteBy(e, st), e)
<1> DEFINE flat == FlattenAll(e[2])
           r == RewriteFlat(flat, st)
<1>1. e[2] \in Seq(Exprs)
  BY DEF Setting, Language, Grammar, Combinators
<1>2. SubCalls(e, st) = FlatCalls(flat, st)
  BY DEF SubCalls
<1>3. RewriteBy(e, st) = r
  BY DEF RewriteBy, RewriteAll
<1>4. flat \in Seq(Exprs) /\ \A v \in Values : AllOf(flat, v) <=> AllOf(e[2], v)
  BY <1>1, FlatteningKeepsMeaning DEF Setting
<1>5. \A v \in Values : In(e, v) <=> AllOf(e[2], v)
  BY Meanings DEF Setting
<1> HIDE DEF flat
<1>6. /\ r = [out |-> r.out, st |-> r.st] /\ Held(r.st) /\ r.out \in Exprs
      /\ \A v \in Values : In(r.out, v) <=> AllOf(flat, v)
  <2>1. CASE Distributes(flat, st)
    BY <1>2, <1>4, <2>1, DistributeKeeps DEF RewriteFlat
  <2>2. CASE ~ Distributes(flat, st)
    <3>1. FlatCalls(flat, st) = EachCalls(flat, st)
      BY <2>2 DEF FlatCalls
    <3> QED
      BY <1>2, <1>4, <2>2, <3>1, OperandsKeep DEF RewriteFlat
  <2> QED
    BY <2>1, <2>2
<1> HIDE DEF r
<1>7. Stands(r.out, e)
  BY <1>4, <1>5, <1>6 DEF Stands, Same
<1> QED
  BY <1>3, <1>6, <1>7 DEF Result

-----------------------------------------------------------------------------
(* Shapes, and what is said of items.                                      *)

(* s is a, b and c one after the other.                                    *)
Joins(s, a, b, c) ==
  /\ Len(s) = Len(a) + Len(b) + Len(c)
  /\ \A i \in 1 .. Len(a) : s[i] = a[i]
  /\ \A i \in 1 .. Len(b) : s[Len(a) + i] = b[i]
  /\ \A i \in 1 .. Len(c) : s[Len(a) + Len(b) + i] = c[i]

LEMMA ConcatJoins ==
  ASSUME NEW S, NEW a \in Seq(S), NEW b \in Seq(S), NEW c \in Seq(S)
  PROVE  a \o b \o c \in Seq(S) /\ Joins(a \o b \o c, a, b, c)
<1>1. a \o b \in Seq(S) /\ Len(a \o b) = Len(a) + Len(b) /\ Len(a) \in Nat /\ Len(b) \in Nat /\ Len(c) \in Nat
  BY ConcatProperties
<1>2. \A i \in 1 .. Len(a) + Len(b) : (a \o b)[i] = IF i <= Len(a) THEN a[i] ELSE b[i - Len(a)]
  BY ConcatProperties
<1> DEFINE ab == a \o b
<1>3. ab \in Seq(S) /\ Len(ab) = Len(a) + Len(b)
  BY <1>1
<1>4. (\A i \in 1 .. Len(a) : ab[i] = a[i]) /\ (\A i \in 1 .. Len(b) : ab[Len(a) + i] = b[i])
  BY <1>1, <1>2
<1> HIDE DEF ab
<1>5. /\ ab \o c \in Seq(S)
      /\ Len(ab \o c) = Len(ab) + Len(c)
      /\ \A i \in 1 .. Len(ab) + Len(c) : (ab \o c)[i] = IF i <= Len(ab) THEN ab[i] ELSE c[i - Len(ab)]
  <2>1. ab \in Seq(S) /\ c \in Seq(S)
    BY <1>3
  <2> QED
    BY ONLY <2>1, ConcatProperties
<1>6. /\ \A i \in 1 .. Len(a) : (ab \o c)[i] = a[i]
      /\ \A i \in 1 .. Len(b) : (ab \o c)[Len(a) + i] = b[i]
      /\ \A i \in 1 .. Len(c) : (ab \o c)[Len(a) + Len(b) + i] = c[i]
  BY <1>1, <1>3, <1>4, <1>5
<1>7. ab \o c \in Seq(S) /\ Joins(ab \o c, a, b, c)
  BY <1>3, <1>5, <1>6 DEF Joins
<1> QED
  BY <1>7 DEF ab

(* Two lists joined from lists of equal lengths are equal part by part.    *)
LEMMA JoinsAreEqual ==
  ASSUME NEW S, NEW s \in Seq(S), NEW t \in Seq(S),
         NEW a, NEW b, NEW c, Len(a) \in Nat, Len(b) \in Nat, Len(c) \in Nat,
         Joins(s, a, b, c), Joins(t, a, b, c)
  PROVE  s = t
<1>1. Len(s) = Len(t)
  BY DEF Joins
<1>2. ASSUME NEW k \in 1 .. Len(s) PROVE s[k] = t[k]
  <2>1. CASE k \in 1 .. Len(a)
    BY <2>1 DEF Joins
  <2>2. CASE k - Len(a) \in 1 .. Len(b)
    <3>1. Len(a) + (k - Len(a)) = k
      OBVIOUS
    <3>2. s[Len(a) + (k - Len(a))] = b[k - Len(a)] /\ t[Len(a) + (k - Len(a))] = b[k - Len(a)]
      BY <2>2 DEF Joins
    <3> QED
      BY <3>1, <3>2
  <2>3. CASE k - Len(a) - Len(b) \in 1 .. Len(c)
    <3>1. Len(a) + Len(b) + (k - Len(a) - Len(b)) = k
      OBVIOUS
    <3>2. /\ s[Len(a) + Len(b) + (k - Len(a) - Len(b))] = c[k - Len(a) - Len(b)]
          /\ t[Len(a) + Len(b) + (k - Len(a) - Len(b))] = c[k - Len(a) - Len(b)]
      BY <2>3 DEF Joins
    <3> QED
      BY <3>1, <3>2
  <2>4. Len(s) = Len(a) + Len(b) + Len(c)
    BY DEF Joins
  <2> QED
    BY <2>1, <2>2, <2>3, <2>4
<1> QED
  BY <1>1, <1>2

Seconds(ps) == [i \in DOMAIN ps |-> ps[i][2]]

LEMMA ListIsSeq ==
  ASSUME NEW S, NEW n \in Nat, NEW s \in [1 .. n -> S]
  PROVE  s \in Seq(S) /\ Len(s) = n
OBVIOUS

LEMMA SecondsAreExprs ==
  ASSUME NEW ps \in Seq(Labels \X Exprs)
  PROVE  Seconds(ps) \in Seq(Exprs) /\ Len(Seconds(ps)) = Len(ps) /\ Len(ps) \in Nat
<1>1. Seconds(ps) = [i \in 1 .. Len(ps) |-> ps[i][2]] /\ Len(ps) \in Nat
  BY DEF Seconds
<1>2. \A i \in 1 .. Len(ps) : ps[i][2] \in Exprs
  <2> SUFFICES ASSUME NEW i \in 1 .. Len(ps) PROVE ps[i][2] \in Exprs
    OBVIOUS
  <2>1. ps[i] \in Labels \X Exprs
    OBVIOUS
  <2> QED
    BY <2>1
<1> QED
  BY <1>1, <1>2

LEMMA SubSeqHolds ==
  ASSUME NEW S, NEW s \in Seq(S), NEW a \in Nat, NEW b \in Nat, a + b <= Len(s)
  PROVE  /\ SubSeq(s, a + 1, a + b) \in Seq(S) /\ Len(SubSeq(s, a + 1, a + b)) = b
         /\ \A i \in 1 .. b : SubSeq(s, a + 1, a + b)[i] = s[a + i]
<1>1. a + b - (a + 1) + 1 = b /\ (\A i \in 1 .. b : a + 1 + i - 1 = a + i) /\ (b = 0 \/ a + 1 <= a + b)
  OBVIOUS
<1>2. \A i \in a + 1 .. a + b : s[i] \in S
  OBVIOUS
<1>3. /\ SubSeq(s, a + 1, a + b) \in Seq(S)
      /\ Len(SubSeq(s, a + 1, a + b)) = IF a + 1 <= a + b THEN a + b - (a + 1) + 1 ELSE 0
      /\ \A i \in 1 .. a + b - (a + 1) + 1 : SubSeq(s, a + 1, a + b)[i] = s[a + 1 + i - 1]
  BY <1>2, SubSeqProperties
<1> QED
  BY <1>1, <1>3

(* The members, part by part.                                              *)
LEMMA MembersJoin ==
  ASSUME NEW e,
         \/ /\ e[1] = "items" /\ e[2] \in Seq(Exprs) /\ e[3] \in Seq(Exprs)
         \/ /\ e[1] = "shape" /\ e[2] \in Seq(Labels \X Exprs) /\ e[3] \in Seq(Labels \X Exprs)
            /\ e[4] \in Seq(Exprs)
  PROVE  /\ Members(e) \in Seq(Exprs)
         /\ e[1] = "items" => Joins(Members(e), e[2], e[3], <<>>)
         /\ e[1] = "shape" => Joins(Members(e), Seconds(e[2]), Seconds(e[3]), e[4])
<1>1. CASE e[1] = "items" /\ e[2] \in Seq(Exprs) /\ e[3] \in Seq(Exprs)
  <2>1. Members(e) = e[2] \o e[3]
    BY <1>1 DEF Members
  <2>2. e[2] \o e[3] \in Seq(Exprs) /\ <<>> \in Seq(Exprs)
    BY <1>1
  <2>3. e[2] \o e[3] \o <<>> = e[2] \o e[3]
    BY <2>2, ConcatEmptySeq
  <2>4. e[2] \o e[3] \o <<>> \in Seq(Exprs) /\ Joins(e[2] \o e[3] \o <<>>, e[2], e[3], <<>>)
    BY <1>1, <2>2, ConcatJoins
  <2> QED
    BY <1>1, <2>1, <2>3, <2>4
<1>2. CASE /\ e[1] = "shape" /\ e[2] \in Seq(Labels \X Exprs) /\ e[3] \in Seq(Labels \X Exprs)
           /\ e[4] \in Seq(Exprs)
  <2>1. Members(e) = Seconds(e[2]) \o Seconds(e[3]) \o e[4]
    BY <1>2 DEF Members, Seconds
  <2>2. Seconds(e[2]) \in Seq(Exprs) /\ Seconds(e[3]) \in Seq(Exprs)
    BY <1>2, SecondsAreExprs
  <2> QED
    BY <1>2, <2>1, <2>2, ConcatJoins
<1> QED
  BY <1>1, <1>2

(* Members put back in place of as many are the members of the new one,    *)
(* and speak of what the old ones spoke of.                                *)
LEMMA ReshapeHolds ==
  ASSUME Setting, NEW e \in Exprs, e[1] \in {"shape", "items"},
         NEW ms \in Seq(Exprs), Len(ms) = Len(Members(e))
  PROVE  LET r == Reshape(e, ms)
         IN  /\ r \in Exprs /\ r[1] = e[1]
             /\ Members(r) = ms
             /\ e[1] = "shape" => \A n : Governing(r, n) = Governing(e, n)
             /\ e[1] = "items" => \A j : GoverningAt(r, j) = GoverningAt(e, j)
<1> DEFINE r == Reshape(e, ms)
           n == Len(e[2])
           p == Len(e[3])
<1>1. CASE e[1] = "items"
  <2>1. e[2] \in Seq(Exprs) /\ e[3] \in Seq(Exprs)
    BY <1>1 DEF Setting, Nesting
  <2>2. Joins(Members(e), e[2], e[3], <<>>)
    BY <1>1, <2>1, MembersJoin
  <2>3. n \in Nat /\ p \in Nat /\ Len(ms) = n + p
    BY <2>1, <2>2 DEF Joins
  <2> DEFINE s == SubSeq(ms, 1, n)
             t == SubSeq(ms, n + 1, n + p)
  <2>4. r = <<"items", s, t>>
    BY <1>1 DEF Reshape
  <2> HIDE DEF n, p
  <2>5. s \in Seq(Exprs) /\ Len(s) = n /\ \A i \in 1 .. n : s[i] = ms[i]
    BY <2>3, SubSeqHolds
  <2>6. t \in Seq(Exprs) /\ Len(t) = p /\ \A i \in 1 .. p : t[i] = ms[n + i]
    BY <2>3, SubSeqHolds
  <2> HIDE DEF s, t, r
  <2>7. r[1] = "items" /\ r[2] = s /\ r[3] = t /\ r \in Exprs
    BY <2>4, <2>5, <2>6 DEF Setting, Nesting
  <2>8. Members(r) \in Seq(Exprs) /\ Joins(Members(r), s, t, <<>>)
    BY <2>5, <2>6, <2>7, MembersJoin
  <2>9. Joins(ms, s, t, <<>>)
    BY <2>3, <2>5, <2>6 DEF Joins
  <2>10. Members(r) = ms
    BY <2>3, <2>5, <2>6, <2>8, <2>9, JoinsAreEqual
  <2>11. DOMAIN t = 1 .. p /\ DOMAIN e[3] = 1 .. p /\ Len(e[2]) = n
    BY <2>1, <2>6 DEF p, n
  <2>12. \A j : GoverningAt(r, j) = GoverningAt(e, j)
    BY <2>5, <2>7, <2>11 DEF GoverningAt
  <2> QED
    BY <1>1, <2>7, <2>10, <2>12 DEF r
<1>2. CASE e[1] = "shape"
  <2>1. e[2] \in Seq(Labels \X Exprs) /\ e[3] \in Seq(Labels \X Exprs) /\ e[4] \in Seq(Exprs)
    BY <1>2 DEF Setting, Nesting
  <2>2. Joins(Members(e), Seconds(e[2]), Seconds(e[3]), e[4])
    BY <1>2, <2>1, MembersJoin
  <2> DEFINE m == Len(e[4])
  <2>3. n \in Nat /\ p \in Nat /\ m \in Nat /\ Len(ms) = n + p + m
    <3>1. Len(Seconds(e[2])) = n /\ n \in Nat
      BY <2>1, SecondsAreExprs
    <3>2. Len(Seconds(e[3])) = p /\ p \in Nat
      BY <2>1, SecondsAreExprs
    <3>3. m \in Nat
      BY <2>1
    <3> QED
      BY <2>2, <3>1, <3>2, <3>3 DEF Joins
  <2>4. DOMAIN e[2] = 1 .. n /\ DOMAIN e[3] = 1 .. p /\ DOMAIN e[4] = 1 .. m
    BY <2>1
  <2>5. (\A i \in 1 .. n : e[2][i][1] \in Labels) /\ (\A i \in 1 .. p : e[3][i][1] \in Labels)
    <3>1. (\A i \in 1 .. n : e[2][i] \in Labels \X Exprs) /\ (\A i \in 1 .. p : e[3][i] \in Labels \X Exprs)
      BY <2>1
    <3> QED
      BY <3>1
  <2> DEFINE s == [i \in DOMAIN e[2] |-> <<e[2][i][1], ms[i]>>]
             t == [i \in DOMAIN e[3] |-> <<e[3][i][1], ms[n + i]>>]
             u == SubSeq(ms, n + p + 1, Len(ms))
  <2>6. r = <<"shape", s, t, u>>
    BY <1>2 DEF Reshape
  <2> HIDE DEF n, p, m, r
  <2>7. /\ s \in Seq(Labels \X Exprs) /\ Len(s) = n
        /\ \A i \in 1 .. n : s[i][1] = e[2][i][1] /\ s[i][2] = ms[i]
    <3>1. s = [i \in 1 .. n |-> <<e[2][i][1], ms[i]>>]
      BY <2>4
    <3>2. \A i \in 1 .. n : ms[i] \in Exprs
      BY <2>3
    <3> HIDE DEF s
    <3>3. \A i \in 1 .. n : s[i] \in Labels \X Exprs /\ s[i][1] = e[2][i][1] /\ s[i][2] = ms[i]
      BY <2>5, <3>1, <3>2
    <3>4. s \in [1 .. n -> Labels \X Exprs]
      BY <3>1, <3>3
    <3> QED
      BY <2>3, <3>3, <3>4, ListIsSeq
  <2>8. /\ t \in Seq(Labels \X Exprs) /\ Len(t) = p
        /\ \A i \in 1 .. p : t[i][1] = e[3][i][1] /\ t[i][2] = ms[n + i]
    <3>1. t = [i \in 1 .. p |-> <<e[3][i][1], ms[n + i]>>]
      BY <2>4
    <3>2. \A i \in 1 .. p : ms[n + i] \in Exprs
      BY <2>3
    <3> HIDE DEF t
    <3>3. \A i \in 1 .. p : t[i] \in Labels \X Exprs /\ t[i][1] = e[3][i][1] /\ t[i][2] = ms[n + i]
      BY <2>5, <3>1, <3>2
    <3>4. t \in [1 .. p -> Labels \X Exprs]
      BY <3>1, <3>3
    <3> QED
      BY <2>3, <3>3, <3>4, ListIsSeq
  <2>9. u \in Seq(Exprs) /\ Len(u) = m /\ \A i \in 1 .. m : u[i] = ms[n + p + i]
    <3>1. n + p \in Nat /\ n + p + m <= Len(ms) /\ Len(ms) = n + p + m
      BY <2>3
    <3> QED
      BY <2>3, <3>1, SubSeqHolds
  <2> HIDE DEF s, t, u
  <2>10. r[1] = "shape" /\ r[2] = s /\ r[3] = t /\ r[4] = u /\ r \in Exprs
    BY <2>6, <2>7, <2>8, <2>9 DEF Setting, Nesting
  <2>11. Members(r) \in Seq(Exprs) /\ Joins(Members(r), Seconds(s), Seconds(t), u)
    BY <2>7, <2>8, <2>9, <2>10, MembersJoin
  <2>12. /\ DOMAIN s = 1 .. n /\ DOMAIN t = 1 .. p /\ DOMAIN u = 1 .. m
         /\ Len(Seconds(s)) = n /\ Len(Seconds(t)) = p
         /\ \A i \in 1 .. n : Seconds(s)[i] = ms[i]
         /\ \A i \in 1 .. p : Seconds(t)[i] = ms[n + i]
    <3>1. DOMAIN s = 1 .. n /\ DOMAIN t = 1 .. p /\ DOMAIN u = 1 .. m
      BY <2>7, <2>8, <2>9
    <3>2. Len(Seconds(s)) = n /\ Len(Seconds(t)) = p
      BY <2>7, <2>8, SecondsAreExprs
    <3> QED
      BY <2>7, <2>8, <3>1, <3>2 DEF Seconds
  <2>13. Joins(ms, Seconds(s), Seconds(t), u)
    BY <2>3, <2>9, <2>12 DEF Joins
  <2>14. Members(r) = ms
    BY <2>3, <2>9, <2>11, <2>12, <2>13, JoinsAreEqual
  <2>15. ASSUME NEW a PROVE Governing(r, a) = Governing(e, a)
    <3>1. {i \in DOMAIN s : s[i][1] = a} = {i \in DOMAIN e[2] : e[2][i][1] = a}
      BY <2>4, <2>7, <2>12
    <3>2. {k \in DOMAIN t : a \in Patterns[t[k][1]].matches} = {k \in DOMAIN e[3] : a \in Patterns[e[3][k][1]].matches}
      BY <2>4, <2>8, <2>12
    <3>3. Len(s) = Len(e[2]) /\ Len(t) = Len(e[3]) /\ DOMAIN u = DOMAIN e[4]
      BY <2>4, <2>7, <2>8, <2>12 DEF n, p
    <3> QED
      BY <2>10, <3>1, <3>2, <3>3 DEF Governing
  <2> QED
    BY <1>2, <2>10, <2>14, <2>15 DEF r
<1> QED
  BY <1>1, <1>2

(* Each form that looks into a value, in every cell.                       *)
LEMMA MeaningsWithin ==
  ASSUME Setting, NEW e \in Exprs, NEW d \in Exprs, NEW v \in Values
  PROVE  /\ e[1] = "contains" =>
              (Accepts(e, d, v) <=>
                 (KindOf(v) = "array" => \E i \in DOMAIN v[2] : Accepts(d, d, v[2][i])))
         /\ e[1] = "shape" =>
              (Accepts(e, d, v) <=>
                 (KindOf(v) = "object" =>
                    \A n \in DOMAIN v[2] : \A i \in Governing(e, n) : Accepts(Members(e)[i], d, v[2][n])))
         /\ e[1] = "items" =>
              (Accepts(e, d, v) <=>
                 (KindOf(v) = "array" =>
                    \A j \in DOMAIN v[2] : \A i \in GoverningAt(e, j) : Accepts(Members(e)[i], d, v[2][j])))
<1>1. e[1] \in Forms => (Accepts(e, d, v) <=> AcceptsBy(e, d, v))
  BY DEF Setting, MeaningOfCells
<1>2. CASE e[1] = "contains"
  BY <1>1, <1>2 DEF Forms, AcceptsBy
<1>3. CASE e[1] = "shape"
  BY <1>1, <1>3 DEF Forms, AcceptsBy
<1>4. CASE e[1] = "items"
  BY <1>1, <1>4 DEF Forms, AcceptsBy
<1> QED
  BY <1>2, <1>3, <1>4

LEMMA WithinSum ==
  ASSUME NEW a \in Nat, NEW b \in Nat, NEW c \in Nat
  PROVE  /\ 1 .. a \subseteq 1 .. a + b + c
         /\ \A k \in 1 .. b : a + k \in 1 .. a + b + c
         /\ \A k \in 1 .. c : a + b + k \in 1 .. a + b + c
OBVIOUS

(* What speaks of a part of a value is one of the members.                 *)
LEMMA GoverningAreMembers ==
  ASSUME Setting, NEW e \in Exprs, NEW n
  PROVE  /\ e[1] \in {"shape", "items"} =>
              /\ Members(e) \in Seq(Exprs)
              /\ \A i \in DOMAIN Members(e) : Members(e)[i] \in Exprs
         /\ e[1] = "shape" => Governing(e, n) \subseteq DOMAIN Members(e)
         /\ e[1] = "items" /\ n \in Nat \ {0} => GoverningAt(e, n) \subseteq DOMAIN Members(e)
<1>1. e[1] \in {"shape", "items"} =>
        /\ Members(e) \in Seq(Exprs)
        /\ e[1] = "items" => Joins(Members(e), e[2], e[3], <<>>)
        /\ e[1] = "shape" => Joins(Members(e), Seconds(e[2]), Seconds(e[3]), e[4])
  BY MembersJoin DEF Setting, Nesting
<1>2. Members(e) \in Seq(Exprs) =>
        DOMAIN Members(e) = 1 .. Len(Members(e)) /\ \A i \in DOMAIN Members(e) : Members(e)[i] \in Exprs
  OBVIOUS
<1>3. CASE e[1] = "items"
  <2>1. e[2] \in Seq(Exprs) /\ e[3] \in Seq(Exprs)
    BY <1>3 DEF Setting, Nesting
  <2>2. Len(e[2]) \in Nat /\ Len(e[3]) \in Nat /\ DOMAIN e[3] = 1 .. Len(e[3])
    BY <2>1
  <2>3. Joins(Members(e), e[2], e[3], <<>>)
    BY <1>1, <1>3
  <2>4. Len(Members(e)) = Len(e[2]) + Len(e[3])
    BY <2>2, <2>3 DEF Joins
  <2>5. /\ 1 .. Len(e[2]) \subseteq 1 .. Len(Members(e))
        /\ \A k \in 1 .. Len(e[3]) : Len(e[2]) + k \in 1 .. Len(Members(e))
    <3>1. Len(e[2]) + Len(e[3]) + 0 = Len(Members(e)) /\ 0 \in Nat
      BY <2>2, <2>4
    <3> QED
      BY ONLY <2>2, <3>1, WithinSum
  <2>6. ASSUME n \in Nat \ {0}, NEW i \in GoverningAt(e, n) PROVE i \in 1 .. Len(Members(e))
    <3>1. (i = n /\ n <= Len(e[2])) \/ \E k \in DOMAIN e[3] : i = Len(e[2]) + k
      BY <2>6 DEF GoverningAt
    <3>2. CASE i = n /\ n <= Len(e[2])
      <4>1. i \in 1 .. Len(e[2])
        BY <2>2, <2>6, <3>2
      <4> QED
        BY <2>5, <4>1
    <3>3. ASSUME NEW k \in DOMAIN e[3], i = Len(e[2]) + k PROVE i \in 1 .. Len(Members(e))
      <4>1. k \in 1 .. Len(e[3])
        BY <2>2
      <4> QED
        BY <2>5, <3>3, <4>1
    <3> QED
      BY <3>1, <3>2, <3>3
  <2> QED
    BY <1>1, <1>2, <1>3, <2>6
<1>4. CASE e[1] = "shape"
  <2>1. e[2] \in Seq(Labels \X Exprs) /\ e[3] \in Seq(Labels \X Exprs) /\ e[4] \in Seq(Exprs)
    BY <1>4 DEF Setting, Nesting
  <2>2. Len(Seconds(e[2])) = Len(e[2]) /\ Len(Seconds(e[3])) = Len(e[3])
    BY <2>1, SecondsAreExprs
  <2>3. /\ Len(e[2]) \in Nat /\ Len(e[3]) \in Nat /\ Len(e[4]) \in Nat
        /\ DOMAIN e[2] = 1 .. Len(e[2]) /\ DOMAIN e[3] = 1 .. Len(e[3]) /\ DOMAIN e[4] = 1 .. Len(e[4])
    BY <2>1
  <2>4. Joins(Members(e), Seconds(e[2]), Seconds(e[3]), e[4])
    BY <1>1, <1>4
  <2>5. Len(Members(e)) = Len(e[2]) + Len(e[3]) + Len(e[4])
    BY <2>2, <2>3, <2>4 DEF Joins
  <2>6. /\ 1 .. Len(e[2]) \subseteq 1 .. Len(Members(e))
        /\ \A k \in 1 .. Len(e[3]) : Len(e[2]) + k \in 1 .. Len(Members(e))
        /\ \A k \in 1 .. Len(e[4]) : Len(e[2]) + Len(e[3]) + k \in 1 .. Len(Members(e))
    BY ONLY <2>3, <2>5, WithinSum
  <2>7. ASSUME NEW i \in Governing(e, n) PROVE i \in 1 .. Len(Members(e))
    <3>1. \/ i \in DOMAIN e[2]
          \/ \E k \in DOMAIN e[3] : i = Len(e[2]) + k
          \/ \E k \in DOMAIN e[4] : i = Len(e[2]) + Len(e[3]) + k
      BY <2>7 DEF Governing
    <3>2. CASE i \in DOMAIN e[2]
      <4>1. i \in 1 .. Len(e[2])
        BY <2>3, <3>2
      <4> QED
        BY <2>6, <4>1
    <3>3. ASSUME NEW k \in DOMAIN e[3], i = Len(e[2]) + k PROVE i \in 1 .. Len(Members(e))
      <4>1. k \in 1 .. Len(e[3])
        BY <2>3
      <4> QED
        BY <2>6, <3>3, <4>1
    <3>4. ASSUME NEW k \in DOMAIN e[4], i = Len(e[2]) + Len(e[3]) + k PROVE i \in 1 .. Len(Members(e))
      <4>1. k \in 1 .. Len(e[4])
        BY <2>3
      <4> QED
        BY <2>6, <3>4, <4>1
    <3> QED
      BY <3>1, <3>2, <3>3, <3>4
  <2> QED
    BY <1>1, <1>2, <1>4, <2>7
<1>5. CASE e[1] \notin {"shape", "items"}
  BY <1>5
<1> QED
  BY <1>3, <1>4, <1>5

(* A shape stands for what its members stand for.                          *)
LEMMA ReshapeStands ==
  ASSUME Setting, NEW e \in Exprs, e[1] \in {"shape", "items"}, NEW ms \in Seq(Exprs),
         DOMAIN ms = DOMAIN Members(e), \A i \in DOMAIN Members(e) : Same(ms[i], Members(e)[i])
  PROVE  Stands(Reshape(e, ms), e)
<1> DEFINE r == Reshape(e, ms)
<1>1. Members(e) \in Seq(Exprs)
  BY GoverningAreMembers
<1>2. Len(ms) = Len(Members(e))
  BY <1>1
<1>3. /\ r \in Exprs /\ r[1] = e[1] /\ Members(r) = ms
      /\ e[1] = "shape" => \A n : Governing(r, n) = Governing(e, n)
      /\ e[1] = "items" => \A j : GoverningAt(r, j) = GoverningAt(e, j)
  BY <1>2, ReshapeHolds
<1> HIDE DEF r
<1>4. Cell \in Exprs
  BY DEF Setting, MeaningOfCells
<1>5. ASSUME NEW v \in Values PROVE In(r, v) <=> In(e, v)
  <2>1. \A n : KindOf(v) \in {"array", "object"} /\ n \in DOMAIN v[2] => v[2][n] \in Values
    BY DEF Setting, Wholes
  <2>2. CASE e[1] = "shape"
    <3>1. In(e, v) <=> (KindOf(v) = "object" =>
                    \A n \in DOMAIN v[2] : \A i \in Governing(e, n) : In(Members(e)[i], v[2][n]))
      BY <1>4, <2>2, MeaningsWithin DEF In
    <3>2. In(r, v) <=> (KindOf(v) = "object" =>
                    \A n \in DOMAIN v[2] : \A i \in Governing(e, n) : In(ms[i], v[2][n]))
      BY <1>3, <1>4, <2>2, MeaningsWithin DEF In
    <3>3. ASSUME KindOf(v) = "object", NEW n \in DOMAIN v[2], NEW i \in Governing(e, n)
          PROVE  In(ms[i], v[2][n]) <=> In(Members(e)[i], v[2][n])
      <4>1. i \in DOMAIN Members(e)
        BY <2>2, GoverningAreMembers
      <4>2. v[2][n] \in Values
        BY <2>1, <3>3
      <4> QED
        BY <4>1, <4>2 DEF Same
    <3> QED
      BY <3>1, <3>2, <3>3
  <2>3. CASE e[1] = "items"
    <3>1. In(e, v) <=> (KindOf(v) = "array" =>
                    \A n \in DOMAIN v[2] : \A i \in GoverningAt(e, n) : In(Members(e)[i], v[2][n]))
      BY <1>4, <2>3, MeaningsWithin DEF In
    <3>2. In(r, v) <=> (KindOf(v) = "array" =>
                    \A n \in DOMAIN v[2] : \A i \in GoverningAt(e, n) : In(ms[i], v[2][n]))
      BY <1>3, <1>4, <2>3, MeaningsWithin DEF In
    <3>3. ASSUME KindOf(v) = "array", NEW n \in DOMAIN v[2], NEW i \in GoverningAt(e, n)
          PROVE  In(ms[i], v[2][n]) <=> In(Members(e)[i], v[2][n])
      <4>1. n \in Nat \ {0}
        <5>1. v[2] \in Seq(Values)
          BY <3>3 DEF Setting, Wholes
        <5> QED
          BY <5>1
      <4>2. i \in DOMAIN Members(e)
        BY <2>3, <4>1, GoverningAreMembers
      <4>3. v[2][n] \in Values
        BY <2>1, <3>3
      <4> QED
        BY <4>2, <4>3 DEF Same
    <3> QED
      BY <3>1, <3>2, <3>3
  <2> QED
    BY <2>2, <2>3
<1>6. Stands(r, e)
  BY <1>3, <1>5 DEF Stands, Same
<1> QED
  BY <1>6 DEF r

LEMMA MembersKeep ==
  ASSUME Setting, NEW e \in Exprs, NEW st, Held(st), e[1] \in {"shape", "items"},
         \A s \in SubCalls(e, st) : Keeps(s)
  PROVE  Result(RewriteBy(e, st), e)
<1> DEFINE ms == Members(e)
           r == RewriteEach(ms, st)
<1>1. ms \in Seq(Exprs)
  BY GoverningAreMembers
<1>2. SubCalls(e, st) = EachCalls(ms, st)
  BY DEF SubCalls
<1>3. RewriteBy(e, st) = [r EXCEPT !.out = Reshape(e, @)]
  BY DEF RewriteBy, RewriteMembers
<1>4. Results(r, ms, Len(ms))
  BY <1>1, <1>2, EachKeeps
<1> HIDE DEF r
<1>5. /\ r = [out |-> r.out, st |-> r.st] /\ Held(r.st) /\ r.out \in Seq(Exprs)
      /\ DOMAIN r.out = DOMAIN ms /\ \A i \in DOMAIN ms : Stands(r.out[i], ms[i])
  BY <1>1, <1>4, ResultsMean
<1>6. RewriteBy(e, st) = [out |-> Reshape(e, r.out), st |-> r.st]
  BY <1>3, <1>5
<1>7. Stands(Reshape(e, r.out), e)
  BY <1>5, ReshapeStands DEF Stands
<1> QED
  BY <1>5, <1>6, <1>7 DEF Result

-----------------------------------------------------------------------------
(* Whole calls.                                                            *)

(* A call keeps what it should if the calls it makes do.                   *)
LEMMA CallKeeps ==
  ASSUME Setting, NEW e \in Exprs, NEW st, Held(st), \A s \in SubCalls(e, st) : Keeps(s)
  PROVE  Result(RewriteBy(e, st), e)
<1>1. CASE e[1] \notin {"all", "anyOf", "exactlyOne", "not", "shape", "items", "contains"}
  <2>1. RewriteBy(e, st) = [out |-> e, st |-> st]
    BY <1>1 DEF RewriteBy
  <2>2. Stands(e, e)
    BY DEF Stands, Same
  <2> QED
    BY <2>1, <2>2 DEF Result
<1> QED
  BY <1>1, AllKeeps, AnyOfKeeps, ExactlyOneKeeps, NotKeeps, MembersKeep, ContainsKeeps

(* Of the calls that return, one that did not keep the meaning and is      *)
(* nested least deep would make only calls that do.                        *)
THEOREM RewriteKeepsMeaning ==
  ASSUME Setting, Returning
  PROVE  \A c \in Calls : Keeps(c)
<1> DEFINE Bad == {c \in Calls : ~ Keeps(c)}
<1> SUFFICES ASSUME Bad # {} PROVE FALSE
  OBVIOUS
<1>1. {Depth(c) : c \in Bad} \in SUBSET Nat /\ {Depth(c) : c \in Bad} # {}
  BY DEF Returning
<1>2. PICK n \in {Depth(c) : c \in Bad} : \A k \in {Depth(c) : c \in Bad} : n <= k
  BY <1>1, HasLeast
<1>3. PICK c \in Bad : Depth(c) = n
  BY <1>2
<1>4. c[1] \in Exprs /\ Held(c[2]) /\ ~ Result(Rewrite(c[1], c[2]), c[1])
  BY <1>3 DEF Keeps
<1>5. ASSUME NEW s \in SubCalls(c[1], c[2]) PROVE Keeps(s)
  <2>1. s \in Calls /\ Depth(s) < Depth(c) /\ Depth(s) \in Nat /\ Depth(c) \in Nat
    BY <1>3 DEF Returning
  <2>2. s \notin Bad
    BY <1>2, <1>3, <2>1
  <2> QED
    BY <2>1, <2>2
<1>6. Result(RewriteBy(c[1], c[2]), c[1])
  BY <1>4, <1>5, CallKeeps
<1>7. Rewrite(c[1], c[2]) = RewriteBy(c[1], c[2])
  BY <1>3 DEF Returning
<1> QED
  BY <1>4, <1>6, <1>7

-----------------------------------------------------------------------------
(* The cell.                                                               *)

(* Every expression stands for the same, whichever of two cells that stand *)
(* for the same it is read with.  Of the values for which that fails take  *)
(* a smallest, and of the expressions for which it fails there a lowest.   *)
LEMMA CellsAgree ==
  ASSUME Setting, NEW d \in Exprs, Same(d, Cell)
  PROVE  \A e \in Exprs, v \in Values : Accepts(e, d, v) <=> In(e, v)
<1> DEFINE Agree(e, v) == Accepts(e, d, v) <=> In(e, v)
           Bad == {v \in Values : \E e \in Exprs : ~ Agree(e, v)}
<1> SUFFICES ASSUME Bad # {} PROVE FALSE
  OBVIOUS
<1>1. {Size(v) : v \in Bad} \in SUBSET Nat /\ {Size(v) : v \in Bad} # {}
  BY DEF Setting, Wholes
<1>2. PICK n \in {Size(v) : v \in Bad} : \A k \in {Size(v) : v \in Bad} : n <= k
  BY <1>1, HasLeast
<1>3. PICK v \in Bad : Size(v) = n
  BY <1>2
<1>4. v \in Values
  OBVIOUS
<1>5. ASSUME KindOf(v) \in {"array", "object"}, NEW i \in DOMAIN v[2], NEW e \in Exprs
      PROVE  v[2][i] \in Values /\ (Accepts(e, d, v[2][i]) <=> In(e, v[2][i]))
  <2>1. v[2][i] \in Values /\ Size(v[2][i]) < Size(v) /\ Size(v[2][i]) \in Nat /\ Size(v) \in Nat
    BY <1>4, <1>5 DEF Setting, Wholes
  <2>2. v[2][i] \notin Bad
    BY <1>2, <1>3, <2>1
  <2> QED
    BY <2>1, <2>2
<1> DEFINE Worse == {e \in Exprs : ~ Agree(e, v)}
<1>6. PICK e \in Worse : \A f \in Worse : ~ (Height(f) < Height(e))
  <2>1. Worse # {}
    BY <1>3
  <2> QED
    BY <2>1, HasSmallest DEF Setting
<1>7. e \in Exprs /\ Cell \in Exprs
  BY <1>6 DEF Setting, MeaningOfCells
<1>8. ASSUME NEW f \in Exprs, Height(f) < Height(e) PROVE Agree(f, v)
  BY <1>6, <1>8
<1>9. ~ Agree(e, v)
  BY <1>6
<1> HIDE DEF Bad, Worse
<1>10. e[1] \in Forms => (Accepts(e, d, v) <=> AcceptsBy(e, d, v)) /\ (In(e, v) <=> AcceptsBy(e, Cell, v))
  BY <1>4, <1>7 DEF Setting, MeaningOfCells, In
<1>11. e[1] \in Forms
  BY <1>4, <1>7, <1>9 DEF Setting, MeaningOfCells, In
<1>12. CASE e[1] \in {"any", "never", "kinds", "literal", "minimum"}
  BY <1>9, <1>10, <1>11, <1>12 DEF AcceptsBy
<1>13. CASE e[1] = "not"
  <2>1. e[2] \in Exprs /\ Height(e[2]) < Height(e)
    BY <1>7, <1>13, PartsAreSmaller DEF Setting
  <2>2. Agree(e[2], v)
    BY <1>8, <2>1
  <2>3. (AcceptsBy(e, d, v) <=> ~ Accepts(e[2], d, v)) /\ (AcceptsBy(e, Cell, v) <=> ~ Accepts(e[2], Cell, v))
    BY <1>13 DEF AcceptsBy
  <2> QED
    BY <1>9, <1>10, <1>11, <2>2, <2>3 DEF In
<1>14. CASE e[1] \in Combinators
  <2>1. \A i \in DOMAIN e[2] : e[2][i] \in Exprs /\ Height(e[2][i]) < Height(e)
    BY <1>7, <1>14, PartsAreSmaller DEF Setting
  <2>2. \A i \in DOMAIN e[2] : Accepts(e[2][i], d, v) <=> Accepts(e[2][i], Cell, v)
    BY <1>8, <2>1 DEF In
  <2>3. {i \in DOMAIN e[2] : Accepts(e[2][i], d, v)} = {i \in DOMAIN e[2] : Accepts(e[2][i], Cell, v)}
    BY <2>2
  <2>4. CASE e[1] = "all"
    <3>1. \A c : AcceptsBy(e, c, v) <=> \A i \in DOMAIN e[2] : Accepts(e[2][i], c, v)
      BY <2>4 DEF AcceptsBy
    <3> QED
      BY <1>9, <1>10, <1>11, <2>2, <3>1
  <2>5. CASE e[1] = "anyOf"
    <3>1. \A c : AcceptsBy(e, c, v) <=> \E i \in DOMAIN e[2] : Accepts(e[2][i], c, v)
      BY <2>5 DEF AcceptsBy
    <3> QED
      BY <1>9, <1>10, <1>11, <2>2, <3>1
  <2>6. CASE e[1] = "exactlyOne"
    <3>1. \A c : AcceptsBy(e, c, v) <=> Cardinality({i \in DOMAIN e[2] : Accepts(e[2][i], c, v)}) = 1
      BY <2>6 DEF AcceptsBy
    <3> QED
      BY <1>9, <1>10, <1>11, <2>3, <3>1
  <2> QED
    BY <1>14, <2>4, <2>5, <2>6 DEF Combinators
<1>15. CASE e[1] = "contains"
  <2>1. Accepts(e, d, v) <=> (KindOf(v) = "array" => \E i \in DOMAIN v[2] : Accepts(d, d, v[2][i]))
    BY <1>4, <1>7, <1>15, MeaningsWithin
  <2>2. In(e, v) <=> (KindOf(v) = "array" => \E i \in DOMAIN v[2] : In(Cell, v[2][i]))
    BY <1>4, <1>7, <1>15, MeaningsWithin DEF In
  <2>3. ASSUME KindOf(v) = "array", NEW i \in DOMAIN v[2]
        PROVE  Accepts(d, d, v[2][i]) <=> In(Cell, v[2][i])
    BY <1>5, <2>3 DEF Same
  <2> QED
    BY <1>9, <2>1, <2>2, <2>3
<1>16. CASE e[1] = "shape"
  <2>1. Accepts(e, d, v) <=> (KindOf(v) = "object" =>
               \A n1 \in DOMAIN v[2] : \A i \in Governing(e, n1) : Accepts(Members(e)[i], d, v[2][n1]))
    BY <1>4, <1>7, <1>16, MeaningsWithin
  <2>2. In(e, v) <=> (KindOf(v) = "object" =>
               \A n1 \in DOMAIN v[2] : \A i \in Governing(e, n1) : In(Members(e)[i], v[2][n1]))
    BY <1>4, <1>7, <1>16, MeaningsWithin DEF In
  <2>3. ASSUME KindOf(v) = "object", NEW n1 \in DOMAIN v[2], NEW i \in Governing(e, n1)
        PROVE  Accepts(Members(e)[i], d, v[2][n1]) <=> In(Members(e)[i], v[2][n1])
    <3>1. i \in DOMAIN Members(e) /\ Members(e)[i] \in Exprs
      BY <1>7, <1>16, GoverningAreMembers
    <3> QED
      BY <1>5, <2>3, <3>1
  <2> QED
    BY <1>9, <2>1, <2>2, <2>3
<1>17. CASE e[1] = "items"
  <2>1. Accepts(e, d, v) <=> (KindOf(v) = "array" =>
               \A n1 \in DOMAIN v[2] : \A i \in GoverningAt(e, n1) : Accepts(Members(e)[i], d, v[2][n1]))
    BY <1>4, <1>7, <1>17, MeaningsWithin
  <2>2. In(e, v) <=> (KindOf(v) = "array" =>
               \A n1 \in DOMAIN v[2] : \A i \in GoverningAt(e, n1) : In(Members(e)[i], v[2][n1]))
    BY <1>4, <1>7, <1>17, MeaningsWithin DEF In
  <2>3. ASSUME KindOf(v) = "array", NEW n1 \in DOMAIN v[2], NEW i \in GoverningAt(e, n1)
        PROVE  Accepts(Members(e)[i], d, v[2][n1]) <=> In(Members(e)[i], v[2][n1])
    <3>1. n1 \in Nat \ {0}
      <4>1. v[2] \in Seq(Values)
        BY <1>4, <2>3 DEF Setting, Wholes
      <4> QED
        BY <4>1
    <3>2. i \in DOMAIN Members(e) /\ Members(e)[i] \in Exprs
      BY <1>7, <1>17, <3>1, GoverningAreMembers
    <3> QED
      BY <1>5, <2>3, <3>2
  <2> QED
    BY <1>9, <2>1, <2>2, <2>3
<1> QED
  BY <1>11, <1>12, <1>13, <1>14, <1>15, <1>16, <1>17 DEF Forms

-----------------------------------------------------------------------------
(* Runs.                                                                   *)

(* What Compile owes to Normalize.                                         *)
CompileMeans ==
  /\ \A s \in Schemas : Compiled(s) \in Exprs
  /\ \A s, i \in Schemas : Compiled(i) = Cell => \A v \in Values : In(Compiled(s), v) <=> Meant(s, i, v)

(* The schemas a run is given, and that the pass it comes to returns.      *)
Given == schema \in Schemas /\ inner \in Schemas /\ Compiled(inner) = Cell

Returns == phase = "rewriting" => <<expr, [budget |-> budget, detail |-> detail]>> \in Calls

NInv ==
  /\ Given
  /\ budget \in Int
  /\ Stands(detail, Cell)
  /\ Stands(expr, Compiled(schema))

LEMMA InitHolds ==
  ASSUME Setting, CompileMeans, Init, Given
  PROVE  NInv
<1>1. budget \in Int /\ expr = Compiled(schema) /\ detail = Cell
  BY BudgetAssumption DEF Init, Given
<1>2. Compiled(schema) \in Exprs /\ Cell \in Exprs
  BY DEF CompileMeans, Given, Setting, MeaningOfCells
<1> QED
  BY <1>1, <1>2 DEF NInv, Stands, Same

LEMMA PassHolds ==
  ASSUME Setting, Returning, NInv, Returns, Pass
  PROVE  NInv'
<1> DEFINE st == [budget |-> budget, detail |-> detail]
           r == Rewrite(expr, st)
<1>1. phase = "rewriting" /\ Advance(r) /\ UNCHANGED <<schema, inner>>
  BY DEF Pass
<1>2. Held(st) /\ expr \in Exprs
  BY DEF NInv, Held, Stands
<1>3. Keeps(<<expr, st>>)
  BY <1>1, RewriteKeepsMeaning DEF Returns
<1>4. Result(r, expr)
  BY <1>2, <1>3 DEF Keeps
<1> HIDE DEF r, st
<1>5. Stands(r.out, expr) /\ r.st.budget \in Int /\ Stands(r.st.detail, Cell)
  BY <1>4 DEF Result, Held
<1>6. Stands(r.out, Compiled(schema))
  BY <1>5 DEF NInv, Stands, Same
<1>7. expr' = r.out /\ detail' = r.st.detail /\ budget' = r.st.budget /\ schema' = schema /\ inner' = inner
  BY <1>1 DEF Advance
<1>8. Given'
  BY <1>7 DEF NInv, Given
<1> QED
  BY <1>5, <1>6, <1>7, <1>8 DEF NInv

LEMMA InvMeans ==
  ASSUME Setting, CompileMeans, NInv
  PROVE  KeepsMeaning
<1> SUFFICES ASSUME NEW v \in Values PROVE Accepts(expr, detail, v) <=> Meant(schema, inner, v)
  BY DEF KeepsMeaning
<1>1. detail \in Exprs /\ Same(detail, Cell) /\ expr \in Exprs /\ Same(expr, Compiled(schema))
  BY DEF NInv, Stands
<1>2. Accepts(expr, detail, v) <=> In(expr, v)
  BY <1>1, CellsAgree
<1>3. In(Compiled(schema), v) <=> Meant(schema, inner, v)
  BY DEF NInv, Given, CompileMeans
<1> QED
  BY <1>1, <1>2, <1>3 DEF Same

(* Normalize keeps the meaning Compile has given an expression, as far as  *)
(* its passes return: for every schema, budget and way the passes write    *)
(* into the cell.                                                          *)
THEOREM NormalizeKeepsMeaning ==
  ASSUME Setting, Returning, CompileMeans
  PROVE  Spec /\ Given /\ []Returns => []KeepsMeaning
<1>1. Init /\ Given => NInv
  BY InitHolds
<1>2. NInv /\ Returns /\ [Next]_vars => NInv'
  <2> SUFFICES ASSUME NInv, Returns, [Next]_vars PROVE NInv'
    OBVIOUS
  <2>1. CASE Pass
    BY <2>1, PassHolds
  <2>2. CASE UNCHANGED vars
    BY <2>2 DEF NInv, Given, vars
  <2> QED
    BY <2>1, <2>2 DEF Next
<1>3. NInv => KeepsMeaning
  BY InvMeans
<1> QED
  BY <1>1, <1>2, <1>3, PTL DEF Spec
=============================================================================

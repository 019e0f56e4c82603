--------------------------- MODULE NodeTreeProofs ---------------------------
(***************************************************************************)
(* What the reporting walk of a tree of nodes says and what the fast one   *)
(* says are the same, and it stops with its consumer; and the tree a plan  *)
(* is compiled to says what the interpreter says of the plan.              *)
(*                                                                         *)
(* Nothing here says that a walk returns: Walks are the tables, nodes and  *)
(* instances whose walk does, and Depth is how deep the calls are nested   *)
(* that one makes.                                                         *)
(***************************************************************************)
EXTENDS NodeTree, FiniteSetTheorems, SequenceTheorems, WellFoundedInduction, TLAPS

CONSTANTS
  Walks,       (* <<table, node, instance>> that Ok and Errs return from   *)
  Depth(_),    (* of one                                                   *)
  Plans        (* the plans that are compiled, and those they hold         *)

IsList(s) == s \in Seq(Set(s))

-----------------------------------------------------------------------------
(* Walks.                                                                  *)

(* The names no field is declared for.                                     *)
OtherNames(o, v) == DOMAIN v[2] \ {o[2][i].name : i \in DOMAIN o[2]}

(* What the members of an object, and the elements of an array, lead to.   *)
MemberWalks(t, o, v) ==
  UNION {{<<t, o[2][i].inner, v[2][o[2][i].name]>> : i \in {j \in DOMAIN o[2] : o[2][j].name \in DOMAIN v[2]}},
         {<<t, o[3][i][2], v[2][name]>> : i \in DOMAIN o[3], name \in OtherNames(o, v)},
         {<<t, o[4], v[2][name]>> : name \in {m \in OtherNames(o, v) : o[4] # Nil}}}

ElementWalks(t, a, v) ==
  {<<t, a[2][i], v[2][i]>> : i \in {j \in DOMAIN v[2] : j <= Len(a[2])}} \cup
  {<<t, a[3], v[2][i]>> : i \in {j \in DOMAIN v[2] : j > Len(a[2]) /\ a[3] # Nil}}

(* The calls that a call of Ok or of Errs makes itself.                    *)
Parts(t, n, v) ==
  LET With(S) == {<<t, m, v>> : m \in S}
      isObject == KindOf(v) = "object"
  IN  CASE n[1] \in {"all", "countDispatch"}  -> With(Set(n[2]))
        [] n[1] = "guard"                     -> With({m \in {n[3]} : KindOf(v) \in n[2]})
        [] n[1] = "assertKind"                -> With({m \in {n[3]} \ {Nil} : KindOf(v) \in n[2]})
        [] n[1] \in {"negation", "shape"}     -> With({n[2]})
        [] n[1] = "reference"                 -> With({t[d] : d \in {e \in {n[2]} \cap DOMAIN t : t[e] # Nil}})
        [] n[1] = "objectStructure"           -> IF isObject THEN MemberWalks(t, n, v) ELSE {}
        [] n[1] = "arrayStructure"            -> IF KindOf(v) = "array" THEN ElementWalks(t, n, v) ELSE {}
        [] n[1] = "contains"                  -> IF KindOf(v) = "array" THEN {<<t, n[2], v[2][i]>> : i \in DOMAIN v[2]}
                                                 ELSE {}
        [] n[1] = "propertyNames"             -> IF isObject THEN {<<t, n[2], Quoted(p)>> : p \in DOMAIN v[2]}
                                                 ELSE {}
        [] n[1] = "kindDispatch"              -> With({n[2][k] : k \in {KindOf(v)} \cap DOMAIN n[2]})
        [] n[1] = "literalDispatch"           -> With(Selected(n[2], v))
        [] n[1] = "propertyDispatch"          -> IF isObject /\ n[2] \in DOMAIN v[2]
                                                 THEN With(Selected(n[3], v[2][n[2]])) ELSE {}
        [] n[1] = "presenceDispatch"          -> IF isObject THEN With({IF n[2] \in DOMAIN v[2] THEN n[3] ELSE n[4]})
                                                 ELSE {}
        [] OTHER                              -> {}

(* Ok and Errs are what they are given wherever a walk returns.            *)
Returning ==
  \A c \in Walks :
    /\ Depth(c) \in Nat
    /\ c = <<c[1], c[2], c[3]>>
    /\ \A d \in Parts(c[1], c[2], c[3]) : d \in Walks /\ Depth(d) < Depth(c)
    /\ Ok(c[1], c[2], c[3]) <=> OkBy(c[1], c[2], c[3])
    /\ \A y \in Reports, quota \in Nat : Errs(c[1], c[2], c[3], y, quota) = ErrsBy(c[1], c[2], c[3], y, quota)

(* Instances are well-formed JSON, and no name is missing from Names.      *)
Instance ==
  /\ IsList(Names) /\ IsInjective(Names)
  /\ \A c \in Walks : KindOf(c[3]) = "array" => IsList(c[3][2])
  /\ \A c \in Walks : KindOf(c[3]) = "object" => DOMAIN c[3][2] \subseteq Set(Names)

(* A structure declares a name once, and nobody lists one twice under      *)
(* `required`: nameset.go keeps the first position of a name.              *)
Nodes ==
  \A c \in Walks :
    LET n == c[2]
    IN  /\ n[1] = "all" => IsList(n[2])
        /\ n[1] = "arrayStructure" => IsList(n[2])
        /\ n[1] = "objectStructure" =>
             IsList(n[2]) /\ IsList(n[3]) /\ IsInjective([i \in DOMAIN n[2] |-> n[2][i].name])
        /\ n[1] = "required" =>
             IsList(n[2]) /\ IsInjective(n[2]) /\ n[3] = PresenceOf(n[2], Set(n[2]))
        /\ n[1] = "literalDispatch" => IsList(n[2].cases)
        /\ n[1] = "propertyDispatch" => IsList(n[3].cases)

Setting == Returning /\ Instance /\ Nodes

-----------------------------------------------------------------------------
(* Recursion over numbers.                                                 *)

(* A set of numbers has a least one.                                       *)
LEMMA HasLeast ==
  ASSUME NEW S \in SUBSET Nat, S # {}
  PROVE  \E x \in S : \A y \in S : x <= y
<1>1. PICK x \in S : \A y \in S : <<y, x>> \notin OpToRel(<, Nat)
  BY NatLessThanWellFounded, WFMin
<1>2. ASSUME NEW y \in S PROVE x <= y
  <2>1. x \in Nat /\ y \in Nat
    OBVIOUS
  <2>2. y < x => <<y, x>> \in OpToRel(<, Nat)
    BY <2>1 DEF OpToRel
  <2>3. <<y, x>> \notin OpToRel(<, Nat)
    BY <1>1
  <2>4. ~ (y < x)
    BY <2>2, <2>3
  <2> QED
    BY <2>1, <2>4
<1> QED
  BY <1>2

(* f holds what the step g makes of a, up to n times.                      *)
Repeats(f, S, a, n, g) ==
  /\ f \in [0 .. n -> S]
  /\ f[0] = a
  /\ \A k \in 1 .. n : f[k] = g[<<f[k - 1], k>>]

LEMMA StepsExist ==
  ASSUME NEW S, NEW a \in S, NEW n \in Nat, NEW g \in [S \X (1 .. n) -> S]
  PROVE  \E f : Repeats(f, S, a, n, g)
<1> DEFINE Takes(m) == \E f \in [0 .. m -> S] : f[0] = a /\ \A k \in 1 .. m : f[k] = g[<<f[k - 1], k>>]
           Bad == {m \in 0 .. n : ~ Takes(m)}
<1>1. Takes(0)
  <2>1. [k \in 0 .. 0 |-> a] \in [0 .. 0 -> S] /\ [k \in 0 .. 0 |-> a][0] = a
    OBVIOUS
  <2>2. \A k \in 1 .. 0 : FALSE
    OBVIOUS
  <2> QED
    BY <2>1, <2>2
<1>2. ASSUME NEW m \in 1 .. n, Takes(m - 1)
      PROVE  Takes(m)
  <2>1. m \in Nat /\ m - 1 \in 0 .. m - 1 /\ m - 1 # m /\ m # 0
    OBVIOUS
  <2>2. PICK f \in [0 .. m - 1 -> S] : f[0] = a /\ \A k \in 1 .. m - 1 : f[k] = g[<<f[k - 1], k>>]
    BY <1>2
  <2> DEFINE h == [k \in 0 .. m |-> IF k = m THEN g[<<f[m - 1], m>>] ELSE f[k]]
  <2>3. f[m - 1] \in S
    BY <2>1
  <2>4. g[<<f[m - 1], m>>] \in S
    BY <2>3
  <2>5. h \in [0 .. m -> S]
    BY <2>1, <2>4
  <2>6. h[0] = a
    BY <2>1, <2>2
  <2>7. h[m] = g[<<h[m - 1], m>>]
    BY <2>1
  <2>8. ASSUME NEW k \in 1 .. m - 1 PROVE h[k] = g[<<h[k - 1], k>>]
    <3>1. k \in 0 .. m /\ k # m /\ k - 1 \in 0 .. m /\ k - 1 # m
      BY <2>1
    <3> QED
      BY <2>2, <3>1
  <2>9. \A k \in 1 .. m : k = m \/ k \in 1 .. m - 1
    BY <2>1
  <2> HIDE DEF h
  <2> QED
    BY <2>5, <2>6, <2>7, <2>8, <2>9
<1> HIDE DEF Takes
<1>3. ASSUME Bad # {} PROVE FALSE
  <2>1. Bad \in SUBSET Nat
    OBVIOUS
  <2>2. PICK m \in Bad : \A k \in Bad : m <= k
    BY <1>3, <2>1, HasLeast
  <2>3. m \in 0 .. n /\ ~ Takes(m)
    OBVIOUS
  <2>4. m # 0
    BY <1>1, <2>3
  <2>5. m \in 1 .. n /\ m - 1 \in 0 .. n /\ ~ (m <= m - 1)
    BY <2>3, <2>4
  <2>6. Takes(m - 1)
    BY <2>2, <2>5
  <2> QED
    BY <1>2, <2>3, <2>5, <2>6
<1>4. n \in 0 .. n /\ n \notin Bad
  BY <1>3
<1>5. Takes(n)
  BY <1>4
<1> QED
  BY <1>5 DEF Takes, Repeats

(* What each step keeps holds after any number of them.                    *)
LEMMA StaysWithin ==
  ASSUME NEW n \in Nat, NEW T, NEW f, f[0] \in T[0],
         \A k \in 1 .. n : f[k - 1] \in T[k - 1] => f[k] \in T[k]
  PROVE  \A k \in 0 .. n : f[k] \in T[k]
<1> DEFINE Bad == {k \in 0 .. n : f[k] \notin T[k]}
<1> SUFFICES ASSUME Bad # {} PROVE FALSE
  OBVIOUS
<1>1. Bad \in SUBSET Nat
  OBVIOUS
<1>2. PICK m \in Bad : \A k \in Bad : m <= k
  BY <1>1, HasLeast
<1>3. m \in 0 .. n /\ f[m] \notin T[m] /\ m # 0
  OBVIOUS
<1>4. m \in 1 .. n /\ m - 1 \in 0 .. n /\ ~ (m <= m - 1)
  BY <1>3
<1>5. f[m - 1] \in T[m - 1]
  BY <1>2, <1>4
<1> QED
  BY <1>3, <1>4, <1>5

-----------------------------------------------------------------------------
(* Reports.                                                                *)

(* A report of a consumer that takes quota errors.                         *)
Counts(y, quota) == y \in Reports /\ ~ y.late /\ y.yielded <= quota /\ (y.go <=> y.yielded < quota)

Grows(r, y, quota) == Counts(r, quota) /\ y.yielded <= r.yielded

Tells(r, y, quota, ok) == Grows(r, y, quota) /\ (r.yielded = y.yielded <=> ok)

LEMMA ReportOf ==
  ASSUME NEW y \in Reports
  PROVE  y.go \in BOOLEAN /\ y.yielded \in Nat /\ y.late \in BOOLEAN
BY DEF Reports

(* No error, and one.                                                      *)
LEMMA NothingTells ==
  ASSUME NEW quota \in Nat, NEW y, Counts(y, quota), y.go
  PROVE  /\ Grows(y, y, quota)
         /\ Grows(Yield(y, quota), y, quota) /\ Yield(y, quota).yielded # y.yielded
<1> DEFINE more == y.yielded + 1 < quota
<1>1. y \in Reports /\ ~ y.late /\ y.yielded < quota
  BY DEF Counts
<1>2. y.yielded \in Nat /\ y.late \in BOOLEAN
  BY <1>1, ReportOf
<1>3. y.yielded + 1 \in Nat /\ y.yielded + 1 <= quota /\ y.yielded # y.yielded + 1 /\ y.yielded <= y.yielded + 1
  BY <1>1, <1>2
<1>4. Yield(y, quota) = [go |-> more, yielded |-> y.yielded + 1, late |-> FALSE]
  BY <1>1, <1>2 DEF Yield
<1>5. more \in BOOLEAN /\ (more <=> y.yielded + 1 < quota)
  OBVIOUS
<1> HIDE DEF more
<1>6. Yield(y, quota) \in Reports
  BY <1>3, <1>4, <1>5 DEF Reports
<1>7. Yield(y, quota).yielded = y.yielded + 1 /\ Yield(y, quota).late = FALSE /\ Yield(y, quota).go = more
  BY <1>4
<1> QED
  BY <1>1, <1>2, <1>3, <1>5, <1>6, <1>7 DEF Grows, Counts

(* One after another.  Where the consumer has stopped, something was said. *)
LEMMA Onward ==
  ASSUME NEW quota \in Nat, NEW y, Counts(y, quota), y.go,
         NEW r, Grows(r, y, quota), NEW s, r.go => Grows(s, r, quota), ~ r.go => s = r
  PROVE  /\ Grows(s, y, quota)
         /\ s.yielded = y.yielded <=> r.yielded = y.yielded /\ s.yielded = r.yielded
<1>1. y.yielded \in Nat /\ y.yielded < quota /\ r.yielded \in Nat /\ y.yielded <= r.yielded
  BY ReportOf DEF Grows, Counts
<1>2. CASE r.go
  <2>1. s.yielded \in Nat /\ r.yielded <= s.yielded /\ Counts(s, quota)
    BY <1>2, ReportOf DEF Grows, Counts
  <2> QED
    BY <1>1, <2>1 DEF Grows
<1>3. CASE ~ r.go
  <2>1. s = r /\ Counts(r, quota)
    BY <1>3 DEF Grows
  <2>2. ~ (r.yielded < quota)
    BY <1>3, <2>1 DEF Counts
  <2> QED
    BY <1>1, <2>1, <2>2 DEF Grows
<1> QED
  BY <1>2, <1>3

(* What the steps say, as long as the consumer goes on.                    *)
LEMMA EachTells ==
  ASSUME NEW quota \in Nat, NEW y, Counts(y, quota), NEW n \in Nat, NEW step, NEW Bad,
         \A i \in 1 .. n, r \in Reports : Counts(r, quota) /\ r.go => Tells(step[i][r], r, quota, i \notin Bad)
  PROVE  /\ y.go => Tells(Each(step, n, y), y, quota, \A i \in 1 .. n : i \notin Bad)
         /\ ~ y.go => Each(step, n, y) = y
<1> DEFINE S == {r \in Reports : Counts(r, quota)}
           g == [x \in S \X (1 .. n) |-> IF x[1].go THEN step[x[2]][x[1]] ELSE x[1]]
           Rec(h) == h = [i \in 0 .. n |-> IF i = 0 THEN y
                                           ELSE IF h[i - 1].go THEN step[i][h[i - 1]] ELSE h[i - 1]]
<1>1. ASSUME NEW r \in S, NEW i \in 1 .. n
      PROVE  g[<<r, i>>] = (IF r.go THEN step[i][r] ELSE r) /\ g[<<r, i>>] \in S
  <2>1. <<r, i>> \in S \X (1 .. n) /\ <<r, i>>[1] = r /\ <<r, i>>[2] = i
    OBVIOUS
  <2>2. g[<<r, i>>] = IF r.go THEN step[i][r] ELSE r
    BY <2>1
  <2>3. r.go => step[i][r] \in S
    BY DEF Tells, Grows, Counts
  <2> QED
    BY <2>2, <2>3
<1>2. g \in [S \X (1 .. n) -> S]
  <2>1. \A x \in S \X (1 .. n) : x[1] \in S /\ x[2] \in 1 .. n /\ x = <<x[1], x[2]>>
    OBVIOUS
  <2>2. \A x \in S \X (1 .. n) : g[x] \in S
    BY <1>1, <2>1
  <2>3. g = [x \in S \X (1 .. n) |-> g[x]]
    OBVIOUS
  <2> HIDE DEF g, S
  <2> QED
    BY <2>2, <2>3
<1>3. y \in S
  BY DEF Counts
<1> HIDE DEF g, S
<1>4. PICK f : Repeats(f, S, y, n, g)
  BY <1>2, <1>3, StepsExist
<1>5. ASSUME NEW i \in 0 .. n
      PROVE  f[i] = IF i = 0 THEN y ELSE IF f[i - 1].go THEN step[i][f[i - 1]] ELSE f[i - 1]
  <2>1. i # 0 => i \in 1 .. n /\ i - 1 \in 0 .. n
    OBVIOUS
  <2>2. i # 0 => f[i - 1] \in S
    BY <1>4, <2>1 DEF Repeats
  <2> QED
    BY <1>1, <1>4, <2>1, <2>2 DEF Repeats
<1>6. f = [i \in 0 .. n |-> f[i]]
  BY <1>4 DEF Repeats
<1>7. Rec(f)
  BY <1>5, <1>6
<1> DEFINE upto == CHOOSE h : Rec(h)
<1>8. Rec(upto)
  BY <1>7
<1>9. Each(step, n, y) = upto[n]
  BY DEF Each
<1> HIDE DEF upto
<1>10. upto[0] = y /\ \A k \in 1 .. n : upto[k] = IF upto[k - 1].go THEN step[k][upto[k - 1]] ELSE upto[k - 1]
  <2>1. 0 \in 0 .. n /\ \A k \in 1 .. n : k \in 0 .. n /\ k # 0
    OBVIOUS
  <2> QED
    BY <1>8, <2>1
<1> DEFINE Silent(r, k) == r.yielded = y.yielded <=> \A i \in 1 .. k : i \notin Bad
           Kept(k) == {r \in Reports : IF y.go THEN Grows(r, y, quota) /\ Silent(r, k) ELSE r = y}
           T == [k \in 0 .. n |-> Kept(k)]
<1>0. \A k \in 0 .. n : T[k] = Kept(k)
  OBVIOUS
<1> HIDE DEF T
<1>11. upto[0] \in T[0]
  <2>1. \A i \in 1 .. 0 : FALSE
    OBVIOUS
  <2>2. Silent(y, 0)
    BY <2>1
  <2>3. y \in Reports /\ 0 \in 0 .. n
    BY DEF Counts
  <2> HIDE DEF Silent
  <2>4. y.go => Grows(y, y, quota)
    BY NothingTells
  <2> QED
    BY <1>10, <1>0, <2>2, <2>3, <2>4
<1>12. ASSUME NEW k \in 1 .. n, upto[k - 1] \in T[k - 1]
       PROVE  upto[k] \in T[k]
  <2> DEFINE r == upto[k - 1]
             s == upto[k]
  <2>1. k - 1 \in 0 .. n /\ k \in 0 .. n
    OBVIOUS
  <2>2. r \in Kept(k - 1)
    BY <1>12, <1>0, <2>1
  <2>3. s = IF r.go THEN step[k][r] ELSE r
    BY <1>10
  <2> HIDE DEF r, s, upto
  <2>4. CASE ~ y.go
    BY <1>0, <2>1, <2>2, <2>3, <2>4 DEF Counts, s
  <2>5. CASE y.go
    <3>1. Counts(r, quota)
      BY <2>2, <2>5 DEF Grows
    <3>2. r.go => Grows(s, r, quota) /\ (s.yielded = r.yielded <=> k \notin Bad)
      BY <2>2, <2>3, <3>1 DEF Tells
    <3>3. Grows(s, y, quota) /\ (s.yielded = y.yielded <=> r.yielded = y.yielded /\ s.yielded = r.yielded)
      BY <2>2, <2>3, <2>5, <3>2, Onward
    <3>4. r.yielded = y.yielded => r.go
      BY <2>2, <2>5 DEF Grows, Counts
    <3>5. \A i \in 1 .. k : i = k \/ i \in 1 .. k - 1
      OBVIOUS
    <3>6. \A i \in 1 .. k - 1 : i \in 1 .. k
      OBVIOUS
    <3>7. Silent(s, k)
      BY <2>2, <2>5, <3>2, <3>3, <3>4, <3>5, <3>6
    <3>8. s \in Reports
      BY <3>3 DEF Grows, Counts
    <3> HIDE DEF Silent
    <3> QED
      BY <1>0, <2>1, <2>5, <3>3, <3>7, <3>8 DEF s
  <2> QED
    BY <2>4, <2>5
<1>13. \A k \in 0 .. n : upto[k] \in T[k]
  <2> HIDE DEF Kept
  <2> QED
    BY <1>11, <1>12, StaysWithin
<1>14. n \in 0 .. n
  OBVIOUS
<1>15. upto[n] \in Kept(n)
  BY <1>13, <1>14, <1>0
<1> QED
  BY <1>9, <1>15 DEF Tells

-----------------------------------------------------------------------------
(* Lists of names.                                                         *)

LEMMA ListIndexes ==
  ASSUME NEW s, IsList(s)
  PROVE  DOMAIN s = 1 .. Len(s) /\ Len(s) \in Nat /\ DOMAIN s \subseteq Nat
BY DEF IsList

LEMMA AppendHolds ==
  ASSUME NEW X, NEW r \in Seq(X), NEW x \in X
  PROVE  /\ Append(r, x) \in Seq(X)
         /\ Set(Append(r, x)) = Set(r) \cup {x}
         /\ IsInjective(r) /\ x \notin Set(r) => IsInjective(Append(r, x))
<1> DEFINE s == Append(r, x)
<1>1. /\ s \in Seq(X) /\ Len(s) = Len(r) + 1 /\ Len(r) \in Nat /\ s[Len(r) + 1] = x
      /\ DOMAIN r = 1 .. Len(r) /\ DOMAIN s = 1 .. Len(r) + 1
      /\ \A i \in 1 .. Len(r) : s[i] = r[i]
  OBVIOUS
<1> HIDE DEF s
<1>2. \A i \in DOMAIN s : i = Len(r) + 1 \/ i \in DOMAIN r
  BY <1>1
<1>3. \A i \in DOMAIN r : i \in DOMAIN s
  BY <1>1
<1>4. Len(r) + 1 \in DOMAIN s
  BY <1>1
<1>5. Set(s) = Set(r) \cup {x}
  BY <1>1, <1>2, <1>3, <1>4 DEF Set
<1>6. IsInjective(r) /\ x \notin Set(r) => IsInjective(s)
  BY <1>1, <1>2 DEF IsInjective, Set
<1> QED
  BY <1>1, <1>5, <1>6 DEF s

(* The members of a list that are in a set, in its order.                  *)
LEMMA ListedHolds ==
  ASSUME NEW list, IsList(list), NEW W
  PROVE  /\ Listed(list, W) \in Seq(Set(list))
         /\ Set(Listed(list, W)) = Set(list) \cap W
         /\ IsInjective(list) => IsInjective(Listed(list, W))
<1> DEFINE S == Seq(Set(list))
           n == Len(list)
           g == [x \in S \X (1 .. n) |-> IF list[x[2]] \in W THEN Append(x[1], list[x[2]]) ELSE x[1]]
           Rec(h) == h = [i \in 0 .. n |-> IF i = 0 THEN <<>>
                                           ELSE IF list[i] \in W THEN Append(h[i - 1], list[i]) ELSE h[i - 1]]
<1>1. n \in Nat /\ DOMAIN list = 1 .. n
  BY ListIndexes
<1>2. \A i \in 1 .. n : list[i] \in Set(list)
  BY <1>1 DEF Set
<1> HIDE DEF n
<1>3. ASSUME NEW r \in S, NEW i \in 1 .. n
      PROVE  g[<<r, i>>] = (IF list[i] \in W THEN Append(r, list[i]) ELSE r) /\ g[<<r, i>>] \in S
  <2>1. <<r, i>> \in S \X (1 .. n) /\ <<r, i>>[1] = r /\ <<r, i>>[2] = i
    OBVIOUS
  <2>2. g[<<r, i>>] = IF list[i] \in W THEN Append(r, list[i]) ELSE r
    BY <2>1
  <2> QED
    BY <1>2, <2>2, AppendHolds
<1>4. g \in [S \X (1 .. n) -> S]
  <2>1. \A x \in S \X (1 .. n) : x[1] \in S /\ x[2] \in 1 .. n /\ x = <<x[1], x[2]>>
    OBVIOUS
  <2>2. \A x \in S \X (1 .. n) : g[x] \in S
    BY <1>3, <2>1
  <2>3. g = [x \in S \X (1 .. n) |-> g[x]]
    OBVIOUS
  <2> HIDE DEF g, S
  <2> QED
    BY <2>2, <2>3
<1>5. <<>> \in S
  OBVIOUS
<1> HIDE DEF g, S
<1>6. PICK f : Repeats(f, S, <<>>, n, g)
  BY <1>1, <1>4, <1>5, StepsExist
<1>7. ASSUME NEW i \in 0 .. n
      PROVE  f[i] = IF i = 0 THEN <<>> ELSE IF list[i] \in W THEN Append(f[i - 1], list[i]) ELSE f[i - 1]
  <2>1. i # 0 => i \in 1 .. n /\ i - 1 \in 0 .. n
    BY <1>1
  <2>2. i # 0 => f[i - 1] \in S
    BY <1>6, <2>1 DEF Repeats
  <2> QED
    BY <1>3, <1>6, <2>1, <2>2 DEF Repeats
<1>8. f = [i \in 0 .. n |-> f[i]]
  BY <1>6 DEF Repeats
<1>9. Rec(f)
  BY <1>7, <1>8
<1> DEFINE upto == CHOOSE h : Rec(h)
<1>10. Rec(upto)
  BY <1>9
<1>11. Listed(list, W) = upto[n]
  BY DEF Listed, n
<1> HIDE DEF upto
<1>12. /\ upto[0] = <<>>
       /\ \A k \in 1 .. n : upto[k] = IF list[k] \in W THEN Append(upto[k - 1], list[k]) ELSE upto[k - 1]
  <2>1. 0 \in 0 .. n /\ \A k \in 1 .. n : k \in 0 .. n /\ k # 0
    BY <1>1
  <2> QED
    BY <1>10, <2>1
<1> DEFINE First(k) == {list[i] : i \in 1 .. k}
           Holds(r, k) == Set(r) = First(k) \cap W /\ (IsInjective(list) => IsInjective(r))
           T == [k \in 0 .. n |-> {r \in S : Holds(r, k)}]
<1>13. \A k \in 0 .. n : T[k] = {r \in S : Holds(r, k)}
  OBVIOUS
<1> HIDE DEF T
<1>14. upto[0] \in T[0]
  <2>1. First(0) = {} /\ Set(<<>>) = {} /\ IsInjective(<<>>)
    BY DEF Set, IsInjective
  <2>2. Holds(<<>>, 0)
    BY <2>1
  <2> HIDE DEF Holds
  <2> QED
    BY <1>1, <1>5, <1>12, <1>13, <2>2
<1>15. ASSUME NEW k \in 1 .. n, upto[k - 1] \in T[k - 1]
       PROVE  upto[k] \in T[k]
  <2> DEFINE r == upto[k - 1]
  <2>1. k - 1 \in 0 .. n /\ k \in 0 .. n /\ list[k] \in Set(list)
    BY <1>1, <1>2
  <2>2. r \in S /\ Holds(r, k - 1)
    BY <1>13, <1>15, <2>1
  <2>3. upto[k] = IF list[k] \in W THEN Append(r, list[k]) ELSE r
    BY <1>12
  <2> HIDE DEF r
  <2>4. First(k) = First(k - 1) \cup {list[k]}
    <3>1. \A i \in 1 .. k : i = k \/ i \in 1 .. k - 1
      BY <2>1
    <3>2. k \in 1 .. k /\ \A i \in 1 .. k - 1 : i \in 1 .. k
      BY <2>1
    <3> QED
      BY <3>1, <3>2
  <2>5. IsInjective(list) => list[k] \notin First(k - 1)
    <3>1. \A i \in 1 .. k - 1 : i \in DOMAIN list /\ i # k
      BY <1>1
    <3> QED
      BY <1>1, <3>1 DEF IsInjective
  <2>6. upto[k] \in S /\ Holds(upto[k], k)
    <3>1. CASE list[k] \in W
      <4>1. upto[k] = Append(r, list[k])
        BY <2>3, <3>1
      <4>2. Append(r, list[k]) \in Seq(Set(list)) /\ Set(Append(r, list[k])) = Set(r) \cup {list[k]}
            /\ (IsInjective(r) /\ list[k] \notin Set(r) => IsInjective(Append(r, list[k])))
        BY <2>1, <2>2, AppendHolds DEF S
      <4>3. list[k] \notin First(k - 1) => list[k] \notin Set(r)
        BY <2>2
      <4> HIDE DEF First
      <4> QED
        BY <2>2, <2>4, <2>5, <3>1, <4>1, <4>2, <4>3 DEF S
    <3>2. CASE list[k] \notin W
      <4> HIDE DEF First
      <4> QED
        BY <2>2, <2>3, <2>4, <3>2
    <3> QED
      BY <3>1, <3>2
  <2> HIDE DEF Holds
  <2> QED
    BY <1>13, <2>1, <2>6
<1>16. \A k \in 0 .. n : upto[k] \in T[k]
  <2> HIDE DEF Holds
  <2> QED
    BY <1>1, <1>14, <1>15, StaysWithin
<1>17. n \in 0 .. n
  BY <1>1
<1>18. upto[n] \in S /\ Holds(upto[n], n)
  BY <1>13, <1>16, <1>17
<1>19. First(n) = Set(list)
  BY <1>1 DEF Set
<1> HIDE DEF First
<1> QED
  BY <1>11, <1>18, <1>19 DEF S

LEMMA UptoHasSize ==
  ASSUME NEW n \in Nat
  PROVE  IsFiniteSet(1 .. n) /\ Cardinality(1 .. n) = n
<1>1. 1 \in Int /\ n \in Int /\ (1 > n => n = 0) /\ n - 1 + 1 = n
  OBVIOUS
<1> QED
  BY <1>1, FS_Interval

(* The names of an object, each once.                                      *)
LEMMA NamesInHold ==
  ASSUME Setting, NEW c \in Walks, KindOf(c[3]) = "object"
  PROVE  /\ IsList(NamesIn(c[3]))
         /\ Set(NamesIn(c[3])) = DOMAIN c[3][2]
         /\ Len(NamesIn(c[3])) = Cardinality(DOMAIN c[3][2])
<1> DEFINE names == NamesIn(c[3])
           D == DOMAIN c[3][2]
<1>1. IsList(Names) /\ IsInjective(Names) /\ D \subseteq Set(Names)
  BY DEF Setting, Instance
<1>2. names \in Seq(Set(Names)) /\ Set(names) = Set(Names) \cap D /\ IsInjective(names)
  BY <1>1, ListedHolds DEF NamesIn
<1> HIDE DEF names, D
<1>3. Set(names) = D
  BY <1>1, <1>2
<1>4. IsList(names)
  <2>1. Len(names) \in Nat /\ DOMAIN names = 1 .. Len(names) /\ names = [i \in 1 .. Len(names) |-> names[i]]
    BY <1>2
  <2>2. \A i \in 1 .. Len(names) : names[i] \in Set(names)
    BY <2>1 DEF Set
  <2> QED
    BY <2>1, <2>2 DEF IsList
<1>5. Len(names) = Cardinality(Set(names))
  <2>1. DOMAIN names = 1 .. Len(names) /\ Len(names) \in Nat
    BY <1>4, ListIndexes
  <2>2. names \in Bijection(1 .. Len(names), Set(names))
    BY <1>2, <2>1 DEF Bijection, Injection, Surjection, Set, IsInjective
  <2>3. IsFiniteSet(1 .. Len(names)) /\ Cardinality(1 .. Len(names)) = Len(names)
    BY <2>1, UptoHasSize
  <2> QED
    BY <2>2, <2>3, FS_Bijection DEF ExistsBijection
<1> QED
  BY <1>3, <1>4, <1>5 DEF names, D

-----------------------------------------------------------------------------
(* The nodes, one by one.                                                  *)

(* A call that reports an error just when the fast walk rejects.           *)
Reported(c) ==
  \A quota \in Nat, y \in Reports :
    Counts(y, quota) /\ y.go =>
      Tells(Errs(c[1], c[2], c[3], y, quota), y, quota, Ok(c[1], c[2], c[3]))

(* A call of Errs, and that those it makes report as they should.          *)
Asked(t, n, v, y, quota) ==
  /\ <<t, n, v>> \in Walks
  /\ \A d \in Parts(t, n, v) : Reported(d)
  /\ quota \in Nat /\ y \in Reports /\ Counts(y, quota) /\ y.go

LEMMA PartTells ==
  ASSUME NEW t, NEW n, NEW v, NEW y, NEW quota, Asked(t, n, v, y, quota),
         NEW m, NEW w, <<t, m, w>> \in Parts(t, n, v),
         NEW r \in Reports, Counts(r, quota), r.go
  PROVE  Tells(Errs(t, m, w, r, quota), r, quota, Ok(t, m, w))
<1>1. Reported(<<t, m, w>>) /\ quota \in Nat
  BY DEF Asked
<1>2. <<t, m, w>>[1] = t /\ <<t, m, w>>[2] = m /\ <<t, m, w>>[3] = w
  OBVIOUS
<1> QED
  BY <1>1, <1>2 DEF Reported

(* What is settled without another call.                                   *)
LEMMA AnswerTells ==
  ASSUME NEW quota \in Nat, NEW y \in Reports, Counts(y, quota), y.go
  PROVE  Tells(y, y, quota, TRUE) /\ Tells(Yield(y, quota), y, quota, FALSE)
BY NothingTells DEF Tells

LEMMA AllTells ==
  ASSUME Setting, NEW t, NEW n, NEW v, NEW y, NEW quota, Asked(t, n, v, y, quota), n[1] = "all"
  PROVE  Tells(ErrsBy(t, n, v, y, quota), y, quota, OkBy(t, n, v))
<1> DEFINE member == [i \in DOMAIN n[2] |-> [r \in Reports |-> Errs(t, n[2][i], v, r, quota)]]
           Bad == {i \in DOMAIN n[2] : ~ Ok(t, n[2][i], v)}
           r == Each(member, Len(n[2]), y)
<1>1. IsList(n[2])
  BY DEF Setting, Nodes, Asked
<1>2. DOMAIN n[2] = 1 .. Len(n[2]) /\ Len(n[2]) \in Nat
  BY <1>1, ListIndexes
<1>3. ErrsBy(t, n, v, y, quota) = r
  BY DEF ErrsBy
<1>4. OkBy(t, n, v) <=> \A i \in DOMAIN n[2] : Ok(t, n[2][i], v)
  BY DEF OkBy
<1>5. ASSUME NEW i \in 1 .. Len(n[2]), NEW s \in Reports, Counts(s, quota), s.go
      PROVE  Tells(member[i][s], s, quota, i \notin Bad)
  <2>1. <<t, n[2][i], v>> \in Parts(t, n, v)
    BY <1>2 DEF Parts, Set
  <2>2. Tells(Errs(t, n[2][i], v, s, quota), s, quota, Ok(t, n[2][i], v))
    BY <1>5, <2>1, PartTells
  <2>3. member[i][s] = Errs(t, n[2][i], v, s, quota)
    BY <1>2
  <2> QED
    BY <1>2, <2>2, <2>3 DEF Tells
<1> HIDE DEF member, Bad
<1>6. Tells(r, y, quota, \A i \in 1 .. Len(n[2]) : i \notin Bad)
  BY <1>2, <1>5, EachTells DEF Asked
<1> QED
  BY <1>2, <1>3, <1>4, <1>6 DEF Tells, Bad

(* A node that hands the instance on, or settles it.                       *)
LEMMA GuardTells ==
  ASSUME Setting, NEW t, NEW n, NEW v, NEW y, NEW quota, Asked(t, n, v, y, quota),
         n[1] \in {"guard", "assertKind", "shape", "reference"}
  PROVE  Tells(ErrsBy(t, n, v, y, quota), y, quota, OkBy(t, n, v))
<1>1. quota \in Nat /\ y \in Reports /\ Counts(y, quota) /\ y.go
  BY DEF Asked
<1>2. Tells(y, y, quota, TRUE) /\ Tells(Yield(y, quota), y, quota, FALSE)
  BY <1>1, AnswerTells
<1>3. ASSUME NEW m, <<t, m, v>> \in Parts(t, n, v)
      PROVE  Tells(Errs(t, m, v, y, quota), y, quota, Ok(t, m, v))
  BY <1>1, <1>3, PartTells
<1>4. CASE n[1] = "guard"
  <2>1. KindOf(v) \in n[2] => <<t, n[3], v>> \in Parts(t, n, v)
    BY <1>4 DEF Parts
  <2>2. ErrsBy(t, n, v, y, quota) = IF KindOf(v) \in n[2] THEN Errs(t, n[3], v, y, quota) ELSE y
    BY <1>4 DEF ErrsBy
  <2>3. OkBy(t, n, v) <=> (KindOf(v) \in n[2] => Ok(t, n[3], v))
    BY <1>4 DEF OkBy
  <2> QED
    BY <1>2, <1>3, <2>1, <2>2, <2>3 DEF Tells
<1>5. CASE n[1] = "assertKind"
  <2>1. KindOf(v) \in n[2] /\ n[3] # Nil => <<t, n[3], v>> \in Parts(t, n, v)
    BY <1>5 DEF Parts
  <2>2. ErrsBy(t, n, v, y, quota) = IF KindOf(v) \notin n[2] THEN Yield(y, quota)
                                    ELSE IF n[3] = Nil THEN y ELSE Errs(t, n[3], v, y, quota)
    BY <1>5 DEF ErrsBy
  <2>3. OkBy(t, n, v) <=> KindOf(v) \in n[2] /\ (n[3] = Nil \/ Ok(t, n[3], v))
    BY <1>5 DEF OkBy
  <2> QED
    BY <1>2, <1>3, <2>1, <2>2, <2>3 DEF Tells
<1>6. CASE n[1] = "shape"
  <2>1. <<t, n[2], v>> \in Parts(t, n, v)
    BY <1>6 DEF Parts
  <2>2. ErrsBy(t, n, v, y, quota) = Errs(t, n[2], v, y, quota)
    BY <1>6 DEF ErrsBy
  <2>3. OkBy(t, n, v) <=> Ok(t, n[2], v)
    BY <1>6 DEF OkBy
  <2> QED
    BY <1>3, <2>1, <2>2, <2>3 DEF Tells
<1>7. CASE n[1] = "reference"
  <2>1. n[2] \in DOMAIN t /\ t[n[2]] # Nil => <<t, t[n[2]], v>> \in Parts(t, n, v)
    BY <1>7 DEF Parts
  <2>2. ErrsBy(t, n, v, y, quota) = IF n[2] \notin DOMAIN t \/ t[n[2]] = Nil THEN y
                                    ELSE Errs(t, t[n[2]], v, y, quota)
    BY <1>7 DEF ErrsBy
  <2>3. OkBy(t, n, v) <=> n[2] \notin DOMAIN t \/ t[n[2]] = Nil \/ Ok(t, t[n[2]], v)
    BY <1>7 DEF OkBy
  <2> QED
    BY <1>2, <1>3, <2>1, <2>2, <2>3 DEF Tells
<1> QED
  BY <1>4, <1>5, <1>6, <1>7

(* At most one case is selected.                                           *)
LEMMA SelectedIsOne ==
  ASSUME NEW cases, NEW selector, NEW a \in Selected(cases, selector), NEW b \in Selected(cases, selector),
         DOMAIN cases.cases \subseteq Nat
  PROVE  a = b
<1>1. PICK i \in DOMAIN cases.cases : /\ cases.cases[i][1] = selector /\ a = cases.cases[i][2]
                                      /\ \A j \in DOMAIN cases.cases : cases.cases[j][1] = selector => i <= j
  BY DEF Selected
<1>2. PICK k \in DOMAIN cases.cases : /\ cases.cases[k][1] = selector /\ b = cases.cases[k][2]
                                      /\ \A j \in DOMAIN cases.cases : cases.cases[j][1] = selector => k <= j
  BY DEF Selected
<1>3. i \in Nat /\ k \in Nat /\ i <= k /\ k <= i
  BY <1>1, <1>2
<1> QED
  BY <1>1, <1>2, <1>3

LEMMA CaseTells ==
  ASSUME NEW t, NEW n, NEW v, NEW y, NEW quota, Asked(t, n, v, y, quota),
         NEW S, \A m \in S : <<t, m, v>> \in Parts(t, n, v), \A a, b \in S : a = b
  PROVE  Tells(CaseErrs(t, S, v, y, quota), y, quota, S # {} /\ \A m \in S : Ok(t, m, v))
<1>1. quota \in Nat /\ y \in Reports /\ Counts(y, quota) /\ y.go
  BY DEF Asked
<1>2. CASE S = {}
  BY <1>1, <1>2, AnswerTells DEF CaseErrs, Tells
<1>3. CASE S # {}
  <2> DEFINE m == CHOOSE x \in S : TRUE
  <2>1. m \in S /\ \A x \in S : x = m
    BY <1>3
  <2>2. CaseErrs(t, S, v, y, quota) = Errs(t, m, v, y, quota)
    BY <1>3 DEF CaseErrs
  <2> HIDE DEF m
  <2>3. Tells(Errs(t, m, v, y, quota), y, quota, Ok(t, m, v))
    BY <1>1, <2>1, PartTells
  <2> QED
    BY <1>3, <2>1, <2>2, <2>3 DEF Tells
<1> QED
  BY <1>2, <1>3

Dispatches == {"kindDispatch", "literalDispatch", "propertyDispatch", "presenceDispatch", "countDispatch"}

LEMMA DispatchTells ==
  ASSUME Setting, NEW t, NEW n, NEW v, NEW y, NEW quota, Asked(t, n, v, y, quota), n[1] \in Dispatches
  PROVE  Tells(ErrsBy(t, n, v, y, quota), y, quota, OkBy(t, n, v))
<1>1. quota \in Nat /\ y \in Reports /\ Counts(y, quota) /\ y.go /\ <<t, n, v>> \in Walks
  BY DEF Asked
<1>2. Tells(y, y, quota, TRUE) /\ Tells(Yield(y, quota), y, quota, FALSE)
  BY <1>1, AnswerTells
<1>3. ASSUME NEW m, <<t, m, v>> \in Parts(t, n, v)
      PROVE  Tells(Errs(t, m, v, y, quota), y, quota, Ok(t, m, v))
  BY <1>1, <1>3, PartTells
<1>4. ErrsBy(t, n, v, y, quota) = DispatchErrs(t, n, v, y, quota) /\ (OkBy(t, n, v) <=> DispatchOk(t, n, v))
  BY DEF ErrsBy, OkBy, Dispatches
<1>5. CASE n[1] = "kindDispatch"
  <2>1. KindOf(v) \in DOMAIN n[2] => <<t, n[2][KindOf(v)], v>> \in Parts(t, n, v)
    BY <1>5 DEF Parts
  <2>2. DispatchErrs(t, n, v, y, quota) =
          IF KindOf(v) \in DOMAIN n[2] THEN Errs(t, n[2][KindOf(v)], v, y, quota) ELSE Yield(y, quota)
    BY <1>5 DEF DispatchErrs
  <2>3. DispatchOk(t, n, v) <=> KindOf(v) \in DOMAIN n[2] /\ Ok(t, n[2][KindOf(v)], v)
    BY <1>5 DEF DispatchOk
  <2> QED
    BY <1>2, <1>3, <1>4, <2>1, <2>2, <2>3 DEF Tells
<1>6. CASE n[1] = "literalDispatch"
  <2> DEFINE S == Selected(n[2], v)
  <2>1. \A m \in S : <<t, m, v>> \in Parts(t, n, v)
    BY <1>6 DEF Parts
  <2>2. \A a, b \in S : a = b
    <3>1. IsList(n[2].cases)
      BY <1>1, <1>6 DEF Setting, Nodes
    <3>2. DOMAIN n[2].cases \subseteq Nat
      BY <3>1, ListIndexes
    <3> QED
      BY <3>2, SelectedIsOne
  <2>3. DispatchErrs(t, n, v, y, quota) = CaseErrs(t, S, v, y, quota)
    BY <1>6 DEF DispatchErrs
  <2>4. DispatchOk(t, n, v) <=> S # {} /\ \A m \in S : Ok(t, m, v)
    BY <1>6 DEF DispatchOk
  <2> HIDE DEF S
  <2>5. Tells(CaseErrs(t, S, v, y, quota), y, quota, S # {} /\ \A m \in S : Ok(t, m, v))
    BY <2>1, <2>2, CaseTells
  <2> QED
    BY <1>4, <2>3, <2>4, <2>5 DEF Tells
<1>7. CASE n[1] = "propertyDispatch"
  <2> DEFINE S == Selected(n[3], v[2][n[2]])
             has == KindOf(v) = "object" /\ n[2] \in DOMAIN v[2]
  <2>1. has => \A m \in S : <<t, m, v>> \in Parts(t, n, v)
    BY <1>7 DEF Parts
  <2>2. \A a, b \in S : a = b
    <3>1. IsList(n[3].cases)
      BY <1>1, <1>7 DEF Setting, Nodes
    <3>2. DOMAIN n[3].cases \subseteq Nat
      BY <3>1, ListIndexes
    <3> QED
      BY <3>2, SelectedIsOne
  <2>3. DispatchErrs(t, n, v, y, quota) = IF has THEN CaseErrs(t, S, v, y, quota) ELSE Yield(y, quota)
    BY <1>7 DEF DispatchErrs
  <2>4. DispatchOk(t, n, v) <=> has /\ S # {} /\ \A m \in S : Ok(t, m, v)
    BY <1>7 DEF DispatchOk
  <2> HIDE DEF S, has
  <2>5. has => Tells(CaseErrs(t, S, v, y, quota), y, quota, S # {} /\ \A m \in S : Ok(t, m, v))
    BY <2>1, <2>2, CaseTells
  <2> QED
    BY <1>2, <1>4, <2>3, <2>4, <2>5 DEF Tells
<1>8. CASE n[1] = "presenceDispatch"
  <2> DEFINE m == IF n[2] \in DOMAIN v[2] THEN n[3] ELSE n[4]
  <2>1. KindOf(v) = "object" => <<t, m, v>> \in Parts(t, n, v)
    BY <1>8 DEF Parts
  <2>2. DispatchErrs(t, n, v, y, quota) = IF KindOf(v) = "object" THEN Errs(t, m, v, y, quota) ELSE y
    BY <1>8 DEF DispatchErrs
  <2>3. DispatchOk(t, n, v) <=> (KindOf(v) = "object" => Ok(t, m, v))
    BY <1>8 DEF DispatchOk
  <2> HIDE DEF m
  <2> QED
    BY <1>2, <1>3, <1>4, <2>1, <2>2, <2>3 DEF Tells
<1>9. CASE n[1] = "countDispatch"
  <2>1. DispatchErrs(t, n, v, y, quota) = IF Ok(t, n, v) THEN y ELSE Yield(y, quota)
    BY <1>9 DEF DispatchErrs
  <2>2. Ok(t, n, v) <=> OkBy(t, n, v)
    BY <1>1 DEF Setting, Returning
  <2> QED
    BY <1>2, <1>4, <2>1, <2>2 DEF Tells
<1> QED
  BY <1>5, <1>6, <1>7, <1>8, <1>9 DEF Dispatches

(* The rest has an error of its own, where the fast walk rejects.          *)
LEMMA LeafTells ==
  ASSUME Setting, NEW t, NEW n, NEW v, NEW y, NEW quota, Asked(t, n, v, y, quota),
         n[1] \notin Dispatches \cup {"all", "guard", "assertKind", "shape", "reference", "required",
                                      "propertyNames", "objectStructure", "arrayStructure"}
  PROVE  Tells(ErrsBy(t, n, v, y, quota), y, quota, OkBy(t, n, v))
<1>1. quota \in Nat /\ y \in Reports /\ Counts(y, quota) /\ y.go /\ <<t, n, v>> \in Walks
  BY DEF Asked
<1>2. Tells(y, y, quota, TRUE) /\ Tells(Yield(y, quota), y, quota, FALSE)
  BY <1>1, AnswerTells
<1>3. ErrsBy(t, n, v, y, quota) = IF Ok(t, n, v) THEN y ELSE Yield(y, quota)
  BY DEF ErrsBy, Dispatches, LeafErrs
<1>4. Ok(t, n, v) <=> OkBy(t, n, v)
  BY <1>1 DEF Setting, Returning
<1> QED
  BY <1>2, <1>3, <1>4 DEF Tells

(* Where no name is listed twice, a presence holds the positions of those  *)
(* that are present.                                                       *)
LEMMA PresenceIs ==
  ASSUME NEW names, IsList(names), IsInjective(names), NEW present
  PROVE  PresenceOf(names, present) = {i \in DOMAIN names : names[i] \in present}
<1>1. DOMAIN names \subseteq Nat
  BY ListIndexes
<1>2. ASSUME NEW i \in DOMAIN names
      PROVE  Lookup(names, names[i]) = {i}
  <2> DEFINE at == {j \in DOMAIN names : names[j] = names[i]}
  <2>1. at = {i}
    BY DEF IsInjective
  <2>2. Lookup(names, names[i]) = IF at = {} THEN {} ELSE {CHOOSE j \in at : \A k \in at : j <= k}
    BY DEF Lookup
  <2> HIDE DEF at
  <2>3. \A j \in at : j = i
    BY <2>1
  <2>4. i \in at /\ \A k \in at : i <= k
    BY <1>1, <2>1
  <2>5. (CHOOSE j \in at : \A k \in at : j <= k) = i
    BY <2>3, <2>4
  <2> QED
    BY <2>2, <2>4, <2>5
<1>3. \A name : name \notin Set(names) => Lookup(names, name) = {}
  BY DEF Lookup, Set
<1>4. ASSUME NEW i \in PresenceOf(names, present)
      PROVE  i \in DOMAIN names /\ names[i] \in present
  <2>1. PICK name \in present : i \in Lookup(names, name)
    BY DEF PresenceOf
  <2>2. PICK j \in DOMAIN names : names[j] = name
    BY <1>3, <2>1 DEF Set
  <2> QED
    BY <1>2, <2>1, <2>2
<1>5. ASSUME NEW i \in DOMAIN names, names[i] \in present
      PROVE  i \in PresenceOf(names, present)
  BY <1>2, <1>5 DEF PresenceOf
<1> QED
  BY <1>4, <1>5

LEMMA RequiredTells ==
  ASSUME Setting, NEW t, NEW n, NEW v, NEW y, NEW quota, Asked(t, n, v, y, quota), n[1] = "required"
  PROVE  Tells(ErrsBy(t, n, v, y, quota), y, quota, OkBy(t, n, v))
<1> DEFINE present == PresenceOf(n[2], DOMAIN v[2])
           name == [i \in DOMAIN n[2] |-> [r \in Reports |-> IF i \in present THEN r ELSE Yield(r, quota)]]
           Bad == {i \in DOMAIN n[2] : i \notin present}
           s == Each(name, Len(n[2]), y)
<1>1. quota \in Nat /\ y \in Reports /\ Counts(y, quota) /\ y.go /\ <<t, n, v>> \in Walks
  BY DEF Asked
<1>2. IsList(n[2]) /\ IsInjective(n[2]) /\ n[3] = PresenceOf(n[2], Set(n[2]))
  BY <1>1 DEF Setting, Nodes
<1>3. DOMAIN n[2] = 1 .. Len(n[2]) /\ Len(n[2]) \in Nat
  BY <1>2, ListIndexes
<1>4. n[3] = DOMAIN n[2]
  <2>1. PresenceOf(n[2], Set(n[2])) = {i \in DOMAIN n[2] : n[2][i] \in Set(n[2])}
    BY <1>2, PresenceIs
  <2>2. \A i \in DOMAIN n[2] : n[2][i] \in Set(n[2])
    BY DEF Set
  <2> QED
    BY <1>2, <2>1, <2>2
<1>5. ErrsBy(t, n, v, y, quota) = IF KindOf(v) = "object" THEN s ELSE y
  BY DEF ErrsBy, RequiredErrs
<1>6. OkBy(t, n, v) <=> (KindOf(v) = "object" => n[3] \subseteq present)
  BY DEF OkBy, ObjectTestOk
<1> HIDE DEF present
<1>7. ASSUME NEW i \in 1 .. Len(n[2]), NEW r \in Reports, Counts(r, quota), r.go
      PROVE  Tells(name[i][r], r, quota, i \notin Bad)
  <2>1. Tells(r, r, quota, TRUE) /\ Tells(Yield(r, quota), r, quota, FALSE)
    BY <1>1, <1>7, AnswerTells
  <2>2. name[i][r] = IF i \in present THEN r ELSE Yield(r, quota)
    BY <1>3
  <2> QED
    BY <1>3, <2>1, <2>2 DEF Tells
<1> HIDE DEF name, Bad
<1>8. Tells(s, y, quota, \A i \in 1 .. Len(n[2]) : i \notin Bad)
  BY <1>1, <1>3, <1>7, EachTells
<1>9. Tells(y, y, quota, TRUE)
  BY <1>1, AnswerTells
<1> HIDE DEF s
<1> QED
  BY <1>3, <1>4, <1>5, <1>6, <1>8, <1>9 DEF Tells, Bad

LEMMA NamesTell ==
  ASSUME Setting, NEW t, NEW n, NEW v, NEW y, NEW quota, Asked(t, n, v, y, quota), n[1] = "propertyNames"
  PROVE  Tells(ErrsBy(t, n, v, y, quota), y, quota, OkBy(t, n, v))
<1> DEFINE names == NamesIn(v)
           name == [i \in DOMAIN names |->
                      [r \in Reports |-> IF Ok(t, n[2], Quoted(names[i])) THEN r ELSE Yield(r, quota)]]
           Bad == {i \in DOMAIN names : ~ Ok(t, n[2], Quoted(names[i]))}
           s == Each(name, Len(names), y)
<1>1. quota \in Nat /\ y \in Reports /\ Counts(y, quota) /\ y.go /\ <<t, n, v>> \in Walks
  BY DEF Asked
<1>2. Tells(y, y, quota, TRUE)
  BY <1>1, AnswerTells
<1>3. ErrsBy(t, n, v, y, quota) = IF KindOf(v) = "object" THEN s ELSE y
  BY DEF ErrsBy, NameErrs
<1>4. OkBy(t, n, v) <=> (KindOf(v) = "object" => \A p \in DOMAIN v[2] : Ok(t, n[2], Quoted(p)))
  BY DEF OkBy, ObjectTestOk
<1>5. CASE KindOf(v) = "object"
  <2>1. IsList(names) /\ Set(names) = DOMAIN v[2]
    BY <1>1, <1>5, NamesInHold
  <2> HIDE DEF names
  <2>2. DOMAIN names = 1 .. Len(names) /\ Len(names) \in Nat
    BY <2>1, ListIndexes
  <2>3. ASSUME NEW i \in 1 .. Len(names), NEW r \in Reports, Counts(r, quota), r.go
        PROVE  Tells(name[i][r], r, quota, i \notin Bad)
    <3>1. Tells(r, r, quota, TRUE) /\ Tells(Yield(r, quota), r, quota, FALSE)
      BY <1>1, <2>3, AnswerTells
    <3>2. name[i][r] = IF Ok(t, n[2], Quoted(names[i])) THEN r ELSE Yield(r, quota)
      BY <2>2
    <3> QED
      BY <2>2, <3>1, <3>2 DEF Tells
  <2> HIDE DEF name, Bad
  <2>4. Tells(s, y, quota, \A i \in 1 .. Len(names) : i \notin Bad)
    BY <1>1, <2>2, <2>3, EachTells
  <2>5. (\A i \in 1 .. Len(names) : i \notin Bad) <=> \A p \in DOMAIN v[2] : Ok(t, n[2], Quoted(p))
    BY <2>1, <2>2 DEF Bad, Set
  <2> HIDE DEF s
  <2> QED
    BY <1>3, <1>4, <1>5, <2>4, <2>5 DEF Tells
<1>6. CASE KindOf(v) # "object"
  BY <1>2, <1>3, <1>4, <1>6 DEF Tells
<1> QED
  BY <1>5, <1>6

(* A count that is reported after a walk, if the consumer goes on.         *)
LEMMA CountTells ==
  ASSUME NEW quota \in Nat, NEW y \in Reports, Counts(y, quota), y.go, NEW c, NEW n,
         NEW r, Grows(r, y, quota), NEW s, s = IF r.go THEN CountErrs(c, n, r, quota) ELSE r
  PROVE  Tells(s, y, quota, r.yielded = y.yielded /\ BoundsOk(c, n))
<1>1. r \in Reports /\ Counts(r, quota)
  BY DEF Grows, Counts
<1>2. r.go => Grows(s, r, quota) /\ (s.yielded = r.yielded <=> BoundsOk(c, n))
  BY <1>1, NothingTells DEF CountErrs
<1>3. Grows(s, y, quota) /\ (s.yielded = y.yielded <=> r.yielded = y.yielded /\ s.yielded = r.yielded)
  BY <1>2, Onward
<1>4. r.yielded = y.yielded => r.go
  BY DEF Grows, Counts
<1> QED
  BY <1>2, <1>3, <1>4 DEF Tells

LEMMA ArrayTells ==
  ASSUME Setting, NEW t, NEW n, NEW v, NEW y, NEW quota, Asked(t, n, v, y, quota), n[1] = "arrayStructure"
  PROVE  Tells(ErrsBy(t, n, v, y, quota), y, quota, OkBy(t, n, v))
<1> DEFINE ItemOk(i) == CASE i <= Len(n[2]) -> Ok(t, n[2][i], v[2][i])
                          [] i > Len(n[2]) /\ n[3] # Nil -> Ok(t, n[3], v[2][i])
                          [] OTHER -> FALSE
           Item(i, r) == CASE i <= Len(n[2]) -> Errs(t, n[2][i], v[2][i], r, quota)
                           [] i > Len(n[2]) /\ n[3] = Nil -> Yield(r, quota)
                           [] OTHER -> Errs(t, n[3], v[2][i], r, quota)
           item == [i \in DOMAIN v[2] |-> [r \in Reports |-> Item(i, r)]]
           Bad == {i \in DOMAIN v[2] : ~ ItemOk(i)}
           walked == Each(item, Len(v[2]), y)
           s == IF walked.go THEN CountErrs(n[4], Len(v[2]), walked, quota) ELSE walked
<1>1. quota \in Nat /\ y \in Reports /\ Counts(y, quota) /\ y.go /\ <<t, n, v>> \in Walks
  BY DEF Asked
<1>2. Tells(y, y, quota, TRUE)
  BY <1>1, AnswerTells
<1>3. ErrsBy(t, n, v, y, quota) = IF KindOf(v) = "array" THEN s ELSE y
  BY DEF ErrsBy, ArrayErrs, ItemErrs
<1>4. OkBy(t, n, v) <=> (KindOf(v) = "array" => (\A i \in DOMAIN v[2] : ItemOk(i)) /\ BoundsOk(n[4], Len(v[2])))
  BY DEF OkBy, ArrayOk
<1>5. CASE KindOf(v) = "array"
  <2>1. IsList(v[2]) /\ IsList(n[2])
    BY <1>1, <1>5 DEF Setting, Instance, Nodes
  <2>2. DOMAIN v[2] = 1 .. Len(v[2]) /\ Len(v[2]) \in Nat /\ Len(n[2]) \in Nat
    BY <2>1, ListIndexes
  <2>3. ASSUME NEW i \in 1 .. Len(v[2]), NEW r \in Reports, Counts(r, quota), r.go
        PROVE  Tells(item[i][r], r, quota, i \notin Bad)
    <3>1. item[i][r] = Item(i, r)
      BY <2>2
    <3>2. Tells(Item(i, r), r, quota, ItemOk(i))
      <4>1. CASE i <= Len(n[2])
        <5>1. <<t, n[2][i], v[2][i]>> \in Parts(t, n, v)
          BY <1>5, <2>2, <4>1 DEF Parts, ElementWalks
        <5>2. Tells(Errs(t, n[2][i], v[2][i], r, quota), r, quota, Ok(t, n[2][i], v[2][i]))
          BY <2>3, <5>1, PartTells
        <5> QED
          BY <4>1, <5>2 DEF Tells
      <4>2. CASE i > Len(n[2]) /\ n[3] # Nil
        <5>1. <<t, n[3], v[2][i]>> \in Parts(t, n, v)
          BY <1>5, <2>2, <4>2 DEF Parts, ElementWalks
        <5>2. Tells(Errs(t, n[3], v[2][i], r, quota), r, quota, Ok(t, n[3], v[2][i]))
          BY <2>3, <5>1, PartTells
        <5>3. ~ (i <= Len(n[2]))
          BY <2>2, <4>2
        <5> QED
          BY <4>2, <5>2, <5>3 DEF Tells
      <4>3. CASE i > Len(n[2]) /\ n[3] = Nil
        <5>1. ~ (i <= Len(n[2]))
          BY <2>2, <4>3
        <5>2. Tells(Yield(r, quota), r, quota, FALSE)
          BY <1>1, <2>3, AnswerTells
        <5> QED
          BY <4>3, <5>1, <5>2 DEF Tells
      <4>4. i <= Len(n[2]) \/ i > Len(n[2])
        BY <2>2
      <4> HIDE DEF Item, ItemOk
      <4> QED
        BY <4>1, <4>2, <4>3, <4>4
    <3> HIDE DEF Item, item, ItemOk
    <3> QED
      BY <2>2, <3>1, <3>2 DEF Tells
  <2> HIDE DEF item, Bad
  <2>4. Tells(walked, y, quota, \A i \in 1 .. Len(v[2]) : i \notin Bad)
    BY <1>1, <2>2, <2>3, EachTells
  <2>5. (\A i \in 1 .. Len(v[2]) : i \notin Bad) <=> \A i \in DOMAIN v[2] : ItemOk(i)
    BY <2>2 DEF Bad
  <2> HIDE DEF walked, ItemOk
  <2>6. Tells(s, y, quota, walked.yielded = y.yielded /\ BoundsOk(n[4], Len(v[2])))
    <3>1. Grows(walked, y, quota)
      BY <2>4 DEF Tells
    <3> QED
      BY <1>1, <3>1, CountTells
  <2> HIDE DEF s
  <2> QED
    BY <1>3, <1>4, <1>5, <2>4, <2>5, <2>6 DEF Tells
<1>6. CASE KindOf(v) # "array"
  BY <1>2, <1>3, <1>4, <1>6 DEF Tells
<1> QED
  BY <1>5, <1>6

(* One member of an object.                                                *)
LEMMA MemberTells ==
  ASSUME Setting, NEW t, NEW n, NEW v, NEW y, NEW quota, Asked(t, n, v, y, quota),
         n[1] = "objectStructure", KindOf(v) = "object", NEW name \in DOMAIN v[2],
         NEW r \in Reports, Counts(r, quota), r.go
  PROVE  Tells(MemberErrs(t, n, name, v[2][name], r, quota), r, quota, MemberOk(t, n, name, v[2][name]))
<1> DEFINE x == v[2][name]
           at == {i \in DOMAIN n[2] : n[2][i].name = name}
           rule == [i \in DOMAIN n[3] |->
                      [q \in Reports |-> IF i \in Decided(n, name) THEN Errs(t, n[3][i][2], x, q, quota) ELSE q]]
           ruled == Each(rule, Len(n[3]), r)
           Bad == {i \in Decided(n, name) : ~ Ok(t, n[3][i][2], x)}
<1>1. quota \in Nat /\ <<t, n, v>> \in Walks
  BY DEF Asked
<1>2. IsList(n[3]) /\ IsInjective([i \in DOMAIN n[2] |-> n[2][i].name])
  BY <1>1 DEF Setting, Nodes
<1>3. Parts(t, n, v) = MemberWalks(t, n, v)
  BY DEF Parts
<1>4. CASE at # {}
  <2>1. PICK i \in DOMAIN n[2] : n[2][i].name = name
    BY <1>4
  <2>2. \A j \in at : j = i
    BY <1>2, <2>1 DEF IsInjective
  <2>3. at = {i}
    BY <2>1, <2>2
  <2>4. (CHOOSE j \in at : TRUE) = i
    BY <2>3
  <2>5. MemberErrs(t, n, name, x, r, quota) =
          IF n[2][i].nullable /\ KindOf(x) = "null" THEN r ELSE Errs(t, n[2][i].inner, x, r, quota)
    BY <1>4, <2>4 DEF MemberErrs
  <2>6. MemberOk(t, n, name, x) <=> (n[2][i].nullable /\ KindOf(x) = "null") \/ Ok(t, n[2][i].inner, x)
    BY <1>4, <2>3 DEF MemberOk
  <2>7. <<t, n[2][i].inner, v[2][n[2][i].name]>> \in MemberWalks(t, n, v)
    BY <2>1 DEF MemberWalks
  <2>8. Tells(Errs(t, n[2][i].inner, x, r, quota), r, quota, Ok(t, n[2][i].inner, x))
    BY <1>3, <2>1, <2>7, PartTells
  <2>9. Tells(r, r, quota, TRUE)
    BY <1>1, AnswerTells
  <2> HIDE DEF x
  <2> QED
    BY <2>5, <2>6, <2>8, <2>9 DEF Tells, x
<1>5. CASE at = {}
  <2>1. name \in OtherNames(n, v)
    BY <1>5 DEF OtherNames
  <2>2. DOMAIN n[3] = 1 .. Len(n[3]) /\ Len(n[3]) \in Nat
    BY <1>2, ListIndexes
  <2>3. Decided(n, name) \subseteq DOMAIN n[3]
    BY DEF Decided
  <2>4. MemberErrs(t, n, name, x, r, quota) =
          IF ~ ruled.go \/ RulesFor(n, name) # {} \/ n[4] = Nil THEN ruled ELSE Errs(t, n[4], x, ruled, quota)
    BY <1>5 DEF MemberErrs
  <2>5. MemberOk(t, n, name, x) <=> /\ \A i \in Decided(n, name) : Ok(t, n[3][i][2], x)
                                    /\ RulesFor(n, name) # {} \/ n[4] = Nil \/ Ok(t, n[4], x)
    BY <1>5 DEF MemberOk
  <2>6. ASSUME NEW i \in 1 .. Len(n[3]), NEW q \in Reports, Counts(q, quota), q.go
        PROVE  Tells(rule[i][q], q, quota, i \notin Bad)
    <3>1. rule[i][q] = IF i \in Decided(n, name) THEN Errs(t, n[3][i][2], x, q, quota) ELSE q
      BY <2>2
    <3>2. <<t, n[3][i][2], x>> \in MemberWalks(t, n, v)
      BY <2>1, <2>2 DEF MemberWalks
    <3>3. Tells(Errs(t, n[3][i][2], x, q, quota), q, quota, Ok(t, n[3][i][2], x))
      BY <1>3, <2>6, <3>2, PartTells
    <3>4. Tells(q, q, quota, TRUE)
      BY <1>1, <2>6, AnswerTells
    <3> HIDE DEF rule, x
    <3> QED
      BY <3>1, <3>3, <3>4 DEF Tells
  <2> HIDE DEF rule, Bad
  <2>7. Tells(ruled, r, quota, \A i \in 1 .. Len(n[3]) : i \notin Bad)
    BY <1>1, <2>2, <2>6, EachTells
  <2>8. (\A i \in 1 .. Len(n[3]) : i \notin Bad) <=> \A i \in Decided(n, name) : Ok(t, n[3][i][2], x)
    BY <2>2, <2>3 DEF Bad
  <2> DEFINE s == MemberErrs(t, n, name, x, r, quota)
             more == RulesFor(n, name) = {} /\ n[4] # Nil
  <2> HIDE DEF ruled
  <2>9. Grows(ruled, r, quota) /\ ruled \in Reports /\ Counts(ruled, quota)
    BY <2>7 DEF Tells, Grows, Counts
  <2>10. more => <<t, n[4], x>> \in MemberWalks(t, n, v)
    BY <2>1 DEF MemberWalks
  <2>11. more /\ ruled.go => Tells(Errs(t, n[4], x, ruled, quota), ruled, quota, Ok(t, n[4], x))
    BY <1>3, <2>9, <2>10, PartTells
  <2> HIDE DEF x
  <2>12. CASE more
    <3>1. ruled.go => s = Errs(t, n[4], x, ruled, quota)
      BY <2>4, <2>12
    <3>2. ~ ruled.go => s = ruled
      BY <2>4
    <3>3. ruled.go => Grows(s, ruled, quota) /\ (s.yielded = ruled.yielded <=> Ok(t, n[4], x))
      BY <2>11, <2>12, <3>1 DEF Tells
    <3> HIDE DEF s
    <3>4. Grows(s, r, quota) /\ (s.yielded = r.yielded <=> ruled.yielded = r.yielded /\ s.yielded = ruled.yielded)
      BY <1>1, <2>9, <3>2, <3>3, Onward
    <3>5. ruled.yielded = r.yielded => ruled.go
      BY <2>9 DEF Grows, Counts
    <3>6. MemberOk(t, n, name, x) <=>
            (\A i \in Decided(n, name) : Ok(t, n[3][i][2], x)) /\ Ok(t, n[4], x)
      BY <2>5, <2>12
    <3>7. s.yielded = r.yielded <=> MemberOk(t, n, name, x)
      BY <2>7, <2>8, <3>3, <3>4, <3>5, <3>6 DEF Tells
    <3> QED
      BY <3>4, <3>7 DEF Tells, s, x
  <2>13. CASE ~ more
    <3>1. s = ruled
      BY <2>4, <2>13
    <3>2. MemberOk(t, n, name, x) <=> \A i \in Decided(n, name) : Ok(t, n[3][i][2], x)
      BY <2>5, <2>13
    <3> HIDE DEF s
    <3>3. Tells(s, r, quota, MemberOk(t, n, name, x))
      BY <2>7, <2>8, <3>1, <3>2 DEF Tells
    <3> QED
      BY <3>3 DEF s, x
  <2> QED
    BY <2>12, <2>13
<1> QED
  BY <1>4, <1>5

LEMMA ObjectTells ==
  ASSUME Setting, NEW t, NEW n, NEW v, NEW y, NEW quota, Asked(t, n, v, y, quota), n[1] = "objectStructure"
  PROVE  Tells(ErrsBy(t, n, v, y, quota), y, quota, OkBy(t, n, v))
<1> DEFINE names == NamesIn(v)
           member == [i \in DOMAIN names |->
                        [r \in Reports |-> MemberErrs(t, n, names[i], v[2][names[i]], r, quota)]]
           walked == Each(member, Len(names), y)
           present == PresenceOf([i \in DOMAIN n[2] |-> n[2][i].name], DOMAIN v[2])
           field == [i \in DOMAIN n[2] |->
                       [r \in Reports |-> IF n[2][i].required /\ i \notin present THEN Yield(r, quota) ELSE r]]
           fields == Each(field, Len(n[2]), walked)
           s == IF fields.go THEN CountErrs(n[5], Len(names), fields, quota) ELSE fields
           Bad == {i \in DOMAIN names : ~ MemberOk(t, n, names[i], v[2][names[i]])}
           Missing == {i \in DOMAIN n[2] : n[2][i].required /\ i \notin present}
<1>1. quota \in Nat /\ y \in Reports /\ Counts(y, quota) /\ y.go /\ <<t, n, v>> \in Walks
  BY DEF Asked
<1>2. Tells(y, y, quota, TRUE)
  BY <1>1, AnswerTells
<1>3. ErrsBy(t, n, v, y, quota) = IF KindOf(v) = "object" THEN s ELSE y
  BY DEF ErrsBy, ObjectErrs
<1>4. OkBy(t, n, v) <=> (KindOf(v) = "object" => ObjectOk(t, n, v))
  BY DEF OkBy
<1>5. ObjectOk(t, n, v) <=> /\ \A name \in DOMAIN v[2] : MemberOk(t, n, name, v[2][name])
                            /\ {i \in DOMAIN n[2] : n[2][i].required} \subseteq present
                            /\ BoundsOk(n[5], Cardinality(DOMAIN v[2]))
  BY DEF ObjectOk
<1> HIDE DEF present
<1>6. CASE KindOf(v) = "object"
  <2>1. IsList(names) /\ Set(names) = DOMAIN v[2] /\ Len(names) = Cardinality(DOMAIN v[2])
    BY <1>1, <1>6, NamesInHold
  <2>2. IsList(n[2])
    BY <1>1 DEF Setting, Nodes
  <2> HIDE DEF names
  <2>3. DOMAIN names = 1 .. Len(names) /\ Len(names) \in Nat /\ DOMAIN n[2] = 1 .. Len(n[2]) /\ Len(n[2]) \in Nat
    BY <2>1, <2>2, ListIndexes
  <2>4. ASSUME NEW i \in 1 .. Len(names), NEW r \in Reports, Counts(r, quota), r.go
        PROVE  Tells(member[i][r], r, quota, i \notin Bad)
    <3>1. member[i][r] = MemberErrs(t, n, names[i], v[2][names[i]], r, quota)
      BY <2>3
    <3>2. names[i] \in DOMAIN v[2]
      BY <2>1, <2>3 DEF Set
    <3>3. Tells(MemberErrs(t, n, names[i], v[2][names[i]], r, quota), r, quota,
                MemberOk(t, n, names[i], v[2][names[i]]))
      BY <1>6, <2>4, <3>2, MemberTells
    <3> HIDE DEF member
    <3> QED
      BY <2>3, <3>1, <3>3 DEF Tells
  <2> HIDE DEF member, Bad
  <2>5. Tells(walked, y, quota, \A i \in 1 .. Len(names) : i \notin Bad)
    BY <1>1, <2>3, <2>4, EachTells
  <2>6. (\A i \in 1 .. Len(names) : i \notin Bad) <=> \A name \in DOMAIN v[2] : MemberOk(t, n, name, v[2][name])
    BY <2>1, <2>3 DEF Bad, Set
  <2> HIDE DEF walked
  <2>7. Grows(walked, y, quota) /\ Counts(walked, quota)
        /\ (walked.yielded = y.yielded <=> \A name \in DOMAIN v[2] : MemberOk(t, n, name, v[2][name]))
    BY <2>5, <2>6 DEF Tells, Grows
  <2>8. ASSUME NEW i \in 1 .. Len(n[2]), NEW r \in Reports, Counts(r, quota), r.go
        PROVE  Tells(field[i][r], r, quota, i \notin Missing)
    <3>1. Tells(r, r, quota, TRUE) /\ Tells(Yield(r, quota), r, quota, FALSE)
      BY <1>1, <2>8, AnswerTells
    <3>2. field[i][r] = IF n[2][i].required /\ i \notin present THEN Yield(r, quota) ELSE r
      BY <2>3
    <3> HIDE DEF field
    <3> QED
      BY <2>3, <3>1, <3>2 DEF Tells
  <2> HIDE DEF field, Missing
  <2>9. /\ walked.go => Tells(fields, walked, quota, \A i \in 1 .. Len(n[2]) : i \notin Missing)
        /\ ~ walked.go => fields = walked
    BY <1>1, <2>3, <2>7, <2>8, EachTells
  <2>10. (\A i \in 1 .. Len(n[2]) : i \notin Missing) <=> {i \in DOMAIN n[2] : n[2][i].required} \subseteq present
    BY <2>3 DEF Missing
  <2> HIDE DEF fields
  <2>11. walked.go => Grows(fields, walked, quota)
                      /\ (fields.yielded = walked.yielded <=> {i \in DOMAIN n[2] : n[2][i].required} \subseteq present)
    BY <2>9, <2>10 DEF Tells
  <2>12. Grows(fields, y, quota)
         /\ (fields.yielded = y.yielded <=> walked.yielded = y.yielded /\ fields.yielded = walked.yielded)
    BY <1>1, <2>7, <2>9, <2>11, Onward
  <2>13. walked.yielded = y.yielded => walked.go
    BY <1>1, <2>7 DEF Grows, Counts
  <2>14. Tells(s, y, quota, fields.yielded = y.yielded /\ BoundsOk(n[5], Len(names)))
    BY <1>1, <2>12, CountTells
  <2> HIDE DEF s
  <2>15. Tells(s, y, quota, ObjectOk(t, n, v))
    BY <1>5, <2>1, <2>7, <2>11, <2>12, <2>13, <2>14 DEF Tells
  <2> QED
    BY <1>3, <1>4, <1>6, <2>15 DEF Tells
<1>7. CASE KindOf(v) # "object"
  BY <1>2, <1>3, <1>4, <1>7 DEF Tells
<1> QED
  BY <1>6, <1>7

LEMMA NodeTells ==
  ASSUME Setting, NEW t, NEW n, NEW v, NEW y, NEW quota, Asked(t, n, v, y, quota)
  PROVE  Tells(ErrsBy(t, n, v, y, quota), y, quota, OkBy(t, n, v))
BY AllTells, GuardTells, DispatchTells, RequiredTells, NamesTell, ObjectTells, ArrayTells, LeafTells

-----------------------------------------------------------------------------
(* Trees.                                                                  *)

(* The reporting walk of a node finds an error just where the fast one     *)
(* rejects, and none after the consumer has stopped: of the walks that     *)
(* return, one for which it did not and that is nested least deep would    *)
(* only make calls for which it does.                                      *)
THEOREM ErrsTellsWhatOkSays ==
  ASSUME Setting
  PROVE  \A c \in Walks : Reported(c)
<1> DEFINE Bad == {c \in Walks : ~ Reported(c)}
<1> SUFFICES ASSUME Bad # {} PROVE FALSE
  OBVIOUS
<1>1. {Depth(c) : c \in Bad} \in SUBSET Nat /\ {Depth(c) : c \in Bad} # {}
  BY DEF Setting, Returning
<1>2. PICK k \in {Depth(c) : c \in Bad} : \A l \in {Depth(c) : c \in Bad} : k <= l
  BY <1>1, HasLeast
<1>3. PICK c \in Bad : Depth(c) = k
  BY <1>2
<1>4. c \in Walks /\ c = <<c[1], c[2], c[3]>> /\ ~ Reported(c)
  BY <1>3 DEF Setting, Returning
<1>5. ASSUME NEW d \in Parts(c[1], c[2], c[3]) PROVE Reported(d)
  <2>1. d \in Walks /\ Depth(d) < Depth(c) /\ Depth(d) \in Nat /\ Depth(c) \in Nat
    BY <1>4 DEF Setting, Returning
  <2>2. d \notin Bad
    BY <1>2, <1>3, <2>1
  <2> QED
    BY <2>1, <2>2
<1>6. ASSUME NEW quota \in Nat, NEW y \in Reports, Counts(y, quota), y.go
      PROVE  Tells(Errs(c[1], c[2], c[3], y, quota), y, quota, Ok(c[1], c[2], c[3]))
  <2>1. Asked(c[1], c[2], c[3], y, quota)
    BY <1>4, <1>5, <1>6 DEF Asked
  <2>2. Tells(ErrsBy(c[1], c[2], c[3], y, quota), y, quota, OkBy(c[1], c[2], c[3]))
    BY <2>1, NodeTells
  <2>3. Errs(c[1], c[2], c[3], y, quota) = ErrsBy(c[1], c[2], c[3], y, quota)
        /\ (Ok(c[1], c[2], c[3]) <=> OkBy(c[1], c[2], c[3]))
    BY <1>4, <1>6 DEF Setting, Returning
  <2> QED
    BY <2>2, <2>3 DEF Tells
<1>7. Reported(c)
  BY <1>6 DEF Reported
<1> QED
  BY <1>4, <1>7

-----------------------------------------------------------------------------
(* Runs.                                                                   *)

(* The tree a run ends up with is one whose walks return.                  *)
Returns == phase = "ready" => \A v \in Instances : <<table, root, v>> \in Walks

RInv ==
  instance # Unasked =>
    /\ phase = "ready"
    /\ instance \in Instances
    /\ answer = IF Ok(table, root, instance) THEN "accepted" ELSE "rejected"

LEMMA RInvIsInductive ==
  /\ Init => RInv
  /\ RInv /\ [Next]_vars => RInv'
<1>1. Init => RInv
  BY DEF Init, RInv
<1>2. ASSUME RInv, [Next]_vars PROVE RInv'
  <2>1. CASE CompileDefinition
    BY <1>2, <2>1 DEF RInv, CompileDefinition
  <2>2. CASE CompileRoot
    BY <1>2, <2>2 DEF RInv, CompileRoot
  <2>3. CASE IsValid
    BY <2>3 DEF RInv, IsValid
  <2>4. CASE UNCHANGED vars
    BY <1>2, <2>4 DEF RInv, vars
  <2> QED
    BY <1>2, <2>1, <2>2, <2>3, <2>4 DEF Next
<1> QED
  BY <1>1, <1>2

LEMMA FreshCounts ==
  ASSUME NEW quota \in Nat \ {0}
  PROVE  Counts(Fresh, quota) /\ Fresh \in Reports /\ Fresh.go /\ Fresh.yielded = 0
BY DEF Fresh, Counts, Reports

LEMMA RunTells ==
  ASSUME Setting, Returns, RInv, instance # Unasked, NEW quota \in Nat \ {0}
  PROVE  Tells(IterErrors(instance, quota), Fresh, quota, answer = "accepted")
<1>1. <<table, root, instance>> \in Walks
  BY DEF Returns, RInv
<1>2. Reported(<<table, root, instance>>)
  BY <1>1, ErrsTellsWhatOkSays
<1>3. Tells(Errs(table, root, instance, Fresh, quota), Fresh, quota, Ok(table, root, instance))
  BY <1>2, FreshCounts DEF Reported
<1>4. Ok(table, root, instance) <=> answer = "accepted"
  BY DEF RInv
<1> QED
  BY <1>3, <1>4 DEF Tells, IterErrors

(* IsValid and Validate agree.                                             *)
THEOREM ValidateReportsIffRejected ==
  ASSUME Setting
  PROVE  Spec /\ []Returns => []ReportsIffRejected
<1>1. Init => RInv
  BY RInvIsInductive
<1>2. RInv /\ [Next]_vars => RInv'
  BY RInvIsInductive
<1>3. RInv /\ Returns => ReportsIffRejected
  <2> SUFFICES ASSUME RInv, Returns, instance # Unasked
               PROVE  Validate(instance).yielded > 0 <=> answer = "rejected"
    BY DEF ReportsIffRejected
  <2>1. Tells(IterErrors(instance, 1), Fresh, 1, answer = "accepted")
    BY RunTells
  <2>2. IterErrors(instance, 1).yielded \in Nat
    BY <2>1, ReportOf DEF Tells, Grows, Counts
  <2>3. answer \in {"accepted", "rejected"}
    BY DEF RInv
  <2>4. Fresh.yielded = 0
    BY DEF Fresh
  <2> QED
    BY <2>1, <2>2, <2>3, <2>4 DEF Tells, Validate
<1> QED
  BY <1>1, <1>2, <1>3, PTL DEF Spec

(* Nothing is yielded to a consumer that has stopped.                      *)
THEOREM NothingAfterStop ==
  ASSUME Setting
  PROVE  Spec /\ []Returns => []StopsWithConsumer
<1>1. Init => RInv
  BY RInvIsInductive
<1>2. RInv /\ [Next]_vars => RInv'
  BY RInvIsInductive
<1>3. RInv /\ Returns => StopsWithConsumer
  <2> SUFFICES ASSUME RInv, Returns, instance # Unasked, NEW quota \in 1 .. 3
               PROVE  ~ IterErrors(instance, quota).late /\ IterErrors(instance, quota).yielded <= quota
    BY DEF StopsWithConsumer
  <2>1. Tells(IterErrors(instance, quota), Fresh, quota, answer = "accepted")
    BY RunTells
  <2> QED
    BY <2>1 DEF Tells, Grows, Counts
<1> QED
  BY <1>1, <1>2, <1>3, PTL DEF Spec

-----------------------------------------------------------------------------
(* What is compiled.                                                       *)

ExprForms == {"nil", "format", "pattern", "minimum", "multipleOf", "domain", "minItems", "maxItems",
              "uniqueItems", "contains", "minProperties", "maxProperties", "required", "dependent",
              "propertyNames", "object", "array", "reference", "not", "shape"}

OptPlan(x) == x = <<>> \/ \E q \in Plans : x = <<q>>

FieldsFormed(fields) ==
  /\ IsList(fields)
  /\ IsInjective([i \in DOMAIN fields |-> fields[i].name])
  /\ \A i \in DOMAIN fields : fields[i].plan \in Plans /\ fields[i].required \in BOOLEAN /\ fields[i].nullable \in BOOLEAN

(* Pairs of a pattern, or of a literal, and a plan.                        *)
PairsFormed(pairs) == IsList(pairs) /\ \A i \in DOMAIN pairs : pairs[i][2] \in Plans

ExprFormed(e) ==
  /\ e[1] \in ExprForms
  /\ e[1] \in {"not", "shape", "propertyNames", "contains"} => e[2] \in Plans
  /\ e[1] = "contains" => e[3] \in Int /\ (e[4] = <<>> \/ e[4][1] \in Int)
  /\ e[1] = "required" => IsList(e[2])
  /\ e[1] = "dependent" => IsList(e[3])
  /\ e[1] = "object" => FieldsFormed(e[2]) /\ PairsFormed(e[3]) /\ OptPlan(e[4])
  /\ e[1] = "array" => IsList(e[2]) /\ Set(e[2]) \subseteq Plans /\ OptPlan(e[3])

(* A bound on how many there are is asked of what has some.                *)
GuardFormed(g) ==
  /\ g.assert \in BOOLEAN
  /\ g.expr[1] \in {"minProperties", "maxProperties"} => "object" \in g.on
  /\ g.expr[1] \in {"minItems", "maxItems"} => "array" \in g.on

DispatchFormed(d) ==
  /\ d[1] \in {"none", "kind", "literal", "property", "presence", "count"}
  /\ d[1] = "kind" => \A k \in DOMAIN d[2] : d[2][k] \in Plans
  /\ d[1] = "literal" => PairsFormed(d[2])
  /\ d[1] = "property" => PairsFormed(d[3])
  /\ d[1] = "presence" => d[3] \in Plans /\ d[4] \in Plans
  /\ d[1] = "count" => IsList(d[2]) /\ Set(d[2]) \subseteq Plans

PlansFormed ==
  \A p \in Plans :
    /\ IsList(p.checks)
    /\ \A i \in DOMAIN p.checks : GuardFormed(p.checks[i]) /\ ExprFormed(p.checks[i].expr)
    /\ DispatchFormed(p.dispatch)

(* t is what the definitions D are compiled to.                            *)
Compiles(t, D) ==
  /\ D \in [DOMAIN t -> Plans]
  /\ \A d \in DOMAIN t : t[d] = CompilePlan(D[d]) /\ t[d] # Unsupported

Env(D) == [defs |-> D, order |-> Names]

(* CompilePlan is what it is given, and Interpret is wherever the walk of  *)
(* what a plan is compiled to returns: it follows no other references.     *)
PlanKnots ==
  /\ \A p \in Plans : CompilePlan(p) = CompilePlanBy(p)
  /\ \A c \in Walks, p \in Plans : \A D \in [DOMAIN c[1] -> Plans], active \in SUBSET DOMAIN c[1] :
       c[2] = CompilePlan(p) /\ Compiles(c[1], D) =>
         Interpret(p, c[3], active, Env(D)) = InterpretBy(p, c[3], active, Env(D))

(* What the operand of a complement accepts, it accepts for sure: of what  *)
(* is accepted unchecked, the validator rejects the complement. The planner*)
(* is to emit one only of a plan that reproduces its schema exactly        *)
(* (docs/integration.md:295).                                              *)
SureOf(q) ==
  \A c \in Walks : \A D \in [DOMAIN c[1] -> Plans] :
    c[2] = CompilePlan(q) /\ Compiles(c[1], D) =>
      LET r == Interpret(q, c[3], {}, Env(D))
      IN  ~ (r.verdict = "accepted" /\ r.approximated)

Complements ==
  \A p \in Plans : \A i \in DOMAIN p.checks : p.checks[i].expr[1] = "not" => SureOf(p.checks[i].expr[2])

(* What is asked about has no name that Go quotes in escapes JSON lacks.   *)
Legible ==
  \A c \in Walks : /\ c[3] # Unreadable
                   /\ KindOf(c[3]) = "object" => DOMAIN c[3][2] \cap Garbled = {}

PlanSetting ==
  /\ Setting /\ PlansFormed /\ PlanKnots /\ Complements /\ Legible
  /\ \A c \in Walks : KindOf(c[3]) \in AllKinds

-----------------------------------------------------------------------------
(* Verdicts.                                                               *)

Verdicts == [verdict : {"accepted", "rejected", "failed"}, approximated : BOOLEAN]

(* A verdict the fast walk agrees with.  An error decides nothing.         *)
Agrees(r, ok) ==
  /\ r \in Verdicts
  /\ r.verdict = "accepted" => ok
  /\ r.verdict = "rejected" => ~ ok

LEMMA VerdictOf ==
  ASSUME NEW r \in Verdicts
  PROVE  r.verdict \in {"accepted", "rejected", "failed"} /\ r.approximated \in BOOLEAN
BY DEF Verdicts

LEMMA VerdictsAre ==
  ASSUME NEW k \in {"accepted", "rejected", "failed"}, NEW b \in BOOLEAN
  PROVE  Verdict(k, b) \in Verdicts /\ Verdict(k, b).verdict = k /\ Verdict(k, b).approximated = b
BY DEF Verdict, Verdicts

LEMMA PlainVerdicts ==
  /\ Accepted \in Verdicts /\ Accepted.verdict = "accepted"
  /\ Rejected \in Verdicts /\ Rejected.verdict = "rejected"
  /\ Failed \in Verdicts /\ Failed.verdict = "failed"
BY VerdictsAre DEF Accepted, Rejected, Failed

LEMMA AfterIs ==
  ASSUME NEW r \in Verdicts, NEW s \in Verdicts
  PROVE  After(r, s) \in Verdicts /\ After(r, s).verdict = s.verdict
<1>1. r.approximated \in BOOLEAN /\ s.approximated \in BOOLEAN
  BY VerdictOf
<1> DEFINE b == r.approximated \/ s.approximated
<1>2. b \in BOOLEAN
  OBVIOUS
<1>3. After(r, s) = [s EXCEPT !.approximated = b]
  BY DEF After
<1> HIDE DEF b
<1> QED
  BY <1>2, <1>3 DEF Verdicts

(* Steps in turn: the first that does not accept decides.                  *)
LEMMA InTurnAgrees ==
  ASSUME NEW n \in Nat, NEW step, NEW Bad, \A i \in 1 .. n : Agrees(step[i], i \notin Bad)
  PROVE  Agrees(InTurn(step, n), \A i \in 1 .. n : i \notin Bad)
<1> DEFINE g == [x \in Verdicts \X (1 .. n) |->
                   IF x[1].verdict = "accepted" THEN After(x[1], step[x[2]]) ELSE x[1]]
           Rec(h) == h = [i \in 0 .. n |-> IF i = 0 THEN Accepted
                                           ELSE IF h[i - 1].verdict = "accepted" THEN After(h[i - 1], step[i])
                                           ELSE h[i - 1]]
<1>1. ASSUME NEW r \in Verdicts, NEW i \in 1 .. n
      PROVE  g[<<r, i>>] = (IF r.verdict = "accepted" THEN After(r, step[i]) ELSE r) /\ g[<<r, i>>] \in Verdicts
  <2>1. <<r, i>> \in Verdicts \X (1 .. n) /\ <<r, i>>[1] = r /\ <<r, i>>[2] = i
    OBVIOUS
  <2>2. g[<<r, i>>] = IF r.verdict = "accepted" THEN After(r, step[i]) ELSE r
    BY <2>1
  <2>3. step[i] \in Verdicts
    BY DEF Agrees
  <2>4. After(r, step[i]) \in Verdicts
    BY <2>3, AfterIs
  <2> QED
    BY <2>2, <2>4
<1>2. g \in [Verdicts \X (1 .. n) -> Verdicts]
  <2>1. \A x \in Verdicts \X (1 .. n) : x[1] \in Verdicts /\ x[2] \in 1 .. n /\ x = <<x[1], x[2]>>
    OBVIOUS
  <2>2. \A x \in Verdicts \X (1 .. n) : g[x] \in Verdicts
    BY <1>1, <2>1
  <2>3. g = [x \in Verdicts \X (1 .. n) |-> g[x]]
    OBVIOUS
  <2> HIDE DEF g
  <2> QED
    BY <2>2, <2>3
<1>3. Accepted \in Verdicts /\ Accepted.verdict = "accepted"
  BY PlainVerdicts
<1> HIDE DEF g
<1>4. PICK f : Repeats(f, Verdicts, Accepted, n, g)
  BY <1>2, <1>3, StepsExist
<1>5. ASSUME NEW i \in 0 .. n
      PROVE  f[i] = IF i = 0 THEN Accepted
                    ELSE IF f[i - 1].verdict = "accepted" THEN After(f[i - 1], step[i]) ELSE f[i - 1]
  <2>1. i # 0 => i \in 1 .. n /\ i - 1 \in 0 .. n
    OBVIOUS
  <2>2. i # 0 => f[i - 1] \in Verdicts
    BY <1>4, <2>1 DEF Repeats
  <2> QED
    BY <1>1, <1>4, <2>1, <2>2 DEF Repeats
<1>6. f = [i \in 0 .. n |-> f[i]]
  BY <1>4 DEF Repeats
<1>7. Rec(f)
  BY <1>5, <1>6
<1> DEFINE upto == CHOOSE h : Rec(h)
<1>8. Rec(upto)
  BY <1>7
<1>9. InTurn(step, n) = upto[n]
  BY DEF InTurn
<1> HIDE DEF upto
<1>10. /\ upto[0] = Accepted
       /\ \A k \in 1 .. n : upto[k] = IF upto[k - 1].verdict = "accepted" THEN After(upto[k - 1], step[k])
                                      ELSE upto[k - 1]
  <2>1. 0 \in 0 .. n /\ \A k \in 1 .. n : k \in 0 .. n /\ k # 0
    OBVIOUS
  <2> QED
    BY <1>8, <2>1
<1> DEFINE Good(k) == \A i \in 1 .. k : i \notin Bad
           T == [k \in 0 .. n |-> {r \in Verdicts : Agrees(r, Good(k))}]
<1>11. \A k \in 0 .. n : T[k] = {r \in Verdicts : Agrees(r, Good(k))}
  OBVIOUS
<1> HIDE DEF T
<1>12. upto[0] \in T[0]
  <2>1. Good(0)
    OBVIOUS
  <2> HIDE DEF Good
  <2>2. Agrees(Accepted, Good(0))
    BY <1>3, <2>1 DEF Agrees
  <2> QED
    BY <1>3, <1>10, <1>11, <2>2
<1>13. ASSUME NEW k \in 1 .. n, upto[k - 1] \in T[k - 1]
       PROVE  upto[k] \in T[k]
  <2> DEFINE r == upto[k - 1]
             s == upto[k]
  <2>1. k - 1 \in 0 .. n /\ k \in 0 .. n
    OBVIOUS
  <2>2. r \in Verdicts /\ Agrees(r, Good(k - 1))
    BY <1>11, <1>13, <2>1
  <2>3. s = IF r.verdict = "accepted" THEN After(r, step[k]) ELSE r
    BY <1>10
  <2> HIDE DEF r, s
  <2>4. Good(k) <=> Good(k - 1) /\ k \notin Bad
    <3>1. \A i \in 1 .. k : i = k \/ i \in 1 .. k - 1
      OBVIOUS
    <3>2. k \in 1 .. k /\ \A i \in 1 .. k - 1 : i \in 1 .. k
      OBVIOUS
    <3> QED
      BY <3>1, <3>2
  <2> HIDE DEF Good
  <2>5. Agrees(step[k], k \notin Bad)
    OBVIOUS
  <2>6. s \in Verdicts /\ Agrees(s, Good(k))
    <3>1. CASE r.verdict = "accepted"
      <4>1. s \in Verdicts /\ s.verdict = step[k].verdict
        BY <2>2, <2>3, <2>5, <3>1, AfterIs DEF Agrees
      <4> QED
        BY <2>2, <2>4, <2>5, <3>1, <4>1 DEF Agrees
    <3>2. CASE r.verdict # "accepted"
      BY <2>2, <2>3, <2>4, <3>2 DEF Agrees
    <3> QED
      BY <3>1, <3>2
  <2> QED
    BY <1>11, <2>1, <2>6 DEF s
<1>14. \A k \in 0 .. n : upto[k] \in T[k]
  BY <1>12, <1>13, StaysWithin
<1>15. n \in 0 .. n
  OBVIOUS
<1> HIDE DEF Good
<1>16. Agrees(upto[n], Good(n))
  BY <1>11, <1>14, <1>15
<1> QED
  BY <1>9, <1>16 DEF Good, Agrees

(* All of them are asked, unless one cannot answer.                        *)
Tallies == [verdict : {"accepted", "failed"}, approximated : BOOLEAN, count : Nat]

LEMMA CountingIs ==
  ASSUME NEW r \in Tallies, NEW s \in Verdicts
  PROVE  /\ Counting(r, s) \in Tallies
         /\ Counting(r, s).verdict = IF s.verdict = "failed" THEN "failed" ELSE "accepted"
         /\ Counting(r, s).count = r.count + IF s.verdict = "accepted" THEN 1 ELSE 0
<1> DEFINE b == r.approximated \/ s.approximated
           k == IF s.verdict = "failed" THEN "failed" ELSE "accepted"
           m == r.count + IF s.verdict = "accepted" THEN 1 ELSE 0
<1>1. b \in BOOLEAN /\ k \in {"accepted", "failed"}
  OBVIOUS
<1>2. m \in Nat
  BY DEF Tallies
<1>3. Counting(r, s) = [verdict |-> k, approximated |-> b, count |-> m]
  BY DEF Counting
<1> HIDE DEF b, k, m
<1>4. Counting(r, s) \in Tallies /\ Counting(r, s).verdict = k /\ Counting(r, s).count = m
  BY <1>1, <1>2, <1>3 DEF Tallies
<1> QED
  BY <1>4 DEF k, m

LEMMA CountAccepts ==
  ASSUME NEW n \in Nat, NEW step, NEW Good, \A i \in 1 .. n : Agrees(step[i], i \in Good)
  PROVE  LET r == CountAccepted(step, n)
         IN  /\ r \in Tallies
             /\ r.verdict = "accepted" => r.count = Cardinality({i \in 1 .. n : i \in Good})
<1> DEFINE zero == [verdict |-> "accepted", approximated |-> FALSE, count |-> 0]
           g == [x \in Tallies \X (1 .. n) |->
                   IF x[1].verdict = "failed" THEN x[1] ELSE Counting(x[1], step[x[2]])]
           Rec(h) == h = [i \in 0 .. n |-> IF i = 0 THEN zero
                                           ELSE IF h[i - 1].verdict = "failed" THEN h[i - 1]
                                           ELSE Counting(h[i - 1], step[i])]
<1>1. ASSUME NEW r \in Tallies, NEW i \in 1 .. n
      PROVE  g[<<r, i>>] = (IF r.verdict = "failed" THEN r ELSE Counting(r, step[i])) /\ g[<<r, i>>] \in Tallies
  <2>1. <<r, i>> \in Tallies \X (1 .. n) /\ <<r, i>>[1] = r /\ <<r, i>>[2] = i
    OBVIOUS
  <2>2. g[<<r, i>>] = IF r.verdict = "failed" THEN r ELSE Counting(r, step[i])
    BY <2>1
  <2>3. step[i] \in Verdicts
    BY DEF Agrees
  <2>4. Counting(r, step[i]) \in Tallies
    BY <2>3, CountingIs
  <2> QED
    BY <2>2, <2>4
<1>2. g \in [Tallies \X (1 .. n) -> Tallies]
  <2>1. \A x \in Tallies \X (1 .. n) : x[1] \in Tallies /\ x[2] \in 1 .. n /\ x = <<x[1], x[2]>>
    OBVIOUS
  <2>2. \A x \in Tallies \X (1 .. n) : g[x] \in Tallies
    BY <1>1, <2>1
  <2>3. g = [x \in Tallies \X (1 .. n) |-> g[x]]
    OBVIOUS
  <2> HIDE DEF g
  <2> QED
    BY <2>2, <2>3
<1>3. zero \in Tallies /\ zero.verdict = "accepted" /\ zero.count = 0
  BY DEF Tallies
<1> HIDE DEF g, zero
<1>4. PICK f : Repeats(f, Tallies, zero, n, g)
  BY <1>2, <1>3, StepsExist
<1>5. ASSUME NEW i \in 0 .. n
      PROVE  f[i] = IF i = 0 THEN zero
                    ELSE IF f[i - 1].verdict = "failed" THEN f[i - 1] ELSE Counting(f[i - 1], step[i])
  <2>1. i # 0 => i \in 1 .. n /\ i - 1 \in 0 .. n
    OBVIOUS
  <2>2. i # 0 => f[i - 1] \in Tallies
    BY <1>4, <2>1 DEF Repeats
  <2> QED
    BY <1>1, <1>4, <2>1, <2>2 DEF Repeats
<1>6. f = [i \in 0 .. n |-> f[i]]
  BY <1>4 DEF Repeats
<1>7. Rec(f)
  BY <1>5, <1>6
<1> DEFINE upto == CHOOSE h : Rec(h)
<1>8. Rec(upto)
  BY <1>7
<1>9. CountAccepted(step, n) = upto[n]
  BY DEF CountAccepted, zero
<1> HIDE DEF upto
<1>10. /\ upto[0] = zero
       /\ \A k \in 1 .. n : upto[k] = IF upto[k - 1].verdict = "failed" THEN upto[k - 1]
                                      ELSE Counting(upto[k - 1], step[k])
  <2>1. 0 \in 0 .. n /\ \A k \in 1 .. n : k \in 0 .. n /\ k # 0
    OBVIOUS
  <2> QED
    BY <1>8, <2>1
<1> DEFINE Hits(k) == {i \in 1 .. k : i \in Good}
           Right(r, k) == r.verdict = "accepted" => r.count = Cardinality(Hits(k))
           T == [k \in 0 .. n |-> {r \in Tallies : Right(r, k)}]
<1>11. \A k \in 0 .. n : T[k] = {r \in Tallies : Right(r, k)}
  OBVIOUS
<1> HIDE DEF T
<1>12. upto[0] \in T[0]
  <2>1. Hits(0) = {}
    OBVIOUS
  <2>2. Cardinality(Hits(0)) = 0
    BY <2>1, FS_EmptySet
  <2> HIDE DEF Hits
  <2>3. Right(zero, 0)
    BY <1>3, <2>2
  <2> HIDE DEF Right
  <2> QED
    BY <1>3, <1>10, <1>11, <2>3
<1>13. ASSUME NEW k \in 1 .. n, upto[k - 1] \in T[k - 1]
       PROVE  upto[k] \in T[k]
  <2> DEFINE r == upto[k - 1]
             s == upto[k]
  <2>1. k - 1 \in 0 .. n /\ k \in 0 .. n
    OBVIOUS
  <2>2. r \in Tallies /\ Right(r, k - 1)
    BY <1>11, <1>13, <2>1
  <2>3. s = IF r.verdict = "failed" THEN r ELSE Counting(r, step[k])
    BY <1>10
  <2> HIDE DEF r, s
  <2>4. Agrees(step[k], k \in Good)
    OBVIOUS
  <2>5. /\ k \in Good => Cardinality(Hits(k)) = Cardinality(Hits(k - 1)) + 1
        /\ k \notin Good => Cardinality(Hits(k)) = Cardinality(Hits(k - 1))
    <3>1. \A i \in 1 .. k : i = k \/ i \in 1 .. k - 1
      OBVIOUS
    <3>2. k \in 1 .. k /\ k \notin 1 .. k - 1 /\ \A i \in 1 .. k - 1 : i \in 1 .. k
      OBVIOUS
    <3>3. k \in Good => Hits(k) = Hits(k - 1) \cup {k}
      BY <3>1, <3>2
    <3>4. k \notin Good => Hits(k) = Hits(k - 1)
      BY <3>1, <3>2
    <3>5. IsFiniteSet(Hits(k - 1)) /\ k \notin Hits(k - 1)
      <4>1. IsFiniteSet(1 .. k - 1)
        BY <2>1, UptoHasSize
      <4> QED
        BY <3>2, <4>1, FS_Subset
    <3> HIDE DEF Hits
    <3> QED
      BY <3>3, <3>4, <3>5, FS_AddElement
  <2> HIDE DEF Hits
  <2>6. s \in Tallies /\ Right(s, k)
    <3>1. CASE r.verdict = "failed"
      BY <2>2, <2>3, <3>1
    <3>2. CASE r.verdict # "failed"
      <4>1. r.verdict = "accepted" /\ r.count \in Nat
        BY <2>2, <3>2 DEF Tallies
      <4>2. step[k] \in Verdicts
        BY <2>4 DEF Agrees
      <4>3. /\ s \in Tallies /\ s.count = r.count + (IF step[k].verdict = "accepted" THEN 1 ELSE 0)
            /\ s.verdict = IF step[k].verdict = "failed" THEN "failed" ELSE "accepted"
        BY <2>2, <2>3, <3>2, <4>2, CountingIs
      <4>4. step[k].verdict # "failed" => (step[k].verdict = "accepted" <=> k \in Good)
        BY <2>4, <4>2, VerdictOf DEF Agrees
      <4> QED
        BY <2>2, <2>5, <4>1, <4>3, <4>4
    <3> QED
      BY <3>1, <3>2
  <2> HIDE DEF Right
  <2> QED
    BY <1>11, <2>1, <2>6 DEF s
<1>14. \A k \in 0 .. n : upto[k] \in T[k]
  <2> HIDE DEF Right
  <2> QED
    BY <1>12, <1>13, StaysWithin
<1>15. n \in 0 .. n
  OBVIOUS
<1>16. upto[n] \in Tallies /\ Right(upto[n], n)
  BY <1>11, <1>14, <1>15
<1> QED
  BY <1>9, <1>16

LEMMA WithinAgrees ==
  ASSUME NEW n \in Nat, NEW step, NEW Good, \A i \in 1 .. n : Agrees(step[i], i \in Good),
         NEW lo, NEW hi
  PROVE  Agrees(Within(CountAccepted(step, n), lo, hi), Cardinality({i \in 1 .. n : i \in Good}) \in lo .. hi)
<1> DEFINE r == CountAccepted(step, n)
           b == r.approximated
<1>1. r \in Tallies /\ (r.verdict = "accepted" => r.count = Cardinality({i \in 1 .. n : i \in Good}))
  BY CountAccepts
<1>2. r.verdict \in {"accepted", "failed"} /\ b \in BOOLEAN
  BY <1>1 DEF Tallies
<1>3. CASE r.verdict = "failed"
  BY <1>3, PlainVerdicts DEF Within, Agrees
<1>4. CASE r.verdict # "failed"
  <2>1. Within(r, lo, hi) = IF r.count \in lo .. hi THEN Verdict("accepted", b) ELSE Verdict("rejected", b)
    BY <1>4 DEF Within
  <2> HIDE DEF r, b
  <2>2. /\ Verdict("accepted", b) \in Verdicts /\ Verdict("accepted", b).verdict = "accepted"
        /\ Verdict("rejected", b) \in Verdicts /\ Verdict("rejected", b).verdict = "rejected"
    BY <1>2, VerdictsAre
  <2>3. Agrees(Within(r, lo, hi), r.count \in lo .. hi)
    BY <2>1, <2>2 DEF Agrees
  <2> QED
    BY <1>1, <1>2, <1>4, <2>3 DEF r
<1> QED
  BY <1>3, <1>4

-----------------------------------------------------------------------------
(* Compiled plans.                                                         *)

LEMMA SeqIsList ==
  ASSUME NEW X, NEW s \in Seq(X)
  PROVE  IsList(s)
<1>1. Len(s) \in Nat /\ DOMAIN s = 1 .. Len(s) /\ s = [i \in 1 .. Len(s) |-> s[i]]
  OBVIOUS
<1>2. \A i \in 1 .. Len(s) : s[i] \in Set(s)
  BY <1>1 DEF Set
<1> QED
  BY <1>1, <1>2 DEF IsList

LEMMA MappedIsSeq ==
  ASSUME NEW n \in Nat, NEW f, f = [i \in 1 .. n |-> f[i]]
  PROVE  f \in Seq({f[i] : i \in 1 .. n}) /\ Len(f) = n
<1> DEFINE X == {f[i] : i \in 1 .. n}
<1>1. f \in [1 .. n -> X]
  OBVIOUS
<1> HIDE DEF X
<1> QED
  BY <1>1 DEF X

(* What the checks of a plan, and all of it, are compiled to.              *)
GuardNodes(p) ==
  [i \in DOMAIN p.checks |->
     IF i \in Fusion(p.checks).skip THEN Nil ELSE CompileGuarded(p.checks[i], Fusion(p.checks))]

Kept(p) ==
  LET nodes == Append(GuardNodes(p), CompileDispatch(p.dispatch))
  IN  Listed(nodes, Set(nodes) \ {Nil})

LEMMA CompiledIs ==
  ASSUME PlanSetting, NEW p \in Plans
  PROVE  /\ IsList(Kept(p))
         /\ Set(Kept(p)) = ({GuardNodes(p)[i] : i \in DOMAIN p.checks} \cup {CompileDispatch(p.dispatch)}) \ {Nil}
         /\ CompilePlan(p) = CASE Unsupported \in Set(Kept(p)) -> Unsupported
                               [] Kept(p) = <<>> -> <<"always">>
                               [] Len(Kept(p)) = 1 -> Kept(p)[1]
                               [] OTHER -> <<"all", Kept(p)>>
<1> DEFINE last == CompileDispatch(p.dispatch)
           guards == GuardNodes(p)
           n == Len(p.checks)
           X == {guards[i] : i \in 1 .. n} \cup {last}
           nodes == Append(guards, last)
<1>1. n \in Nat /\ DOMAIN p.checks = 1 .. n
  BY ListIndexes DEF PlanSetting, PlansFormed
<1>2. guards = [i \in 1 .. n |-> guards[i]]
  BY <1>1 DEF GuardNodes
<1>3. CompilePlan(p) = CompilePlanBy(p)
  BY DEF PlanSetting, PlanKnots
<1>4. CompilePlanBy(p) = CASE Unsupported \in Set(Kept(p)) -> Unsupported
                           [] Kept(p) = <<>> -> <<"always">>
                           [] Len(Kept(p)) = 1 -> Kept(p)[1]
                           [] OTHER -> <<"all", Kept(p)>>
  BY DEF CompilePlanBy, Kept, GuardNodes
<1>5. Kept(p) = Listed(nodes, Set(nodes) \ {Nil})
  BY DEF Kept
<1> HIDE DEF guards, last, n
<1>6. guards \in Seq({guards[i] : i \in 1 .. n}) /\ Len(guards) = n
  BY <1>1, <1>2, MappedIsSeq
<1>7. guards \in Seq(X) /\ last \in X
  <2>1. \A i \in 1 .. n : guards[i] \in X
    OBVIOUS
  <2> HIDE DEF X
  <2>2. guards \in [1 .. n -> X]
    BY <1>2, <2>1
  <2> QED
    BY <1>1, <2>2 DEF X
<1> HIDE DEF X
<1>8. nodes \in Seq(X) /\ Set(nodes) = Set(guards) \cup {last}
  BY <1>7, AppendHolds
<1>9. IsList(nodes)
  BY <1>8, SeqIsList
<1>10. Set(guards) = {guards[i] : i \in DOMAIN p.checks}
  BY <1>1, <1>2 DEF Set
<1> HIDE DEF nodes
<1>11. Kept(p) \in Seq(Set(nodes)) /\ Set(Kept(p)) = Set(nodes) \cap (Set(nodes) \ {Nil})
  BY <1>5, <1>9, ListedHolds
<1>12. IsList(Kept(p))
  BY <1>11, SeqIsList
<1>13. Set(Kept(p)) = ({guards[i] : i \in DOMAIN p.checks} \cup {last}) \ {Nil}
  BY <1>8, <1>10, <1>11
<1> QED
  BY <1>3, <1>4, <1>12, <1>13 DEF guards, last

LEMMA CompiledIsNode ==
  ASSUME PlanSetting, NEW p \in Plans
  PROVE  CompilePlan(p) # Nil
<1>1. IsList(Kept(p)) /\ Nil \notin Set(Kept(p))
  BY CompiledIs
<1>2. Len(Kept(p)) = 1 => Kept(p)[1] \in Set(Kept(p))
  BY <1>1, ListIndexes DEF Set
<1>3. Unsupported # Nil /\ <<"always">> # Nil /\ <<"all", Kept(p)>> # Nil
  BY DEF Unsupported, Nil
<1>4. \/ CompilePlan(p) \in {Unsupported, <<"always">>, <<"all", Kept(p)>>}
      \/ Len(Kept(p)) = 1 /\ CompilePlan(p) = Kept(p)[1]
  BY CompiledIs
<1> QED
  BY <1>1, <1>2, <1>3, <1>4

-----------------------------------------------------------------------------
(* Expressions, one by one.                                                *)

(* A call of Ok that agrees with what is said of the plan.                 *)
Agreed(D, c) ==
  \A p \in Plans, active \in SUBSET DOMAIN c[1] :
    c[2] = CompilePlan(p) /\ c[2] # Unsupported =>
      Agrees(Interpret(p, c[3], active, Env(D)), Ok(c[1], c[2], c[3]))

Unfused == [skip |-> {}, object |-> NoBounds, array |-> NoBounds]

(* What the node of an expression says if nothing is folded into it.       *)
Alone(e) == CompileExpr(e, Unfused)

Said(t, e, v) == Alone(e) = Nil \/ OkBy(t, Alone(e), v)

Ready(t, D, v, e) ==
  /\ Compiles(t, D)
  /\ \E c \in Walks : c[3] = v
  /\ ExprFormed(e)
  /\ e[1] = "not" => SureOf(e[2])
  /\ Alone(e) # Unsupported
  /\ Alone(e) # Nil => \A c \in Parts(t, Alone(e), v) : c \in Walks /\ Agreed(D, c)

LEMMA CallAgrees ==
  ASSUME NEW t, NEW D, NEW v, NEW e, Ready(t, D, v, e), Alone(e) # Nil,
         NEW q \in Plans, CompilePlan(q) # Unsupported, NEW w,
         <<t, CompilePlan(q), w>> \in Parts(t, Alone(e), v), NEW active \in SUBSET DOMAIN t
  PROVE  Agrees(Interpret(q, w, active, Env(D)), Ok(t, CompilePlan(q), w))
<1> DEFINE c == <<t, CompilePlan(q), w>>
<1>1. c[1] = t /\ c[2] = CompilePlan(q) /\ c[3] = w
  OBVIOUS
<1>2. Agreed(D, c)
  BY DEF Ready
<1> HIDE DEF c
<1> QED
  BY <1>1, <1>2 DEF Agreed

(* A test that is made the same way on both sides.                         *)
LEMMA LeafAgrees ==
  ASSUME PlanSetting, NEW t, NEW D, NEW v, NEW e, NEW active, Ready(t, D, v, e),
         e[1] \in {"nil", "format", "pattern", "minimum", "multipleOf", "domain", "minItems", "maxItems",
                   "minProperties", "maxProperties", "uniqueItems"}
  PROVE  Agrees(Predicate(e, v, active, Env(D)), Said(t, e, v))
<1>1. CASE e[1] \in {"nil", "format"}
  <2>1. Alone(e) = Nil
    BY <1>1 DEF Alone, CompileExpr
  <2>2. Predicate(e, v, active, Env(D)) = IF e[1] = "nil" THEN Accepted ELSE Verdict("accepted", TRUE)
    BY <1>1 DEF Predicate
  <2> QED
    BY <2>1, <2>2, PlainVerdicts, VerdictsAre DEF Said, Agrees
<1>2. CASE e[1] = "pattern"
  <2>1. Alone(e) = e
    BY <1>2 DEF Alone, CompileExpr
  <2>2. e # Nil /\ (OkBy(t, e, v) <=> (KindOf(v) = "string" => MatchString(e[2], v[2]) # "NoMatch"))
    <3>1. v # Unreadable
      BY DEF Ready, PlanSetting, Legible
    <3>2. OkBy(t, e, v) <=> ScalarOk(e, v)
      BY <1>2 DEF OkBy
    <3>3. ScalarOk(e, v) <=> (KindOf(v) = "string" /\ v # Unreadable => MatchString(e[2], v[2]) # "NoMatch")
      BY <1>2 DEF ScalarOk
    <3> QED
      BY <1>2, <3>1, <3>2, <3>3 DEF Nil
  <2>3. Predicate(e, v, active, Env(D)) = PatternTest(e, v)
    BY <1>2 DEF Predicate
  <2> DEFINE x == MatchString(e[2], v[2]) = "NoMatch"
             b == MatchString(e[2], v[2]) = "Unknown"
  <2>4. PatternTest(e, v) = IF KindOf(v) # "string" THEN Accepted
                            ELSE IF x THEN Verdict("rejected", b) ELSE Verdict("accepted", b)
    BY DEF PatternTest
  <2>5. b \in BOOLEAN
    OBVIOUS
  <2>6. Said(t, e, v) <=> (KindOf(v) = "string" => ~ x)
    BY <2>1, <2>2 DEF Said
  <2> HIDE DEF x, b
  <2> QED
    BY <2>3, <2>4, <2>5, <2>6, PlainVerdicts, VerdictsAre DEF Agrees
<1>3. CASE e[1] = "minimum"
  <2>1. Alone(e) = e
    BY <1>3 DEF Alone, CompileExpr
  <2> DEFINE x == KindOf(v) = "number" => v[2] >= e[2]
  <2>2. e # Nil /\ (OkBy(t, e, v) <=> x)
    BY <1>3 DEF OkBy, ScalarOk, Nil
  <2>3. Predicate(e, v, active, Env(D)) = If(x)
    BY <1>3 DEF Predicate, ScalarTest
  <2> HIDE DEF x
  <2> QED
    BY <2>1, <2>2, <2>3, PlainVerdicts DEF Said, If, Agrees
<1>4. CASE e[1] = "multipleOf"
  <2>1. Alone(e) = e /\ e[2] # 0
    BY <1>4 DEF Alone, CompileExpr, Ready
  <2> DEFINE x == v[2] % e[2] = 0
  <2>2. e # Nil /\ (OkBy(t, e, v) <=> (KindOf(v) = "number" => x))
    BY <1>4 DEF OkBy, ScalarOk, Nil
  <2>3. Predicate(e, v, active, Env(D)) = IF KindOf(v) # "number" THEN Accepted ELSE If(x)
    BY <1>4, <2>1 DEF Predicate, ScalarTest
  <2> HIDE DEF x
  <2> QED
    BY <2>1, <2>2, <2>3, PlainVerdicts DEF Said, If, Agrees
<1>5. CASE e[1] = "domain"
  <2>1. Alone(e) = e
    BY <1>5 DEF Alone, CompileExpr
  <2>2. e # Nil /\ (OkBy(t, e, v) <=> (KindOf(v) = "number" => InDomain(e[2], v)))
    BY <1>5 DEF OkBy, ScalarOk, Nil
  <2>3. Predicate(e, v, active, Env(D)) = IF KindOf(v) # "number" THEN Failed ELSE If(InDomain(e[2], v))
    BY <1>5 DEF Predicate, ScalarTest
  <2> QED
    BY <2>1, <2>2, <2>3, PlainVerdicts DEF Said, If, Agrees
<1>6. CASE e[1] \in {"minItems", "maxItems", "uniqueItems"}
  <2>1. Alone(e) = e
    BY <1>6 DEF Alone, CompileExpr
  <2> DEFINE x == KindOf(v) = "array" =>
                    CASE e[1] = "minItems"    -> Len(v[2]) >= e[2]
                      [] e[1] = "maxItems"    -> Len(v[2]) <= e[2]
                      [] e[1] = "uniqueItems" -> IsInjective(v[2])
  <2>2. e # Nil /\ (OkBy(t, e, v) <=> ArrayTestOk(t, e, v))
    BY <1>6 DEF OkBy, Nil
  <2>3. ArrayTestOk(t, e, v) <=> x
    BY <1>6 DEF ArrayTestOk
  <2>4. Predicate(e, v, active, Env(D)) = If(x)
    BY <1>6 DEF Predicate, CountTest, If
  <2> HIDE DEF x
  <2> QED
    BY <2>1, <2>2, <2>3, <2>4, PlainVerdicts DEF Said, If, Agrees
<1>7. CASE e[1] \in {"minProperties", "maxProperties"}
  <2>1. Alone(e) = e
    BY <1>7 DEF Alone, CompileExpr
  <2> DEFINE x == KindOf(v) = "object" => IF e[1] = "minProperties" THEN Cardinality(DOMAIN v[2]) >= e[2]
                                          ELSE Cardinality(DOMAIN v[2]) <= e[2]
  <2>2. e # Nil /\ (OkBy(t, e, v) <=> ObjectTestOk(t, e, v))
    BY <1>7 DEF OkBy, Nil
  <2>3. ObjectTestOk(t, e, v) <=> x
    BY <1>7 DEF ObjectTestOk
  <2>4. Predicate(e, v, active, Env(D)) = If(x)
    BY <1>7 DEF Predicate, CountTest, If
  <2> HIDE DEF x
  <2> QED
    BY <2>1, <2>2, <2>3, <2>4, PlainVerdicts DEF Said, If, Agrees
<1> QED
  BY <1>1, <1>2, <1>3, <1>4, <1>5, <1>6, <1>7

LEMMA HoldingIs ==
  ASSUME NEW e, Alone(e) # Unsupported, e[1] \in {"not", "shape", "propertyNames"}
  PROVE  /\ CompilePlan(e[2]) # Unsupported
         /\ Alone(e) = <<IF e[1] = "not" THEN "negation" ELSE e[1], CompilePlan(e[2])>>
         /\ Alone(e) # Nil
<1>1. CASE e[1] = "not"
  <2>1. Alone(e) = IF CompilePlan(e[2]) = Unsupported THEN Unsupported ELSE <<"negation", CompilePlan(e[2])>>
    BY <1>1 DEF Alone, CompileExpr
  <2> QED
    BY <1>1, <2>1 DEF Nil
<1>2. CASE e[1] = "shape"
  <2>1. Alone(e) = IF CompilePlan(e[2]) = Unsupported THEN Unsupported ELSE <<"shape", CompilePlan(e[2])>>
    BY <1>2 DEF Alone, CompileExpr
  <2> QED
    BY <1>2, <2>1 DEF Nil
<1>3. CASE e[1] = "propertyNames"
  <2>1. Alone(e) = IF CompilePlan(e[2]) = Unsupported THEN Unsupported ELSE <<"propertyNames", CompilePlan(e[2])>>
    BY <1>3 DEF Alone, CompileExpr
  <2> QED
    BY <1>3, <2>1 DEF Nil
<1> QED
  BY <1>1, <1>2, <1>3

LEMMA NotAgrees ==
  ASSUME PlanSetting, NEW t, NEW D, NEW v, NEW e, NEW active, Ready(t, D, v, e), e[1] = "not"
  PROVE  Agrees(Predicate(e, v, active, Env(D)), Said(t, e, v))
<1> DEFINE n == CompilePlan(e[2])
           r == Interpret(e[2], v, {}, Env(D))
<1>1. n # Unsupported /\ Alone(e) = <<"negation", n>> /\ Alone(e) # Nil
  BY HoldingIs DEF Ready
<1>2. <<t, n, v>> \in Parts(t, Alone(e), v)
  BY <1>1 DEF Parts
<1>3. e[2] \in Plans /\ D \in [DOMAIN t -> Plans] /\ Compiles(t, D)
  BY DEF Ready, ExprFormed, Compiles
<1>4. Agrees(r, Ok(t, n, v))
  BY <1>1, <1>2, <1>3, CallAgrees
<1>5. ~ (r.verdict = "accepted" /\ r.approximated)
  <2> DEFINE c == <<t, n, v>>
  <2>1. c \in Walks /\ SureOf(e[2])
    BY <1>1, <1>2 DEF Ready
  <2>2. c[1] = t /\ c[2] = CompilePlan(e[2]) /\ c[3] = v
    OBVIOUS
  <2> HIDE DEF c
  <2> QED
    BY <1>3, <2>1, <2>2 DEF SureOf
<1>6. Said(t, e, v) <=> ~ Ok(t, n, v)
  BY <1>1 DEF Said, OkBy
<1> DEFINE wide == Verdict("accepted", r.approximated)
<1>7. Predicate(e, v, active, Env(D)) = IF r.verdict = "failed" THEN r
                                        ELSE IF r.verdict = "rejected" \/ r.approximated THEN wide
                                        ELSE Rejected
  BY DEF Predicate, Negated
<1> HIDE DEF r, n
<1>8. r.verdict \in {"accepted", "rejected", "failed"} /\ r.approximated \in BOOLEAN
  BY <1>4, VerdictOf DEF Agrees
<1>9. wide \in Verdicts /\ wide.verdict = "accepted"
  BY <1>8, VerdictsAre
<1> HIDE DEF wide
<1>10. CASE r.verdict = "failed"
  <2>1. Predicate(e, v, active, Env(D)) = r
    BY <1>7, <1>10
  <2> QED
    BY <1>4, <1>10, <2>1 DEF Agrees
<1>11. CASE r.verdict = "rejected"
  <2>1. Predicate(e, v, active, Env(D)) = wide
    BY <1>7, <1>11
  <2> QED
    BY <1>4, <1>6, <1>9, <1>11, <2>1 DEF Agrees
<1>12. CASE r.verdict = "accepted"
  <2>1. Predicate(e, v, active, Env(D)) = Rejected
    BY <1>5, <1>7, <1>12
  <2> QED
    BY <1>4, <1>6, <1>12, <2>1, PlainVerdicts DEF Agrees
<1> QED
  BY <1>8, <1>10, <1>11, <1>12

LEMMA ShapeAgrees ==
  ASSUME PlanSetting, NEW t, NEW D, NEW v, NEW e, NEW active, Ready(t, D, v, e), e[1] = "shape"
  PROVE  Agrees(Predicate(e, v, active, Env(D)), Said(t, e, v))
<1> DEFINE n == CompilePlan(e[2])
<1>1. n # Unsupported /\ Alone(e) = <<"shape", n>> /\ Alone(e) # Nil
  BY HoldingIs DEF Ready
<1>2. <<t, n, v>> \in Parts(t, Alone(e), v)
  BY <1>1 DEF Parts
<1>3. e[2] \in Plans
  BY DEF Ready, ExprFormed
<1>4. Agrees(Interpret(e[2], v, {}, Env(D)), Ok(t, n, v))
  BY <1>1, <1>2, <1>3, CallAgrees
<1>5. Said(t, e, v) <=> Ok(t, n, v)
  BY <1>1 DEF Said, OkBy
<1>6. Predicate(e, v, active, Env(D)) = Interpret(e[2], v, {}, Env(D))
  BY DEF Predicate
<1> QED
  BY <1>4, <1>5, <1>6 DEF Agrees

LEMMA ReferenceAgrees ==
  ASSUME PlanSetting, NEW t, NEW D, NEW v, NEW e, NEW active \in SUBSET DOMAIN t, Ready(t, D, v, e),
         e[1] = "reference"
  PROVE  Agrees(Predicate(e, v, active, Env(D)), Said(t, e, v))
<1> DEFINE name == e[2]
<1>1. Alone(e) = e /\ e # Nil
  BY DEF Alone, CompileExpr, Nil
<1>2. Said(t, e, v) <=> name \notin DOMAIN t \/ t[name] = Nil \/ Ok(t, t[name], v)
  BY <1>1 DEF Said, OkBy
<1>3. D \in [DOMAIN t -> Plans] /\ \A d \in DOMAIN t : t[d] = CompilePlan(D[d]) /\ t[d] # Unsupported
  BY DEF Ready, Compiles
<1>4. Predicate(e, v, active, Env(D)) = IF name \in active \/ name \notin DOMAIN t THEN Failed
                                        ELSE Interpret(D[name], v, active \cup {name}, Env(D))
  <2>1. Env(D).defs = D /\ DOMAIN D = DOMAIN t
    BY <1>3 DEF Env
  <2>2. Predicate(e, v, active, Env(D)) = Reference(name, v, active, Env(D))
    BY DEF Predicate
  <2> QED
    BY <2>1, <2>2 DEF Reference
<1>5. CASE name \in active \/ name \notin DOMAIN t
  BY <1>4, <1>5, PlainVerdicts DEF Agrees
<1>6. CASE name \in DOMAIN t /\ name \notin active
  <2>1. D[name] \in Plans /\ t[name] = CompilePlan(D[name]) /\ CompilePlan(D[name]) # Unsupported
    BY <1>3, <1>6
  <2>2. t[name] # Nil
    BY <2>1, CompiledIsNode
  <2>3. <<t, t[name], v>> \in Parts(t, e, v)
    BY <1>6, <2>2 DEF Parts
  <2>4. active \cup {name} \in SUBSET DOMAIN t
    BY <1>6
  <2>5. <<t, CompilePlan(D[name]), v>> \in Parts(t, Alone(e), v)
    BY <1>1, <2>1, <2>3
  <2>6. Agrees(Interpret(D[name], v, active \cup {name}, Env(D)), Ok(t, t[name], v))
    BY <1>1, <2>1, <2>4, <2>5, CallAgrees
  <2> QED
    BY <1>2, <1>4, <1>6, <2>2, <2>6 DEF Agrees
<1> QED
  BY <1>5, <1>6

LEMMA ContainsAgrees ==
  ASSUME PlanSetting, NEW t, NEW D, NEW v, NEW e, NEW active, Ready(t, D, v, e), e[1] = "contains"
  PROVE  Agrees(Predicate(e, v, active, Env(D)), Said(t, e, v))
<1> DEFINE n == CompilePlan(e[2])
           m == <<"contains", n, e[3], e[4]>>
           Good == {i \in DOMAIN v[2] : Ok(t, n, v[2][i])}
           hi == IF e[4] = <<>> THEN Len(v[2]) ELSE e[4][1]
<1>1. n # Unsupported /\ Alone(e) = m /\ m # Nil
  <2>1. Alone(e) = IF n = Unsupported THEN n ELSE m
    BY DEF Alone, CompileExpr
  <2> QED
    BY <2>1 DEF Ready, Nil
<1>2. Said(t, e, v) <=> (KindOf(v) = "array" => ContainsOk(t, m, v))
  <2>1. OkBy(t, m, v) <=> ArrayTestOk(t, m, v)
    BY DEF OkBy
  <2>2. ArrayTestOk(t, m, v) <=> (KindOf(v) = "array" => ContainsOk(t, m, v))
    BY DEF ArrayTestOk
  <2> HIDE DEF m
  <2> QED
    BY <1>1, <2>1, <2>2 DEF Said
<1>3. ContainsOk(t, m, v) <=> Cardinality(Good) >= e[3] /\ (e[4] # <<>> => Cardinality(Good) <= e[4][1])
  BY DEF ContainsOk
<1>4. Predicate(e, v, active, Env(D)) = ContainsCount(e, v, Env(D))
  BY DEF Predicate
<1>5. CASE KindOf(v) # "array"
  BY <1>2, <1>4, <1>5, PlainVerdicts DEF ContainsCount, Agrees
<1>6. CASE KindOf(v) = "array"
  <2> DEFINE step == [i \in DOMAIN v[2] |-> Interpret(e[2], v[2][i], {}, Env(D))]
             len == Len(v[2])
  <2>1. DOMAIN v[2] = 1 .. len /\ len \in Nat
    BY <1>6, ListIndexes DEF Ready, PlanSetting, Setting, Instance
  <2>2. ContainsCount(e, v, Env(D)) = Within(CountAccepted(step, len), e[3], hi)
    BY <1>6 DEF ContainsCount
  <2>3. ASSUME NEW i \in 1 .. len PROVE Agrees(step[i], i \in Good)
    <3>1. <<t, n, v[2][i]>> \in Parts(t, Alone(e), v)
      BY <1>1, <1>6, <2>1 DEF Parts
    <3>2. e[2] \in Plans
      BY DEF Ready, ExprFormed
    <3>3. Agrees(Interpret(e[2], v[2][i], {}, Env(D)), Ok(t, n, v[2][i]))
      BY <1>1, <3>1, <3>2, CallAgrees
    <3> QED
      BY <2>1, <3>3 DEF Agrees
  <2>4. {i \in 1 .. len : i \in Good} = Good /\ Good \subseteq 1 .. len
    BY <2>1
  <2> HIDE DEF step, Good, hi, len
  <2>5. Agrees(Within(CountAccepted(step, len), e[3], hi), Cardinality({i \in 1 .. len : i \in Good}) \in e[3] .. hi)
    BY <2>1, <2>3, WithinAgrees
  <2>6. Cardinality(Good) \in Nat /\ Cardinality(Good) <= len
    BY <2>1, <2>4, UptoHasSize, FS_Subset, FS_CardinalityType
  <2>7. e[3] \in Int /\ (e[4] = <<>> \/ e[4][1] \in Int)
    BY DEF Ready, ExprFormed
  <2>8. Cardinality(Good) \in e[3] .. hi <=> Cardinality(Good) >= e[3] /\ (e[4] # <<>> => Cardinality(Good) <= e[4][1])
    BY <2>1, <2>6, <2>7 DEF hi, len
  <2> QED
    BY <1>2, <1>3, <1>4, <1>6, <2>2, <2>4, <2>5, <2>8 DEF Agrees
<1> QED
  BY <1>5, <1>6

LEMMA PropertyNamesAgree ==
  ASSUME PlanSetting, NEW t, NEW D, NEW v, NEW e, NEW active, Ready(t, D, v, e), e[1] = "propertyNames"
  PROVE  Agrees(Predicate(e, v, active, Env(D)), Said(t, e, v))
<1> DEFINE n == CompilePlan(e[2])
           m == <<"propertyNames", n>>
<1>1. n # Unsupported /\ Alone(e) = m /\ m # Nil
  BY HoldingIs DEF Ready, Nil
<1>2. Said(t, e, v) <=> (KindOf(v) = "object" => \A x \in DOMAIN v[2] : Ok(t, n, Quoted(x)))
  <2>1. OkBy(t, m, v) <=> ObjectTestOk(t, m, v)
    BY DEF OkBy
  <2>2. ObjectTestOk(t, m, v) <=> (KindOf(v) = "object" => \A x \in DOMAIN v[2] : Ok(t, n, Quoted(x)))
    BY DEF ObjectTestOk
  <2> HIDE DEF m, n
  <2> QED
    BY <1>1, <2>1, <2>2 DEF Said
<1>3. Predicate(e, v, active, Env(D)) = IF KindOf(v) = "object" THEN PropertyNames(e[2], v, Env(D)) ELSE Accepted
  BY DEF Predicate
<1>4. CASE KindOf(v) # "object"
  BY <1>2, <1>3, <1>4, PlainVerdicts DEF Agrees
<1>5. CASE KindOf(v) = "object"
  <2> DEFINE names == NamesIn(v)
             step == [i \in DOMAIN names |-> Interpret(e[2], <<"string", names[i]>>, {}, Env(D))]
             Bad == {i \in DOMAIN names : ~ Ok(t, n, Quoted(names[i]))}
  <2>1. IsList(names) /\ Set(names) = DOMAIN v[2]
    BY <1>5, NamesInHold DEF Ready, PlanSetting
  <2>2. DOMAIN names = 1 .. Len(names) /\ Len(names) \in Nat
    BY <2>1, ListIndexes
  <2>3. PropertyNames(e[2], v, Env(D)) = InTurn(step, Len(names))
    BY DEF PropertyNames, NamesOf, NamesIn, Env
  <2>4. ASSUME NEW i \in 1 .. Len(names) PROVE Agrees(step[i], i \notin Bad)
    <3>1. names[i] \in DOMAIN v[2]
      BY <2>1, <2>2 DEF Set
    <3>2. <<t, n, Quoted(names[i])>> \in Parts(t, Alone(e), v)
      BY <1>1, <1>5, <3>1 DEF Parts
    <3>3. e[2] \in Plans
      BY DEF Ready, ExprFormed
    <3>4. Quoted(names[i]) = <<"string", names[i]>>
      BY <1>5, <3>1 DEF Ready, PlanSetting, Legible, Quoted
    <3>5. Agrees(Interpret(e[2], Quoted(names[i]), {}, Env(D)), Ok(t, n, Quoted(names[i])))
      BY <1>1, <3>2, <3>3, CallAgrees
    <3>6. step[i] = Interpret(e[2], Quoted(names[i]), {}, Env(D))
      BY <2>2, <3>4
    <3>7. i \notin Bad <=> Ok(t, n, Quoted(names[i]))
      BY <2>2
    <3> QED
      BY <3>5, <3>6, <3>7 DEF Agrees
  <2>5. (\A i \in 1 .. Len(names) : i \notin Bad) <=> \A x \in DOMAIN v[2] : Ok(t, n, Quoted(x))
    BY <2>1, <2>2 DEF Set
  <2> HIDE DEF step, Bad, names
  <2>6. Agrees(InTurn(step, Len(names)), \A i \in 1 .. Len(names) : i \notin Bad)
    BY <2>2, <2>4, InTurnAgrees
  <2> QED
    BY <1>2, <1>3, <1>5, <2>3, <2>5, <2>6 DEF Agrees
<1> QED
  BY <1>4, <1>5

(* What a node that holds an optional plan holds.                          *)
LEMMA OptIs ==
  ASSUME PlanSetting, NEW x, OptPlan(x), CompileOpt(x) # Unsupported
  PROVE  /\ x = <<>> => CompileOpt(x) = Nil
         /\ x # <<>> => /\ x[1] \in Plans /\ CompileOpt(x) = CompilePlan(x[1])
                        /\ CompilePlan(x[1]) # Unsupported /\ CompilePlan(x[1]) # Nil
<1>1. CASE x = <<>>
  BY <1>1 DEF CompileOpt, Nil
<1>2. CASE x # <<>>
  <2>1. PICK q \in Plans : x = <<q>>
    BY <1>2 DEF OptPlan
  <2>2. x[1] = q /\ CompileOpt(x) = CompilePlan(q)
    BY <1>2, <2>1 DEF CompileOpt
  <2> QED
    BY <1>2, <2>2, CompiledIsNode
<1> QED
  BY <1>1, <1>2

LEMMA ArrayAgrees ==
  ASSUME PlanSetting, NEW t, NEW D, NEW v, NEW e, NEW active, Ready(t, D, v, e), e[1] = "array"
  PROVE  Agrees(Predicate(e, v, active, Env(D)), Said(t, e, v))
<1> DEFINE prefix == CompileEach(e[2])
           rest == CompileOpt(e[3])
           m == <<"arrayStructure", prefix, rest, NoBounds>>
           ItemOk(i) == CASE i <= Len(prefix) -> Ok(t, prefix[i], v[2][i])
                          [] i > Len(prefix) /\ rest # Nil -> Ok(t, rest, v[2][i])
                          [] OTHER -> FALSE
<1>1. Unsupported \notin Set(prefix) \cup {rest} /\ Alone(e) = m /\ m # Nil
  <2>1. Alone(e) = CompileArray(e, NoBounds)
    BY DEF Alone, CompileExpr, Unfused
  <2>2. CompileArray(e, NoBounds) = IF Unsupported \in Set(prefix) \cup {rest} THEN Unsupported ELSE m
    BY DEF CompileArray
  <2> HIDE DEF prefix, rest
  <2> QED
    BY <2>1, <2>2 DEF Ready, Nil
<1>2. IsList(e[2]) /\ Set(e[2]) \subseteq Plans /\ OptPlan(e[3])
  BY DEF Ready, ExprFormed
<1>3. DOMAIN e[2] = 1 .. Len(e[2]) /\ Len(e[2]) \in Nat
  BY <1>2, ListIndexes
<1>4. prefix = [i \in 1 .. Len(e[2]) |-> CompilePlan(e[2][i])]
  BY <1>3 DEF CompileEach
<1>5. Len(prefix) = Len(e[2]) /\ DOMAIN prefix = 1 .. Len(e[2])
  BY <1>3, <1>4
<1>6. \A i \in 1 .. Len(e[2]) : e[2][i] \in Plans /\ prefix[i] = CompilePlan(e[2][i]) /\ prefix[i] # Unsupported
  BY <1>1, <1>2, <1>3, <1>4, <1>5 DEF Set
<1> HIDE DEF prefix
<1>7. /\ e[3] = <<>> => rest = Nil
      /\ e[3] # <<>> => e[3][1] \in Plans /\ rest = CompilePlan(e[3][1])
                        /\ CompilePlan(e[3][1]) # Unsupported /\ rest # Nil
  BY <1>1, <1>2, OptIs
<1> HIDE DEF rest
<1>8. OkBy(t, m, v) <=> (KindOf(v) = "array" => \A i \in DOMAIN v[2] : ItemOk(i))
  <2>1. OkBy(t, m, v) <=> (KindOf(v) = "array" => ArrayOk(t, m, v))
    BY DEF OkBy
  <2>2. ArrayOk(t, m, v) <=> (\A i \in DOMAIN v[2] : ItemOk(i)) /\ BoundsOk(NoBounds, Len(v[2]))
    BY DEF ArrayOk
  <2>3. BoundsOk(NoBounds, Len(v[2]))
    BY DEF BoundsOk, NoBounds
  <2> HIDE DEF ItemOk, m
  <2> QED
    BY <2>1, <2>2, <2>3
<1>9. Said(t, e, v) <=> (KindOf(v) = "array" => \A i \in DOMAIN v[2] : ItemOk(i))
  <2> HIDE DEF ItemOk, m
  <2> QED
    BY <1>1, <1>8 DEF Said
<1>10. Predicate(e, v, active, Env(D)) = IF KindOf(v) = "array" THEN ArrayAgainst(e, v, Env(D)) ELSE Accepted
  BY DEF Predicate
<1>11. CASE KindOf(v) # "array"
  <2> HIDE DEF ItemOk
  <2> QED
    BY <1>9, <1>10, <1>11, PlainVerdicts DEF Agrees
<1>12. CASE KindOf(v) = "array"
  <2> DEFINE step == [i \in DOMAIN v[2] |->
                        CASE i <= Len(e[2]) -> Interpret(e[2][i], v[2][i], {}, Env(D))
                          [] i > Len(e[2]) /\ e[3] = <<>> -> Rejected
                          [] i > Len(e[2]) /\ e[3] # <<>> -> Interpret(e[3][1], v[2][i], {}, Env(D))]
             Bad == {i \in DOMAIN v[2] : ~ ItemOk(i)}
             len == Len(v[2])
  <2>1. DOMAIN v[2] = 1 .. len /\ len \in Nat
    BY <1>12, ListIndexes DEF Ready, PlanSetting, Setting, Instance
  <2>2. ArrayAgainst(e, v, Env(D)) = InTurn(step, len)
    BY DEF ArrayAgainst
  <2>3. ASSUME NEW i \in 1 .. len PROVE Agrees(step[i], ItemOk(i))
    <3>1. CASE i <= Len(e[2])
      <4>1. i \in 1 .. Len(e[2])
        BY <2>1, <1>3, <3>1
      <4>2. <<t, prefix[i], v[2][i]>> \in Parts(t, Alone(e), v)
        BY <1>1, <1>5, <1>12, <2>1, <3>1 DEF Parts, ElementWalks
      <4>3. Agrees(Interpret(e[2][i], v[2][i], {}, Env(D)), Ok(t, prefix[i], v[2][i]))
        BY <1>1, <1>6, <4>1, <4>2, CallAgrees
      <4>4. step[i] = Interpret(e[2][i], v[2][i], {}, Env(D))
        BY <2>1, <3>1, <1>3
      <4>5. ItemOk(i) <=> Ok(t, prefix[i], v[2][i])
        BY <1>3, <1>5, <2>1, <3>1
      <4> HIDE DEF step, ItemOk
      <4> QED
        BY <4>3, <4>4, <4>5 DEF Agrees
    <3>2. CASE i > Len(e[2]) /\ e[3] = <<>>
      <4>1. step[i] = Rejected
        BY <2>1, <3>2, <1>3
      <4>2. ~ ItemOk(i)
        BY <1>3, <1>5, <1>7, <2>1, <3>2
      <4> HIDE DEF step, ItemOk
      <4> QED
        BY <4>1, <4>2, PlainVerdicts DEF Agrees
    <3>3. CASE i > Len(e[2]) /\ e[3] # <<>>
      <4>1. <<t, rest, v[2][i]>> \in Parts(t, Alone(e), v)
        BY <1>1, <1>5, <1>7, <1>12, <2>1, <3>3 DEF Parts, ElementWalks
      <4>2. Agrees(Interpret(e[3][1], v[2][i], {}, Env(D)), Ok(t, rest, v[2][i]))
        BY <1>1, <1>7, <3>3, <4>1, CallAgrees
      <4>3. step[i] = Interpret(e[3][1], v[2][i], {}, Env(D))
        BY <2>1, <3>3, <1>3
      <4>4. ItemOk(i) <=> Ok(t, rest, v[2][i])
        BY <1>3, <1>5, <1>7, <2>1, <3>3
      <4> HIDE DEF step, ItemOk
      <4> QED
        BY <4>2, <4>3, <4>4 DEF Agrees
    <3> HIDE DEF step, ItemOk
    <3> QED
      BY <1>3, <2>1, <3>1, <3>2, <3>3
  <2> HIDE DEF step, ItemOk
  <2>4. \A i \in 1 .. len : ItemOk(i) <=> i \notin Bad
    BY <2>1
  <2> HIDE DEF Bad
  <2>5. \A i \in 1 .. len : Agrees(step[i], i \notin Bad)
    BY <2>3, <2>4 DEF Agrees
  <2>6. Agrees(InTurn(step, len), \A i \in 1 .. len : i \notin Bad)
    BY <2>1, <2>5, InTurnAgrees
  <2>7. (\A i \in 1 .. len : i \notin Bad) <=> \A i \in DOMAIN v[2] : ItemOk(i)
    BY <2>1, <2>4
  <2> HIDE DEF len
  <2> QED
    BY <1>9, <1>10, <1>12, <2>2, <2>6, <2>7 DEF Agrees
<1> QED
  BY <1>11, <1>12

(* Every name of a list is found, and at the first place it has there.     *)
LEMMA LookupFinds ==
  ASSUME NEW names, IsList(names), NEW x
  PROVE  /\ x \in Set(names) => \E i \in DOMAIN names : names[i] = x /\ Lookup(names, x) = {i}
         /\ x \notin Set(names) => Lookup(names, x) = {}
<1> DEFINE at == {i \in DOMAIN names : names[i] = x}
<1>1. at \in SUBSET Nat
  BY ListIndexes
<1>2. Lookup(names, x) = IF at = {} THEN {} ELSE {CHOOSE i \in at : \A j \in at : i <= j}
  BY DEF Lookup
<1>3. CASE x \in Set(names)
  <2>1. at # {}
    BY <1>3 DEF Set
  <2> HIDE DEF at
  <2>2. \E i \in at : \A j \in at : i <= j
    BY <1>1, <2>1, HasLeast
  <2>3. (CHOOSE i \in at : \A j \in at : i <= j) \in at
    BY <2>2
  <2> QED
    BY <1>2, <1>3, <2>1, <2>3 DEF at
<1>4. CASE x \notin Set(names)
  <2>1. at = {}
    BY <1>4 DEF Set
  <2> QED
    BY <1>2, <1>4, <2>1
<1> QED
  BY <1>3, <1>4

(* The positions of some names of a list are among those of the names that *)
(* are there just when they are there themselves.                          *)
LEMMA PresenceHolds ==
  ASSUME NEW names, IsList(names), NEW some, some \subseteq Set(names), NEW present
  PROVE  PresenceOf(names, some) \subseteq PresenceOf(names, present) <=> some \subseteq present
<1>1. ASSUME some \subseteq present
      PROVE  PresenceOf(names, some) \subseteq PresenceOf(names, present)
  BY <1>1 DEF PresenceOf
<1>2. ASSUME PresenceOf(names, some) \subseteq PresenceOf(names, present), NEW x \in some
      PROVE  x \in present
  <2>1. PICK i \in DOMAIN names : names[i] = x /\ Lookup(names, x) = {i}
    BY LookupFinds
  <2>2. i \in PresenceOf(names, present)
    BY <1>2, <2>1 DEF PresenceOf
  <2>3. PICK y \in present : i \in Lookup(names, y)
    BY <2>2 DEF PresenceOf
  <2>4. names[i] = y
    BY <2>3, LookupFinds
  <2> QED
    BY <2>1, <2>3, <2>4
<1> QED
  BY <1>1, <1>2

LEMMA RequiredSays ==
  ASSUME NEW t, NEW v, NEW e, e[1] = "required", IsList(e[2])
  PROVE  /\ Alone(e) = <<"required", e[2], PresenceOf(e[2], Set(e[2]))>>
         /\ Said(t, e, v) <=> (KindOf(v) = "object" => Set(e[2]) \subseteq DOMAIN v[2])
<1> DEFINE m == <<"required", e[2], PresenceOf(e[2], Set(e[2]))>>
<1>1. Alone(e) = m /\ m # Nil
  BY DEF Alone, CompileExpr, Nil
<1>2. OkBy(t, m, v) <=> (KindOf(v) = "object" => PresenceOf(e[2], Set(e[2])) \subseteq PresenceOf(e[2], DOMAIN v[2]))
  <2>1. OkBy(t, m, v) <=> ObjectTestOk(t, m, v)
    BY DEF OkBy
  <2> QED
    BY <2>1 DEF ObjectTestOk
<1>3. PresenceOf(e[2], Set(e[2])) \subseteq PresenceOf(e[2], DOMAIN v[2]) <=> Set(e[2]) \subseteq DOMAIN v[2]
  BY PresenceHolds
<1> HIDE DEF m
<1>4. Said(t, e, v) <=> (KindOf(v) = "object" => Set(e[2]) \subseteq DOMAIN v[2])
  BY <1>1, <1>2, <1>3 DEF Said
<1> QED
  BY <1>1, <1>4 DEF m

LEMMA RequiredAgrees ==
  ASSUME PlanSetting, NEW t, NEW D, NEW v, NEW e, NEW active, Ready(t, D, v, e), e[1] = "required"
  PROVE  Agrees(Predicate(e, v, active, Env(D)), Said(t, e, v))
<1> DEFINE x == \A i \in DOMAIN e[2] : e[2][i] \in DOMAIN v[2]
<1>1. Said(t, e, v) <=> (KindOf(v) = "object" => Set(e[2]) \subseteq DOMAIN v[2])
  BY RequiredSays DEF Ready, ExprFormed
<1>2. Set(e[2]) \subseteq DOMAIN v[2] <=> x
  BY DEF Set
<1>3. Predicate(e, v, active, Env(D)) = IF KindOf(v) = "object" THEN If(x) ELSE Accepted
  BY DEF Predicate, NamesTest
<1> HIDE DEF x
<1> QED
  BY <1>1, <1>2, <1>3, PlainVerdicts DEF If, Agrees

LEMMA DependentAgrees ==
  ASSUME PlanSetting, NEW t, NEW D, NEW v, NEW e, NEW active, Ready(t, D, v, e), e[1] = "dependent"
  PROVE  Agrees(Predicate(e, v, active, Env(D)), Said(t, e, v))
<1> DEFINE names == <<e[2]>> \o e[3]
           one == PresenceOf(names, {e[2]})
           all == PresenceOf(names, Set(e[3]))
           seen == PresenceOf(names, DOMAIN v[2])
           m == <<"dependentRequired", names, one, all>>
           x == e[2] \in DOMAIN v[2] => \A i \in DOMAIN e[3] : e[3][i] \in DOMAIN v[2]
<1>1. IsList(e[3])
  BY DEF Ready, ExprFormed
<1>2. IsList(names) /\ Set(names) = {e[2]} \cup Set(e[3])
  <2>1. e[3] \in Seq(Set(e[3])) /\ DOMAIN e[3] = 1 .. Len(e[3]) /\ Len(e[3]) \in Nat
    BY <1>1, ListIndexes DEF IsList
  <2>2. <<e[2]>> \in Seq({e[2]} \cup Set(e[3])) /\ e[3] \in Seq({e[2]} \cup Set(e[3]))
    BY <2>1
  <2>3. names \in Seq({e[2]} \cup Set(e[3]))
    BY <2>2
  <2>4. Len(names) = Len(e[3]) + 1 /\ names[1] = e[2] /\ \A i \in 1 .. Len(e[3]) : names[i + 1] = e[3][i]
    BY <2>1
  <2>5. DOMAIN names = 1 .. Len(e[3]) + 1
    BY <2>1, <2>3, <2>4
  <2>6. 1 \in DOMAIN names /\ \A i \in DOMAIN e[3] : i + 1 \in DOMAIN names
    BY <2>1, <2>5
  <2> HIDE DEF names
  <2>7. Set(names) \subseteq {e[2]} \cup Set(e[3])
    BY <2>3, <2>5 DEF Set
  <2>8. e[2] \in Set(names)
    BY <2>4, <2>6 DEF Set
  <2>9. ASSUME NEW i \in DOMAIN e[3] PROVE e[3][i] \in Set(names)
    <3>1. i + 1 \in DOMAIN names /\ names[i + 1] = e[3][i]
      BY <2>1, <2>4, <2>6
    <3> QED
      BY <3>1 DEF Set
  <2>10. Set(e[3]) \subseteq Set(names)
    BY <2>9 DEF Set
  <2> QED
    BY <2>3, <2>7, <2>8, <2>10, SeqIsList
<1>3. Alone(e) = m /\ m # Nil
  <2>1. Alone(e) = CompileDependentRequired(e)
    BY DEF Alone, CompileExpr
  <2>2. one = Lookup(names, e[2])
    BY DEF PresenceOf
  <2> QED
    BY <2>1, <2>2 DEF CompileDependentRequired, PresenceOf, Nil
<1> HIDE DEF names
<1>4. (one \subseteq seen <=> {e[2]} \subseteq DOMAIN v[2]) /\ (all \subseteq seen <=> Set(e[3]) \subseteq DOMAIN v[2])
  BY <1>2, PresenceHolds
<1>5. OkBy(t, m, v) <=> (KindOf(v) = "object" => (one \subseteq seen => all \subseteq seen))
  <2>1. OkBy(t, m, v) <=> ObjectTestOk(t, m, v)
    BY DEF OkBy
  <2>2. ObjectTestOk(t, m, v) <=> (KindOf(v) = "object" => DependentOk(m, v))
    BY DEF ObjectTestOk
  <2>3. DependentOk(m, v) <=> (one \subseteq seen => all \subseteq seen)
    BY DEF DependentOk
  <2> QED
    BY <2>1, <2>2, <2>3
<1> HIDE DEF one, all, seen, m
<1>6. (one \subseteq seen => all \subseteq seen) <=> x
  BY <1>4 DEF Set
<1>7. Predicate(e, v, active, Env(D)) = IF KindOf(v) = "object" THEN If(x) ELSE Accepted
  BY DEF Predicate, NamesTest
<1> HIDE DEF x
<1> QED
  BY <1>3, <1>5, <1>6, <1>7, PlainVerdicts DEF Said, If, Agrees

(* One verdict, and another if it accepts.                                 *)
LEMMA ThenIs ==
  ASSUME NEW r \in Verdicts, NEW s \in Verdicts
  PROVE  LET x == IF r.verdict # "accepted" THEN r ELSE After(r, s)
         IN  /\ x \in Verdicts
             /\ x.verdict = "accepted" => r.verdict = "accepted" /\ s.verdict = "accepted"
             /\ x.verdict = "rejected" => r.verdict = "rejected" \/ s.verdict = "rejected"
<1>1. CASE r.verdict # "accepted"
  BY <1>1
<1>2. CASE r.verdict = "accepted"
  <2>1. After(r, s) \in Verdicts /\ After(r, s).verdict = s.verdict
    BY AfterIs
  <2> QED
    BY <1>2, <2>1
<1> QED
  BY <1>1, <1>2

-----------------------------------------------------------------------------
(* Structures of objects.                                                  *)

Structure(e, counts) ==
  <<"objectStructure",
    [i \in DOMAIN e[2] |-> [name |-> e[2][i].name, inner |-> CompilePlan(e[2][i].plan),
                            required |-> e[2][i].required, nullable |-> e[2][i].nullable]],
    [i \in DOMAIN e[3] |-> <<e[3][i][1], CompilePlan(e[3][i][2])>>], CompileOpt(e[4]), counts>>

(* What each part of one is compiled to, whatever is counted beside it.    *)
LEMMA StructureIs ==
  ASSUME NEW e, e[1] = "object", Alone(e) # Unsupported
  PROVE  /\ \A counts : CompileObject(e, counts) = Structure(e, counts)
         /\ \A i \in DOMAIN e[2] : CompilePlan(e[2][i].plan) # Unsupported
         /\ \A i \in DOMAIN e[3] : CompilePlan(e[3][i][2]) # Unsupported
         /\ CompileOpt(e[4]) # Unsupported
         /\ Alone(e) = Structure(e, NoBounds) /\ Alone(e) # Nil
<1> DEFINE inner == [i \in DOMAIN e[2] |-> CompilePlan(e[2][i].plan)]
           ruled == [i \in DOMAIN e[3] |-> CompilePlan(e[3][i][2])]
           bad == Unsupported \in Set(inner) \cup Set(ruled) \cup {CompileOpt(e[4])}
<1>1. ASSUME NEW counts
      PROVE  CompileObject(e, counts) = IF bad THEN Unsupported ELSE Structure(e, counts)
  <2>1. /\ [i \in DOMAIN e[2] |-> [name |-> e[2][i].name, inner |-> inner[i],
                                   required |-> e[2][i].required, nullable |-> e[2][i].nullable]]
             = [i \in DOMAIN e[2] |-> [name |-> e[2][i].name, inner |-> CompilePlan(e[2][i].plan),
                                       required |-> e[2][i].required, nullable |-> e[2][i].nullable]]
        /\ [i \in DOMAIN e[3] |-> <<e[3][i][1], ruled[i]>>]
             = [i \in DOMAIN e[3] |-> <<e[3][i][1], CompilePlan(e[3][i][2])>>]
    OBVIOUS
  <2> QED
    BY <2>1 DEF CompileObject, Structure
<1>2. Alone(e) = CompileObject(e, NoBounds)
  BY DEF Alone, CompileExpr, Unfused
<1>3. ~ bad
  <2> HIDE DEF bad
  <2> QED
    BY <1>1, <1>2
<1>4. /\ \A i \in DOMAIN e[2] : CompilePlan(e[2][i].plan) # Unsupported
      /\ \A i \in DOMAIN e[3] : CompilePlan(e[3][i][2]) # Unsupported
      /\ CompileOpt(e[4]) # Unsupported
  <2>1. Unsupported \notin Set(inner) /\ Unsupported \notin Set(ruled) /\ Unsupported # CompileOpt(e[4])
    BY <1>3
  <2>2. \A i \in DOMAIN e[2] : i \in DOMAIN inner /\ inner[i] = CompilePlan(e[2][i].plan)
    OBVIOUS
  <2>3. \A i \in DOMAIN e[3] : i \in DOMAIN ruled /\ ruled[i] = CompilePlan(e[3][i][2])
    OBVIOUS
  <2> HIDE DEF inner, ruled
  <2> QED
    BY <2>1, <2>2, <2>3 DEF Set
<1> HIDE DEF bad
<1>5. \A counts : CompileObject(e, counts) = Structure(e, counts)
  BY <1>1, <1>3
<1>6. Structure(e, NoBounds) # Nil
  BY DEF Structure, Nil
<1> QED
  BY <1>2, <1>4, <1>5, <1>6

(* What an undeclared name leads to, and a declared one.                   *)
UndeclaredOk(t, e, name, x) ==
  /\ \A i \in DOMAIN e[3] : MatchString(e[3][i][1], name) = "Match" => Ok(t, CompilePlan(e[3][i][2]), x)
  /\ \/ \E i \in DOMAIN e[3] : MatchString(e[3][i][1], name) # "NoMatch"
     \/ e[4] = <<>>
     \/ Ok(t, CompilePlan(e[4][1]), x)

DeclaredOk(t, f, v) ==
  IF f.name \in DOMAIN v[2]
  THEN (f.nullable /\ KindOf(v[2][f.name]) = "null") \/ Ok(t, CompilePlan(f.plan), v[2][f.name])
  ELSE ~ f.required

OthersOf(e, v) == DOMAIN v[2] \ {e[2][i].name : i \in DOMAIN e[2]}

LEMMA UndeclaredAgrees ==
  ASSUME PlanSetting, NEW t, NEW D, NEW v, NEW e, Ready(t, D, v, e), e[1] = "object",
         KindOf(v) = "object", NEW name \in OthersOf(e, v)
  PROVE  Agrees(Undeclared(e, name, v[2][name], Env(D)), UndeclaredOk(t, e, name, v[2][name]))
<1> DEFINE x == v[2][name]
           o == Structure(e, NoBounds)
           step == [i \in DOMAIN e[3] |->
                      CASE MatchString(e[3][i][1], name) = "Match"   -> Interpret(e[3][i][2], x, {}, Env(D))
                        [] MatchString(e[3][i][1], name) = "NoMatch" -> Accepted
                        [] MatchString(e[3][i][1], name) = "Unknown" -> Verdict("accepted", TRUE)]
           Bad == {i \in DOMAIN e[3] : MatchString(e[3][i][1], name) = "Match" /\ ~ Ok(t, CompilePlan(e[3][i][2]), x)}
           matched == \E i \in DOMAIN e[3] : MatchString(e[3][i][1], name) # "NoMatch"
           ruled == InTurn(step, Len(e[3]))
           rest == Interpret(e[4][1], x, {}, Env(D))
<1>1. /\ \A i \in DOMAIN e[3] : CompilePlan(e[3][i][2]) # Unsupported
      /\ CompileOpt(e[4]) # Unsupported
      /\ Alone(e) = o /\ Alone(e) # Nil
  BY StructureIs DEF Ready
<1>2. IsList(e[3]) /\ (\A i \in DOMAIN e[3] : e[3][i][2] \in Plans) /\ OptPlan(e[4])
  BY DEF Ready, ExprFormed, PairsFormed
<1>3. DOMAIN e[3] = 1 .. Len(e[3]) /\ Len(e[3]) \in Nat
  BY <1>2, ListIndexes
<1>4. /\ o[1] = "objectStructure" /\ OtherNames(o, v) = OthersOf(e, v)
      /\ DOMAIN o[3] = DOMAIN e[3] /\ \A i \in DOMAIN e[3] : o[3][i][2] = CompilePlan(e[3][i][2])
      /\ o[4] = CompileOpt(e[4])
  BY DEF Structure, OtherNames, OthersOf
<1> HIDE DEF o
<1>5. Parts(t, Alone(e), v) = MemberWalks(t, o, v)
  BY <1>1, <1>4 DEF Parts
<1>6. ASSUME NEW i \in DOMAIN e[3]
      PROVE  Agrees(Interpret(e[3][i][2], x, {}, Env(D)), Ok(t, CompilePlan(e[3][i][2]), x))
  <2>1. <<t, CompilePlan(e[3][i][2]), x>> \in MemberWalks(t, o, v)
    BY <1>4 DEF MemberWalks
  <2> QED
    BY <1>1, <1>2, <1>5, <2>1, CallAgrees
<1>7. ASSUME e[4] # <<>>
      PROVE  Agrees(rest, Ok(t, CompilePlan(e[4][1]), x))
  <2>1. /\ e[4][1] \in Plans /\ o[4] = CompilePlan(e[4][1])
        /\ CompilePlan(e[4][1]) # Unsupported /\ o[4] # Nil
    BY <1>1, <1>2, <1>4, <1>7, OptIs
  <2>2. <<t, o[4], x>> \in MemberWalks(t, o, v)
    BY <1>4, <2>1 DEF MemberWalks
  <2> QED
    BY <1>1, <1>5, <2>1, <2>2, CallAgrees
<1>8. ASSUME NEW i \in 1 .. Len(e[3]) PROVE Agrees(step[i], i \notin Bad)
  <2>1. i \in DOMAIN e[3]
    BY <1>3
  <2>2. step[i] = CASE MatchString(e[3][i][1], name) = "Match"   -> Interpret(e[3][i][2], x, {}, Env(D))
                    [] MatchString(e[3][i][1], name) = "NoMatch" -> Accepted
                    [] MatchString(e[3][i][1], name) = "Unknown" -> Verdict("accepted", TRUE)
    BY <2>1
  <2>3. i \in Bad <=> MatchString(e[3][i][1], name) = "Match" /\ ~ Ok(t, CompilePlan(e[3][i][2]), x)
    BY <2>1
  <2>4. MatchString(e[3][i][1], name) \in {"Match", "NoMatch", "Unknown"}
    BY DEF MatchString
  <2>5. Agrees(Interpret(e[3][i][2], x, {}, Env(D)), Ok(t, CompilePlan(e[3][i][2]), x))
    BY <1>6, <2>1
  <2>6. Verdict("accepted", TRUE) \in Verdicts /\ Verdict("accepted", TRUE).verdict = "accepted"
    BY VerdictsAre
  <2> HIDE DEF step, Bad, x
  <2>7. CASE MatchString(e[3][i][1], name) = "Match"
    <3>1. step[i] = Interpret(e[3][i][2], x, {}, Env(D))
      BY <2>2, <2>7
    <3> QED
      BY <2>3, <2>5, <2>7, <3>1 DEF Agrees
  <2>8. CASE MatchString(e[3][i][1], name) = "NoMatch"
    BY <2>2, <2>3, <2>8, PlainVerdicts DEF Agrees
  <2>9. CASE MatchString(e[3][i][1], name) = "Unknown"
    BY <2>2, <2>3, <2>6, <2>9 DEF Agrees
  <2> QED
    BY <2>4, <2>7, <2>8, <2>9
<1>9. (\A i \in 1 .. Len(e[3]) : i \notin Bad)
        <=> \A i \in DOMAIN e[3] : MatchString(e[3][i][1], name) = "Match" => Ok(t, CompilePlan(e[3][i][2]), x)
  BY <1>3
<1>10. PatternRules(e[3], name, x, Env(D)) = ruled
  BY DEF PatternRules
<1> HIDE DEF step, Bad
<1>11. Agrees(ruled, \A i \in 1 .. Len(e[3]) : i \notin Bad)
  BY <1>3, <1>8, InTurnAgrees
<1>12. Undeclared(e, name, x, Env(D)) = IF ruled.verdict # "accepted" \/ matched \/ e[4] = <<>> THEN ruled
                                        ELSE After(ruled, rest)
  BY <1>10 DEF Undeclared
<1>13. UndeclaredOk(t, e, name, x) <=> /\ \A i \in 1 .. Len(e[3]) : i \notin Bad
                                       /\ matched \/ e[4] = <<>> \/ Ok(t, CompilePlan(e[4][1]), x)
  BY <1>9 DEF UndeclaredOk
<1> HIDE DEF matched, ruled, rest, x
<1>14. CASE matched \/ e[4] = <<>>
  <2>1. Undeclared(e, name, x, Env(D)) = ruled
    BY <1>12, <1>14
  <2> QED
    BY <1>11, <1>13, <1>14, <2>1 DEF Agrees, x
<1>15. CASE ~ matched /\ e[4] # <<>>
  <2>1. Undeclared(e, name, x, Env(D)) = IF ruled.verdict # "accepted" THEN ruled ELSE After(ruled, rest)
    BY <1>12, <1>15
  <2>2. Agrees(rest, Ok(t, CompilePlan(e[4][1]), x))
    BY <1>7, <1>15
  <2>3. ruled \in Verdicts /\ rest \in Verdicts
    BY <1>11, <2>2 DEF Agrees
  <2> DEFINE r == IF ruled.verdict # "accepted" THEN ruled ELSE After(ruled, rest)
  <2>4. /\ r \in Verdicts
        /\ r.verdict = "accepted" => ruled.verdict = "accepted" /\ rest.verdict = "accepted"
        /\ r.verdict = "rejected" => ruled.verdict = "rejected" \/ rest.verdict = "rejected"
    BY <2>3, ThenIs
  <2> HIDE DEF r
  <2>5. Agrees(r, UndeclaredOk(t, e, name, x))
    BY <1>11, <1>13, <1>15, <2>2, <2>4 DEF Agrees
  <2> QED
    BY <2>1, <2>5 DEF r, x
<1> QED
  BY <1>14, <1>15

LEMMA DeclaredAgrees ==
  ASSUME PlanSetting, NEW t, NEW D, NEW v, NEW e, Ready(t, D, v, e), e[1] = "object",
         KindOf(v) = "object", NEW i \in DOMAIN e[2]
  PROVE  Agrees(Field(e[2][i], v, Env(D)), DeclaredOk(t, e[2][i], v))
<1> DEFINE f == e[2][i]
           o == Structure(e, NoBounds)
           n == CompilePlan(f.plan)
<1>1. n # Unsupported /\ Alone(e) = o /\ Alone(e) # Nil
  BY StructureIs DEF Ready
<1>2. f.plan \in Plans /\ f.required \in BOOLEAN
  BY DEF Ready, ExprFormed, FieldsFormed
<1>3. /\ o[1] = "objectStructure" /\ i \in DOMAIN o[2] /\ o[2][i].name = f.name /\ o[2][i].inner = n
  BY DEF Structure
<1> HIDE DEF o
<1>4. Parts(t, Alone(e), v) = MemberWalks(t, o, v)
  BY <1>1, <1>3 DEF Parts
<1> HIDE DEF f, n
<1>5. CASE f.name \notin DOMAIN v[2]
  <2>1. Field(f, v, Env(D)) = If(~ f.required)
    BY <1>5 DEF Field
  <2>2. DeclaredOk(t, f, v) <=> ~ f.required
    BY <1>5 DEF DeclaredOk
  <2> QED
    BY <2>1, <2>2, PlainVerdicts DEF f, Agrees, If
<1>6. CASE f.name \in DOMAIN v[2] /\ f.nullable /\ KindOf(v[2][f.name]) = "null"
  <2>1. Field(f, v, Env(D)) = Accepted
    BY <1>6 DEF Field
  <2>2. DeclaredOk(t, f, v)
    BY <1>6 DEF DeclaredOk
  <2> QED
    BY <2>1, <2>2, PlainVerdicts DEF f, Agrees
<1>7. CASE f.name \in DOMAIN v[2] /\ ~ (f.nullable /\ KindOf(v[2][f.name]) = "null")
  <2>1. Field(f, v, Env(D)) = Interpret(f.plan, v[2][f.name], {}, Env(D))
    BY <1>7 DEF Field
  <2>2. DeclaredOk(t, f, v) <=> Ok(t, n, v[2][f.name])
    BY <1>7 DEF DeclaredOk, n
  <2>3. <<t, n, v[2][f.name]>> \in MemberWalks(t, o, v)
    BY <1>3, <1>7 DEF MemberWalks
  <2>4. Agrees(Interpret(f.plan, v[2][f.name], {}, Env(D)), Ok(t, n, v[2][f.name]))
    BY <1>1, <1>2, <1>4, <2>3, CallAgrees DEF n
  <2> QED
    BY <2>1, <2>2, <2>4 DEF f, Agrees
<1> QED
  BY <1>5, <1>6, <1>7

(* What the walk of an object asks, apart from how many members it has.    *)
StructureOk(t, e, v) ==
  /\ \A i \in DOMAIN e[2] : DeclaredOk(t, e[2][i], v)
  /\ \A name \in OthersOf(e, v) : UndeclaredOk(t, e, name, v[2][name])

LEMMA MemberIs ==
  ASSUME PlanSetting, NEW t, NEW e, ExprFormed(e), e[1] = "object", Alone(e) # Unsupported, NEW counts,
         NEW v, NEW name \in DOMAIN v[2]
  PROVE  MemberOk(t, Structure(e, counts), name, v[2][name])
           <=> /\ \A i \in DOMAIN e[2] : e[2][i].name = name => DeclaredOk(t, e[2][i], v)
               /\ name \in OthersOf(e, v) => UndeclaredOk(t, e, name, v[2][name])
<1> DEFINE o == Structure(e, counts)
           x == v[2][name]
<1>1. /\ DOMAIN o[2] = DOMAIN e[2] /\ DOMAIN o[3] = DOMAIN e[3] /\ o[4] = CompileOpt(e[4])
      /\ \A i \in DOMAIN e[2] : /\ o[2][i].name = e[2][i].name /\ o[2][i].nullable = e[2][i].nullable
                                /\ o[2][i].inner = CompilePlan(e[2][i].plan)
      /\ \A i \in DOMAIN e[3] : o[3][i][1] = e[3][i][1] /\ o[3][i][2] = CompilePlan(e[3][i][2])
  BY DEF Structure
<1> HIDE DEF o, x
<1>2. /\ Decided(o, name) = {i \in DOMAIN e[3] : MatchString(e[3][i][1], name) = "Match"}
      /\ RulesFor(o, name) = {i \in DOMAIN e[3] : MatchString(e[3][i][1], name) # "NoMatch"}
  BY <1>1 DEF Decided, RulesFor
<1> DEFINE at == {i \in DOMAIN o[2] : o[2][i].name = name}
<1>3. MemberOk(t, o, name, x) <=> IF at # {}
                                  THEN \A i \in at : (o[2][i].nullable /\ KindOf(x) = "null") \/ Ok(t, o[2][i].inner, x)
                                  ELSE /\ \A i \in Decided(o, name) : Ok(t, o[3][i][2], x)
                                       /\ RulesFor(o, name) # {} \/ o[4] = Nil \/ Ok(t, o[4], x)
  BY DEF MemberOk
<1>4. at = {i \in DOMAIN e[2] : e[2][i].name = name}
  BY <1>1
<1> HIDE DEF at
<1>5. at = {} <=> name \in OthersOf(e, v)
  BY <1>4 DEF OthersOf
<1>6. CASE at # {}
  <2>1. MemberOk(t, o, name, x) <=> \A i \in at : (o[2][i].nullable /\ KindOf(x) = "null") \/ Ok(t, o[2][i].inner, x)
    BY <1>3, <1>6
  <2>2. ASSUME NEW i \in at
        PROVE  DeclaredOk(t, e[2][i], v) <=> (o[2][i].nullable /\ KindOf(x) = "null") \/ Ok(t, o[2][i].inner, x)
    <3>1. i \in DOMAIN e[2] /\ e[2][i].name = name
      BY <1>4
    <3> QED
      BY <1>1, <3>1 DEF DeclaredOk, x
  <2> QED
    BY <1>4, <1>5, <1>6, <2>1, <2>2 DEF o, x
<1>7. CASE at = {}
  <2>1. MemberOk(t, o, name, x) <=> /\ \A i \in Decided(o, name) : Ok(t, o[3][i][2], x)
                                    /\ RulesFor(o, name) # {} \/ o[4] = Nil \/ Ok(t, o[4], x)
    BY <1>3, <1>7
  <2>2. (\A i \in Decided(o, name) : Ok(t, o[3][i][2], x))
          <=> \A i \in DOMAIN e[3] : MatchString(e[3][i][1], name) = "Match" => Ok(t, CompilePlan(e[3][i][2]), x)
    BY <1>1, <1>2
  <2>3. RulesFor(o, name) # {} <=> \E i \in DOMAIN e[3] : MatchString(e[3][i][1], name) # "NoMatch"
    BY <1>2
  <2>4. /\ e[4] = <<>> => o[4] = Nil
        /\ e[4] # <<>> => o[4] = CompilePlan(e[4][1]) /\ o[4] # Nil
    <3>1. OptPlan(e[4]) /\ CompileOpt(e[4]) # Unsupported
      BY StructureIs DEF ExprFormed
    <3> QED
      BY <1>1, <3>1, OptIs
  <2>5. MemberOk(t, o, name, x) <=> UndeclaredOk(t, e, name, x)
    BY <2>1, <2>2, <2>3, <2>4 DEF UndeclaredOk
  <2>6. \A i \in DOMAIN e[2] : e[2][i].name # name
    BY <1>4, <1>7
  <2> QED
    BY <1>5, <1>7, <2>5, <2>6 DEF o, x
<1> QED
  BY <1>6, <1>7

LEMMA WalkIs ==
  ASSUME PlanSetting, NEW t, NEW e, ExprFormed(e), e[1] = "object", Alone(e) # Unsupported, NEW counts, NEW v
  PROVE  ObjectOk(t, Structure(e, counts), v)
           <=> StructureOk(t, e, v) /\ BoundsOk(counts, Cardinality(DOMAIN v[2]))
<1> DEFINE o == Structure(e, counts)
           names == [i \in DOMAIN o[2] |-> o[2][i].name]
           listed == [i \in DOMAIN e[2] |-> e[2][i].name]
           required == {i \in DOMAIN o[2] : o[2][i].required}
<1>1. /\ DOMAIN o[2] = DOMAIN e[2] /\ o[5] = counts
      /\ \A i \in DOMAIN e[2] : o[2][i].name = e[2][i].name /\ o[2][i].required = e[2][i].required
  BY DEF Structure
<1>2. ObjectOk(t, o, v) <=> /\ \A name \in DOMAIN v[2] : MemberOk(t, o, name, v[2][name])
                            /\ required \subseteq PresenceOf(names, DOMAIN v[2])
                            /\ BoundsOk(counts, Cardinality(DOMAIN v[2]))
  BY <1>1 DEF ObjectOk
<1>3. ASSUME NEW name \in DOMAIN v[2]
      PROVE  MemberOk(t, o, name, v[2][name])
               <=> /\ \A i \in DOMAIN e[2] : e[2][i].name = name => DeclaredOk(t, e[2][i], v)
                   /\ name \in OthersOf(e, v) => UndeclaredOk(t, e, name, v[2][name])
  BY MemberIs
<1>4. PresenceOf(names, DOMAIN v[2]) = {i \in DOMAIN e[2] : e[2][i].name \in DOMAIN v[2]}
  <2>1. names = listed
    BY <1>1
  <2>2. IsList(e[2]) /\ IsInjective(listed)
    BY DEF ExprFormed, FieldsFormed
  <2>3. DOMAIN e[2] = 1 .. Len(e[2]) /\ Len(e[2]) \in Nat
    BY <2>2, ListIndexes
  <2>4. \A i \in 1 .. Len(e[2]) : listed[i] = e[2][i].name
    BY <2>3
  <2>5. listed = [i \in 1 .. Len(e[2]) |-> listed[i]] /\ DOMAIN listed = DOMAIN e[2]
    BY <2>3
  <2> HIDE DEF listed, names
  <2>6. listed \in Seq({listed[i] : i \in 1 .. Len(e[2])})
    BY <2>3, <2>5, MappedIsSeq
  <2>7. IsList(listed)
    BY <2>6, SeqIsList
  <2>8. PresenceOf(listed, DOMAIN v[2]) = {i \in DOMAIN listed : listed[i] \in DOMAIN v[2]}
    BY <2>2, <2>7, PresenceIs
  <2> QED
    BY <2>1, <2>3, <2>4, <2>5, <2>8
<1>5. required \subseteq PresenceOf(names, DOMAIN v[2])
        <=> \A i \in DOMAIN e[2] : e[2][i].name \notin DOMAIN v[2] => ~ e[2][i].required
  <2>1. required = {i \in DOMAIN e[2] : e[2][i].required}
    BY <1>1
  <2> HIDE DEF required, names
  <2> QED
    BY <1>4, <2>1
<1> HIDE DEF o, names, required
<1>6. ASSUME NEW i \in DOMAIN e[2], e[2][i].name \notin DOMAIN v[2]
      PROVE  DeclaredOk(t, e[2][i], v) <=> ~ e[2][i].required
  BY <1>6 DEF DeclaredOk
<1>7. (\A name \in DOMAIN v[2] : MemberOk(t, o, name, v[2][name]))
        <=> /\ \A i \in DOMAIN e[2] : e[2][i].name \in DOMAIN v[2] => DeclaredOk(t, e[2][i], v)
            /\ \A name \in OthersOf(e, v) : UndeclaredOk(t, e, name, v[2][name])
  <2>1. \A name \in OthersOf(e, v) : name \in DOMAIN v[2]
    BY DEF OthersOf
  <2> QED
    BY <1>3, <2>1
<1>8. StructureOk(t, e, v)
        <=> /\ \A i \in DOMAIN e[2] : e[2][i].name \in DOMAIN v[2] => DeclaredOk(t, e[2][i], v)
            /\ \A i \in DOMAIN e[2] : e[2][i].name \notin DOMAIN v[2] => ~ e[2][i].required
            /\ \A name \in OthersOf(e, v) : UndeclaredOk(t, e, name, v[2][name])
  BY <1>6 DEF StructureOk
<1> QED
  BY <1>2, <1>5, <1>7, <1>8 DEF o

LEMMA ObjectAgrees ==
  ASSUME PlanSetting, NEW t, NEW D, NEW v, NEW e, NEW active, Ready(t, D, v, e), e[1] = "object"
  PROVE  Agrees(Predicate(e, v, active, Env(D)), Said(t, e, v))
<1> DEFINE o == Structure(e, NoBounds)
<1>1. Alone(e) = o /\ o # Nil
  BY StructureIs DEF Ready
<1>2. OkBy(t, o, v) <=> (KindOf(v) = "object" => ObjectOk(t, o, v))
  BY DEF OkBy, Structure
<1>3. ObjectOk(t, o, v) <=> StructureOk(t, e, v)
  <2>1. BoundsOk(NoBounds, Cardinality(DOMAIN v[2]))
    BY DEF BoundsOk, NoBounds
  <2> QED
    BY <2>1, WalkIs DEF Ready
<1>4. Said(t, e, v) <=> (KindOf(v) = "object" => StructureOk(t, e, v))
  <2> HIDE DEF o
  <2> QED
    BY <1>1, <1>2, <1>3 DEF Said
<1>5. Predicate(e, v, active, Env(D)) = IF KindOf(v) = "object" THEN ObjectAgainst(e, v, Env(D)) ELSE Accepted
  BY DEF Predicate
<1> HIDE DEF o
<1>6. CASE KindOf(v) # "object"
  BY <1>4, <1>5, <1>6, PlainVerdicts DEF Agrees
<1>7. CASE KindOf(v) = "object"
  <2> DEFINE field == [i \in DOMAIN e[2] |-> Field(e[2][i], v, Env(D))]
             wrong == {i \in DOMAIN e[2] : ~ DeclaredOk(t, e[2][i], v)}
             declared == InTurn(field, Len(e[2]))
             names == Listed(Names, OthersOf(e, v))
             member == [i \in DOMAIN names |-> Undeclared(e, names[i], v[2][names[i]], Env(D))]
             bad == {i \in DOMAIN names : ~ UndeclaredOk(t, e, names[i], v[2][names[i]])}
             others == InTurn(member, Len(names))
  <2>1. IsList(e[2])
    BY DEF Ready, ExprFormed, FieldsFormed
  <2>2. DOMAIN e[2] = 1 .. Len(e[2]) /\ Len(e[2]) \in Nat
    BY <2>1, ListIndexes
  <2>3. IsList(names) /\ Set(names) = OthersOf(e, v)
    <3>1. PICK c \in Walks : c[3] = v
      BY DEF Ready
    <3>2. IsList(Names) /\ DOMAIN v[2] \subseteq Set(Names)
      BY <1>7, <3>1 DEF PlanSetting, Setting, Instance
    <3>3. names \in Seq(Set(Names)) /\ Set(names) = Set(Names) \cap OthersOf(e, v)
      BY <3>2, ListedHolds
    <3> HIDE DEF names
    <3>4. IsList(names)
      BY <3>3, SeqIsList
    <3> QED
      BY <3>2, <3>3, <3>4 DEF OthersOf
  <2>4. ObjectAgainst(e, v, Env(D)) = IF declared.verdict # "accepted" THEN declared ELSE After(declared, others)
    BY DEF ObjectAgainst, Env, OthersOf
  <2> HIDE DEF names
  <2>5. DOMAIN names = 1 .. Len(names) /\ Len(names) \in Nat
    BY <2>3, ListIndexes
  <2>6. ASSUME NEW i \in 1 .. Len(e[2]) PROVE Agrees(field[i], i \notin wrong)
    <3>1. i \in DOMAIN e[2] /\ field[i] = Field(e[2][i], v, Env(D))
      BY <2>2
    <3>2. i \notin wrong <=> DeclaredOk(t, e[2][i], v)
      BY <3>1
    <3>3. Agrees(Field(e[2][i], v, Env(D)), DeclaredOk(t, e[2][i], v))
      BY <1>7, <3>1, DeclaredAgrees
    <3> HIDE DEF field, wrong
    <3> QED
      BY <3>1, <3>2, <3>3 DEF Agrees
  <2>7. ASSUME NEW i \in 1 .. Len(names) PROVE Agrees(member[i], i \notin bad)
    <3>1. i \in DOMAIN names /\ member[i] = Undeclared(e, names[i], v[2][names[i]], Env(D))
      BY <2>5
    <3>2. i \notin bad <=> UndeclaredOk(t, e, names[i], v[2][names[i]])
      BY <3>1
    <3>3. names[i] \in OthersOf(e, v)
      BY <2>3, <3>1 DEF Set
    <3>4. Agrees(Undeclared(e, names[i], v[2][names[i]], Env(D)), UndeclaredOk(t, e, names[i], v[2][names[i]]))
      BY <1>7, <3>3, UndeclaredAgrees
    <3> HIDE DEF member, bad
    <3> QED
      BY <3>1, <3>2, <3>4 DEF Agrees
  <2>8. (\A i \in 1 .. Len(e[2]) : i \notin wrong) <=> \A i \in DOMAIN e[2] : DeclaredOk(t, e[2][i], v)
    BY <2>2
  <2>9. (\A i \in 1 .. Len(names) : i \notin bad)
          <=> \A name \in OthersOf(e, v) : UndeclaredOk(t, e, name, v[2][name])
    BY <2>3, <2>5 DEF Set
  <2> HIDE DEF field, member, wrong, bad
  <2>10. Agrees(declared, \A i \in 1 .. Len(e[2]) : i \notin wrong)
    BY <2>2, <2>6, InTurnAgrees
  <2>11. Agrees(others, \A i \in 1 .. Len(names) : i \notin bad)
    BY <2>5, <2>7, InTurnAgrees
  <2>12. StructureOk(t, e, v) <=> (\A i \in 1 .. Len(e[2]) : i \notin wrong) /\ \A i \in 1 .. Len(names) : i \notin bad
    BY <2>8, <2>9 DEF StructureOk
  <2> HIDE DEF declared, others
  <2> DEFINE r == IF declared.verdict # "accepted" THEN declared ELSE After(declared, others)
  <2>13. declared \in Verdicts /\ others \in Verdicts
    BY <2>10, <2>11 DEF Agrees
  <2>14. /\ r \in Verdicts
         /\ r.verdict = "accepted" => declared.verdict = "accepted" /\ others.verdict = "accepted"
         /\ r.verdict = "rejected" => declared.verdict = "rejected" \/ others.verdict = "rejected"
    BY <2>13, ThenIs
  <2> HIDE DEF r
  <2>15. Agrees(r, StructureOk(t, e, v))
    BY <2>10, <2>11, <2>12, <2>14 DEF Agrees
  <2>16. Predicate(e, v, active, Env(D)) = r
    BY <1>5, <1>7, <2>4 DEF r
  <2>17. Said(t, e, v) <=> StructureOk(t, e, v)
    BY <1>4, <1>7
  <2> QED
    BY <2>15, <2>16, <2>17 DEF Agrees
<1> QED
  BY <1>6, <1>7

(* The verdict on an expression, and what its node says.                   *)
LEMMA ExprAgrees ==
  ASSUME PlanSetting, NEW t, NEW D, NEW v, NEW e, NEW active \in SUBSET DOMAIN t, Ready(t, D, v, e)
  PROVE  Agrees(Predicate(e, v, active, Env(D)), Said(t, e, v))
<1>1. e[1] \in ExprForms
  BY DEF Ready, ExprFormed
<1>2. CASE e[1] \in {"nil", "format", "pattern", "minimum", "multipleOf", "domain", "minItems", "maxItems",
                     "minProperties", "maxProperties", "uniqueItems"}
  BY <1>2, LeafAgrees
<1>3. CASE e[1] = "not"
  BY <1>3, NotAgrees
<1>4. CASE e[1] = "shape"
  BY <1>4, ShapeAgrees
<1>5. CASE e[1] = "reference"
  BY <1>5, ReferenceAgrees
<1>6. CASE e[1] = "contains"
  BY <1>6, ContainsAgrees
<1>7. CASE e[1] = "propertyNames"
  BY <1>7, PropertyNamesAgree
<1>8. CASE e[1] = "array"
  BY <1>8, ArrayAgrees
<1>9. CASE e[1] = "object"
  BY <1>9, ObjectAgrees
<1>10. CASE e[1] = "required"
  BY <1>10, RequiredAgrees
<1>11. CASE e[1] = "dependent"
  BY <1>11, DependentAgrees
<1> QED
  BY <1>1, <1>2, <1>3, <1>4, <1>5, <1>6, <1>7, <1>8, <1>9, <1>10, <1>11 DEF ExprForms

-----------------------------------------------------------------------------
(* Checks that are made elsewhere.                                         *)

LEMMA FoldedIs ==
  ASSUME NEW checks, IsList(checks), NEW keyword, NEW type
  PROVE  /\ \A i, j \in Folded(checks, keyword, type) : i = j
         /\ \A i \in Folded(checks, keyword, type) :
              /\ i \in DOMAIN checks /\ checks[i].expr[1] = keyword /\ ~ checks[i].assert
              /\ \E j \in DOMAIN checks : /\ ~ checks[j].assert /\ checks[j].expr[1] = type
                                          /\ checks[j].on = checks[i].on
<1> DEFINE at == {i \in DOMAIN checks : checks[i].expr[1] = keyword /\ Foldable(checks, i, type)}
           least == CHOOSE i \in at : \A j \in at : i <= j
<1>1. at \in SUBSET Nat
  BY ListIndexes
<1>2. Folded(checks, keyword, type) = IF at = {} THEN {} ELSE {least}
  BY DEF Folded
<1>3. at # {} => least \in at
  <2> HIDE DEF at
  <2>1. at # {} => \E i \in at : \A j \in at : i <= j
    BY <1>1, HasLeast
  <2> QED
    BY <2>1
<1>4. ASSUME NEW i \in at
      PROVE  /\ i \in DOMAIN checks /\ checks[i].expr[1] = keyword /\ ~ checks[i].assert
             /\ \E j \in DOMAIN checks : /\ ~ checks[j].assert /\ checks[j].expr[1] = type
                                         /\ checks[j].on = checks[i].on
  BY DEF Foldable, LoneStructure
<1> HIDE DEF at, least
<1> QED
  BY <1>2, <1>3, <1>4

(* What a count is held to: every bound that was folded.                   *)
LEMMA BoundIs ==
  ASSUME NEW checks, IsList(checks), NEW keyword, NEW type
  PROVE  LET S == {checks[i].expr[2] : i \in Folded(checks, keyword, type)}
             b == IF S = {} THEN <<>> ELSE <<CHOOSE x \in S : TRUE>>
         IN  /\ b = <<>> <=> Folded(checks, keyword, type) = {}
             /\ \A i \in Folded(checks, keyword, type) : b[1] = checks[i].expr[2]
<1> DEFINE at == Folded(checks, keyword, type)
           S == {checks[i].expr[2] : i \in at}
           b == IF S = {} THEN <<>> ELSE <<CHOOSE x \in S : TRUE>>
<1>0. \A i, j \in at : i = j
  BY FoldedIs
<1>1. CASE at = {}
  <2>1. S = {}
    BY <1>1
  <2> QED
    BY <1>1, <2>1
<1>2. CASE at # {}
  <2>0. PICK i \in at : TRUE
    BY <1>2
  <2>1. at = {i}
    BY <1>0, <2>0
  <2>2. S = {checks[i].expr[2]}
    BY <2>1
  <2> HIDE DEF S
  <2>3. (CHOOSE x \in S : TRUE) = checks[i].expr[2] /\ S # {}
    BY <2>2
  <2>4. b = <<checks[i].expr[2]>>
    BY <2>3
  <2>5. b # <<>> /\ b[1] = checks[i].expr[2]
    BY <2>4
  <2> HIDE DEF b, at
  <2>6. (b = <<>> <=> at = {}) /\ \A k \in at : b[1] = checks[k].expr[2]
    BY <2>1, <2>5
  <2> QED
    BY <2>6 DEF b, S, at
<1> QED
  BY <1>1, <1>2

LEMMA FusionIs ==
  ASSUME NEW checks, IsList(checks)
  PROVE  LET f == Fusion(checks)
         IN  /\ f.skip = UNION {Folded(checks, "minProperties", "object"), Folded(checks, "maxProperties", "object"),
                                Folded(checks, "minItems", "array"), Folded(checks, "maxItems", "array"),
                                {i \in DOMAIN checks : /\ ~ checks[i].assert
                                                       /\ checks[i].expr[1] = "required"
                                                       /\ RequiredIsRestated(checks, i)}}
             /\ \A n : BoundsOk(f.object, n)
                         <=> /\ \A i \in Folded(checks, "minProperties", "object") : n >= checks[i].expr[2]
                             /\ \A i \in Folded(checks, "maxProperties", "object") : n <= checks[i].expr[2]
             /\ \A n : BoundsOk(f.array, n)
                         <=> /\ \A i \in Folded(checks, "minItems", "array") : n >= checks[i].expr[2]
                             /\ \A i \in Folded(checks, "maxItems", "array") : n <= checks[i].expr[2]
<1> DEFINE f == Fusion(checks)
           Bound(keyword, type) == {checks[i].expr[2] : i \in Folded(checks, keyword, type)}
           Opt(S) == IF S = {} THEN <<>> ELSE <<CHOOSE x \in S : TRUE>>
<1>1. f = [skip |-> UNION {Folded(checks, "minProperties", "object"), Folded(checks, "maxProperties", "object"),
                           Folded(checks, "minItems", "array"), Folded(checks, "maxItems", "array"),
                           {i \in DOMAIN checks : /\ ~ checks[i].assert
                                                  /\ checks[i].expr[1] = "required"
                                                  /\ RequiredIsRestated(checks, i)}},
           object |-> [min |-> Opt(Bound("minProperties", "object")), max |-> Opt(Bound("maxProperties", "object"))],
           array |-> [min |-> Opt(Bound("minItems", "array")), max |-> Opt(Bound("maxItems", "array"))]]
  BY DEF Fusion
<1>2. \A keyword, type :
        /\ Opt(Bound(keyword, type)) = <<>> <=> Folded(checks, keyword, type) = {}
        /\ \A i \in Folded(checks, keyword, type) : Opt(Bound(keyword, type))[1] = checks[i].expr[2]
  BY BoundIs
<1> HIDE DEF f, Opt, Bound
<1>3. /\ f.object.min = Opt(Bound("minProperties", "object")) /\ f.object.max = Opt(Bound("maxProperties", "object"))
      /\ f.array.min = Opt(Bound("minItems", "array")) /\ f.array.max = Opt(Bound("maxItems", "array"))
  BY <1>1
<1>4. ASSUME NEW n
      PROVE  BoundsOk(f.object, n)
               <=> /\ \A i \in Folded(checks, "minProperties", "object") : n >= checks[i].expr[2]
                   /\ \A i \in Folded(checks, "maxProperties", "object") : n <= checks[i].expr[2]
  <2>1. (f.object.min # <<>> => n >= f.object.min[1])
          <=> \A i \in Folded(checks, "minProperties", "object") : n >= checks[i].expr[2]
    BY <1>2, <1>3
  <2>2. (f.object.max # <<>> => n <= f.object.max[1])
          <=> \A i \in Folded(checks, "maxProperties", "object") : n <= checks[i].expr[2]
    BY <1>2, <1>3
  <2> QED
    BY <2>1, <2>2 DEF BoundsOk
<1>5. ASSUME NEW n
      PROVE  BoundsOk(f.array, n)
               <=> /\ \A i \in Folded(checks, "minItems", "array") : n >= checks[i].expr[2]
                   /\ \A i \in Folded(checks, "maxItems", "array") : n <= checks[i].expr[2]
  <2>1. (f.array.min # <<>> => n >= f.array.min[1])
          <=> \A i \in Folded(checks, "minItems", "array") : n >= checks[i].expr[2]
    BY <1>2, <1>3
  <2>2. (f.array.max # <<>> => n <= f.array.max[1])
          <=> \A i \in Folded(checks, "maxItems", "array") : n <= checks[i].expr[2]
    BY <1>2, <1>3
  <2> QED
    BY <2>1, <2>2 DEF BoundsOk
<1>6. f.skip = UNION {Folded(checks, "minProperties", "object"), Folded(checks, "maxProperties", "object"),
                      Folded(checks, "minItems", "array"), Folded(checks, "maxItems", "array"),
                      {i \in DOMAIN checks : /\ ~ checks[i].assert
                                             /\ checks[i].expr[1] = "required"
                                             /\ RequiredIsRestated(checks, i)}}
  BY <1>1
<1> QED
  BY <1>4, <1>5, <1>6 DEF f

(* The node of an expression that bounds are folded into says what it says *)
(* alone, and what they say.                                               *)
FusedSaid(t, e, f, v) ==
  /\ Said(t, e, v)
  /\ e[1] = "object" /\ KindOf(v) = "object" => BoundsOk(f.object, Cardinality(DOMAIN v[2]))
  /\ e[1] = "array" /\ KindOf(v) = "array" => BoundsOk(f.array, Len(v[2]))

FusedNode(t, e, f, v) ==
  /\ Alone(e) # Unsupported
  /\ CompileExpr(e, f) = Nil <=> Alone(e) = Nil
  /\ Parts(t, CompileExpr(e, f), v) = Parts(t, Alone(e), v)
  /\ CompileExpr(e, f) = Nil \/ OkBy(t, CompileExpr(e, f), v) <=> FusedSaid(t, e, f, v)

LEMMA FusedObjectIs ==
  ASSUME PlanSetting, NEW t, NEW v, NEW e, ExprFormed(e), e[1] = "object",
         NEW f, CompileExpr(e, f) # Unsupported
  PROVE  FusedNode(t, e, f, v)
<1> DEFINE bounds == f.object
           n == Structure(e, bounds)
           o == Structure(e, NoBounds)
<1>1. CompileExpr(e, f) = CompileObject(e, bounds) /\ Alone(e) = CompileObject(e, NoBounds)
  BY DEF CompileExpr, Alone, Unfused
<1>2. Alone(e) # Unsupported
  <2> DEFINE inner == [i \in DOMAIN e[2] |-> CompilePlan(e[2][i].plan)]
             ruled == [i \in DOMAIN e[3] |-> CompilePlan(e[3][i][2])]
             bad == Unsupported \in Set(inner) \cup Set(ruled) \cup {CompileOpt(e[4])}
  <2>1. bad => CompileObject(e, bounds) = Unsupported
    BY DEF CompileObject
  <2>2. ~ bad => CompileObject(e, NoBounds)[1] = "objectStructure"
    BY DEF CompileObject
  <2> HIDE DEF bad
  <2> QED
    BY <1>1, <2>1, <2>2 DEF Unsupported
<1>3. CompileExpr(e, f) = n /\ Alone(e) = o /\ n # Nil /\ o # Nil
  BY <1>1, <1>2, StructureIs DEF Structure, Nil
<1>4. Parts(t, n, v) = Parts(t, o, v)
  <2>1. MemberWalks(t, n, v) = MemberWalks(t, o, v)
    BY DEF MemberWalks, OtherNames, Structure
  <2>2. /\ Parts(t, n, v) = (IF KindOf(v) = "object" THEN MemberWalks(t, n, v) ELSE {})
        /\ Parts(t, o, v) = (IF KindOf(v) = "object" THEN MemberWalks(t, o, v) ELSE {})
    BY DEF Parts, Structure
  <2> QED
    BY <2>1, <2>2
<1>5. /\ OkBy(t, n, v) <=> (KindOf(v) = "object" => ObjectOk(t, n, v))
      /\ OkBy(t, o, v) <=> (KindOf(v) = "object" => ObjectOk(t, o, v))
  BY DEF OkBy, Structure
<1>6. /\ ObjectOk(t, n, v) <=> StructureOk(t, e, v) /\ BoundsOk(bounds, Cardinality(DOMAIN v[2]))
      /\ ObjectOk(t, o, v) <=> StructureOk(t, e, v)
  <2>1. BoundsOk(NoBounds, Cardinality(DOMAIN v[2]))
    BY DEF BoundsOk, NoBounds
  <2> HIDE DEF bounds
  <2> QED
    BY <1>2, <2>1, WalkIs
<1> HIDE DEF n, o
<1>7. Said(t, e, v) <=> OkBy(t, o, v)
  BY <1>3 DEF Said
<1>8. CompileExpr(e, f) = Nil \/ OkBy(t, CompileExpr(e, f), v) <=> FusedSaid(t, e, f, v)
  BY <1>3, <1>5, <1>6, <1>7 DEF FusedSaid
<1> QED
  BY <1>2, <1>3, <1>4, <1>8 DEF FusedNode

LEMMA FusedArrayIs ==
  ASSUME NEW t, NEW v, NEW e, e[1] = "array", NEW f, CompileExpr(e, f) # Unsupported
  PROVE  FusedNode(t, e, f, v)
<1> DEFINE bounds == f.array
           prefix == CompileEach(e[2])
           rest == CompileOpt(e[3])
           bad == Unsupported \in Set(prefix) \cup {rest}
           Walk(b) == <<"arrayStructure", prefix, rest, b>>
           n == Walk(bounds)
           o == Walk(NoBounds)
<1>1. CompileExpr(e, f) = CompileArray(e, bounds) /\ Alone(e) = CompileArray(e, NoBounds)
  BY DEF CompileExpr, Alone, Unfused
<1>2. \A b : CompileArray(e, b) = IF bad THEN Unsupported ELSE Walk(b)
  BY DEF CompileArray
<1>3. CompileExpr(e, f) = n /\ Alone(e) = o /\ n # Nil /\ o # Nil /\ o # Unsupported
  <2>1. n # Nil /\ o # Nil /\ o # Unsupported
    BY DEF Nil, Unsupported
  <2> HIDE DEF bad, Walk, bounds
  <2> QED
    BY <1>1, <1>2, <2>1
<1>4. Parts(t, n, v) = Parts(t, o, v)
  <2>1. ElementWalks(t, n, v) = ElementWalks(t, o, v)
    BY DEF ElementWalks
  <2>2. /\ Parts(t, n, v) = (IF KindOf(v) = "array" THEN ElementWalks(t, n, v) ELSE {})
        /\ Parts(t, o, v) = (IF KindOf(v) = "array" THEN ElementWalks(t, o, v) ELSE {})
    BY DEF Parts
  <2> QED
    BY <2>1, <2>2
<1>5. /\ OkBy(t, n, v) <=> (KindOf(v) = "array" => ArrayOk(t, n, v))
      /\ OkBy(t, o, v) <=> (KindOf(v) = "array" => ArrayOk(t, o, v))
  BY DEF OkBy
<1>6. ArrayOk(t, n, v) <=> ArrayOk(t, o, v) /\ BoundsOk(bounds, Len(v[2]))
  <2> DEFINE ItemOk(i) == CASE i <= Len(prefix) -> Ok(t, prefix[i], v[2][i])
                            [] i > Len(prefix) /\ rest # Nil -> Ok(t, rest, v[2][i])
                            [] OTHER -> FALSE
             len == Len(v[2])
  <2>1. /\ ArrayOk(t, n, v) <=> (\A i \in DOMAIN v[2] : ItemOk(i)) /\ BoundsOk(bounds, len)
        /\ ArrayOk(t, o, v) <=> (\A i \in DOMAIN v[2] : ItemOk(i)) /\ BoundsOk(NoBounds, len)
    BY DEF ArrayOk
  <2>2. BoundsOk(NoBounds, len)
    BY DEF BoundsOk, NoBounds
  <2> HIDE DEF ItemOk, n, o, bounds
  <2> QED
    BY <2>1, <2>2
<1> HIDE DEF n, o, bounds
<1>7. Said(t, e, v) <=> OkBy(t, o, v)
  BY <1>3 DEF Said
<1>8. FusedSaid(t, e, f, v) <=> Said(t, e, v) /\ (KindOf(v) = "array" => BoundsOk(bounds, Len(v[2])))
  BY DEF FusedSaid, bounds
<1>9. CompileExpr(e, f) = Nil \/ OkBy(t, CompileExpr(e, f), v) <=> FusedSaid(t, e, f, v)
  BY <1>3, <1>5, <1>6, <1>7, <1>8
<1> QED
  BY <1>3, <1>4, <1>9 DEF FusedNode

LEMMA FusedIs ==
  ASSUME PlanSetting, NEW t, NEW v, NEW e, ExprFormed(e), NEW f, CompileExpr(e, f) # Unsupported
  PROVE  FusedNode(t, e, f, v)
<1>1. CASE e[1] = "object"
  BY <1>1, FusedObjectIs
<1>2. CASE e[1] = "array"
  BY <1>2, FusedArrayIs
<1>3. CASE e[1] \notin {"object", "array"}
  <2>1. CompileExpr(e, f) = Alone(e)
    BY <1>3 DEF CompileExpr, Alone
  <2>2. FusedSaid(t, e, f, v) <=> Said(t, e, v)
    BY <1>3 DEF FusedSaid
  <2> QED
    BY <2>1, <2>2 DEF FusedNode, Said
<1> QED
  BY <1>1, <1>2, <1>3

CountKeywords == {"minProperties", "maxProperties", "minItems", "maxItems"}

CountedAs(keyword, v, bound) ==
  CASE keyword = "minProperties" -> KindOf(v) = "object" => Cardinality(DOMAIN v[2]) >= bound
    [] keyword = "maxProperties" -> KindOf(v) = "object" => Cardinality(DOMAIN v[2]) <= bound
    [] keyword = "minItems"      -> KindOf(v) = "array" => Len(v[2]) >= bound
    [] keyword = "maxItems"      -> KindOf(v) = "array" => Len(v[2]) <= bound

LEMMA CountSays ==
  ASSUME NEW t, NEW v, NEW e, e[1] \in CountKeywords
  PROVE  Said(t, e, v) <=> CountedAs(e[1], v, e[2])
<1>1. Alone(e) = e /\ e # Nil
  BY DEF Alone, CompileExpr, CountKeywords, Nil
<1>2. Said(t, e, v) <=> OkBy(t, e, v)
  BY <1>1 DEF Said
<1>3. CASE e[1] = "minProperties"
  <2>1. OkBy(t, e, v) <=> ObjectTestOk(t, e, v)
    BY <1>3 DEF OkBy
  <2>2. ObjectTestOk(t, e, v) <=> CountedAs(e[1], v, e[2])
    BY <1>3 DEF ObjectTestOk, CountedAs
  <2> QED
    BY <1>2, <2>1, <2>2
<1>4. CASE e[1] = "maxProperties"
  <2>1. OkBy(t, e, v) <=> ObjectTestOk(t, e, v)
    BY <1>4 DEF OkBy
  <2>2. ObjectTestOk(t, e, v) <=> CountedAs(e[1], v, e[2])
    BY <1>4 DEF ObjectTestOk, CountedAs
  <2> QED
    BY <1>2, <2>1, <2>2
<1>5. CASE e[1] = "minItems"
  <2>1. OkBy(t, e, v) <=> ArrayTestOk(t, e, v)
    BY <1>5 DEF OkBy
  <2>2. ArrayTestOk(t, e, v) <=> CountedAs(e[1], v, e[2])
    BY <1>5 DEF ArrayTestOk, CountedAs
  <2> QED
    BY <1>2, <2>1, <2>2
<1>6. CASE e[1] = "maxItems"
  <2>1. OkBy(t, e, v) <=> ArrayTestOk(t, e, v)
    BY <1>6 DEF OkBy
  <2>2. ArrayTestOk(t, e, v) <=> CountedAs(e[1], v, e[2])
    BY <1>6 DEF ArrayTestOk, CountedAs
  <2> QED
    BY <1>2, <2>1, <2>2
<1> QED
  BY <1>3, <1>4, <1>5, <1>6 DEF CountKeywords

(* A check: outside its guard it passes, unless it asserts it.             *)
CheckOk(t, g, v) == IF KindOf(v) \in g.on THEN Said(t, g.expr, v) ELSE ~ g.assert

FusedOk(t, g, f, v) == IF KindOf(v) \in g.on THEN FusedSaid(t, g.expr, f, v) ELSE ~ g.assert

(* What the checks that are left say with what was folded into them, all   *)
(* checks say.                                                             *)
LEMMA FusionLosesNothing ==
  ASSUME PlanSetting, NEW p \in Plans, NEW t, NEW v,
         \A i \in DOMAIN p.checks \ Fusion(p.checks).skip :
           CompileExpr(p.checks[i].expr, Fusion(p.checks)) # Unsupported
  PROVE  (\A i \in DOMAIN p.checks \ Fusion(p.checks).skip : FusedOk(t, p.checks[i], Fusion(p.checks), v))
           <=> \A i \in DOMAIN p.checks : CheckOk(t, p.checks[i], v)
<1> DEFINE checks == p.checks
           f == Fusion(checks)
           Restated == {i \in DOMAIN checks : /\ ~ checks[i].assert
                                              /\ checks[i].expr[1] = "required"
                                              /\ RequiredIsRestated(checks, i)}
           Pairs == {<<"minProperties", "object">>, <<"maxProperties", "object">>,
                     <<"minItems", "array">>, <<"maxItems", "array">>}
<1>1. IsList(checks) /\ \A i \in DOMAIN checks : GuardFormed(checks[i]) /\ ExprFormed(checks[i].expr)
  BY DEF PlanSetting, PlansFormed
<1>2. /\ f.skip = UNION {Folded(checks, "minProperties", "object"), Folded(checks, "maxProperties", "object"),
                         Folded(checks, "minItems", "array"), Folded(checks, "maxItems", "array"), Restated}
      /\ \A n : BoundsOk(f.object, n)
                  <=> /\ \A i \in Folded(checks, "minProperties", "object") : n >= checks[i].expr[2]
                      /\ \A i \in Folded(checks, "maxProperties", "object") : n <= checks[i].expr[2]
      /\ \A n : BoundsOk(f.array, n)
                  <=> /\ \A i \in Folded(checks, "minItems", "array") : n >= checks[i].expr[2]
                      /\ \A i \in Folded(checks, "maxItems", "array") : n <= checks[i].expr[2]
  BY <1>1, FusionIs
<1>3. \A keyword, type : \A i \in Folded(checks, keyword, type) :
        /\ i \in DOMAIN checks /\ checks[i].expr[1] = keyword /\ ~ checks[i].assert
        /\ \E j \in DOMAIN checks : /\ ~ checks[j].assert /\ checks[j].expr[1] = type
                                    /\ checks[j].on = checks[i].on
  BY <1>1, FoldedIs
<1>4. \A i \in f.skip : checks[i].expr[1] \notin {"object", "array"}
  BY <1>2, <1>3
<1>5. \A i \in DOMAIN checks \ f.skip : CompileExpr(checks[i].expr, f) # Unsupported
  OBVIOUS
<1> HIDE DEF f, checks
<1>6. ASSUME \A i \in DOMAIN checks \ f.skip : FusedOk(t, checks[i], f, v), NEW i \in DOMAIN checks
      PROVE  CheckOk(t, checks[i], v)
  <2>1. CASE i \notin f.skip
    <3>1. FusedOk(t, checks[i], f, v)
      BY <1>6, <2>1
    <3> QED
      BY <3>1 DEF FusedOk, CheckOk, FusedSaid
  <2>2. ASSUME NEW x \in Pairs, i \in Folded(checks, x[1], x[2]) PROVE CheckOk(t, checks[i], v)
    <3>1. /\ checks[i].expr[1] = x[1] /\ ~ checks[i].assert
          /\ \E j \in DOMAIN checks : /\ ~ checks[j].assert /\ checks[j].expr[1] = x[2]
                                      /\ checks[j].on = checks[i].on
      BY <1>3, <2>2
    <3>2. PICK j \in DOMAIN checks : checks[j].expr[1] = x[2] /\ checks[j].on = checks[i].on
      BY <3>1
    <3>3. x[1] \in CountKeywords /\ x[2] \in {"object", "array"}
      BY DEF CountKeywords
    <3>4. j \notin f.skip
      BY <1>4, <3>2, <3>3
    <3>5. KindOf(v) \in checks[i].on => FusedSaid(t, checks[j].expr, f, v)
      BY <1>6, <3>2, <3>4 DEF FusedOk
    <3>6. FusedSaid(t, checks[j].expr, f, v) => CountedAs(x[1], v, checks[i].expr[2])
      <4>1. CASE x = <<"minProperties", "object">>
        BY <1>2, <2>2, <3>2, <4>1 DEF FusedSaid, CountedAs
      <4>2. CASE x = <<"maxProperties", "object">>
        BY <1>2, <2>2, <3>2, <4>2 DEF FusedSaid, CountedAs
      <4>3. CASE x = <<"minItems", "array">>
        BY <1>2, <2>2, <3>2, <4>3 DEF FusedSaid, CountedAs
      <4>4. CASE x = <<"maxItems", "array">>
        BY <1>2, <2>2, <3>2, <4>4 DEF FusedSaid, CountedAs
      <4> QED
        BY <4>1, <4>2, <4>3, <4>4
    <3>7. Said(t, checks[i].expr, v) <=> CountedAs(x[1], v, checks[i].expr[2])
      BY <3>1, <3>3, CountSays
    <3> QED
      BY <3>1, <3>5, <3>6, <3>7 DEF CheckOk
  <2>3. CASE i \in Restated
    <3>1. /\ ~ checks[i].assert /\ checks[i].expr[1] = "required" /\ RequiredIsRestated(checks, i)
      BY <2>3
    <3>2. PICK j \in DOMAIN checks :
            /\ checks[j].expr[1] = "object" /\ checks[j].on = checks[i].on
            /\ StructureRequires(checks[j].expr, checks[i].expr[2])
      BY <3>1 DEF RequiredIsRestated
    <3>3. j \notin f.skip
      BY <1>4, <3>2
    <3>4. IsList(checks[i].expr[2])
      BY <1>1, <3>1 DEF ExprFormed
    <3>5. Said(t, checks[i].expr, v) <=> (KindOf(v) = "object" => Set(checks[i].expr[2]) \subseteq DOMAIN v[2])
      BY <3>1, <3>4, RequiredSays
    <3>6. KindOf(v) \in checks[i].on => FusedSaid(t, checks[j].expr, f, v)
      BY <1>6, <3>2, <3>3 DEF FusedOk
    <3>7. ASSUME FusedSaid(t, checks[j].expr, f, v), KindOf(v) = "object"
          PROVE  Set(checks[i].expr[2]) \subseteq DOMAIN v[2]
      <4> DEFINE e == checks[j].expr
                 o == Structure(e, NoBounds)
      <4>1. ExprFormed(e) /\ e[1] = "object" /\ CompileExpr(e, f) # Unsupported
        BY <1>1, <1>5, <3>2, <3>3
      <4> HIDE DEF e
      <4>2. Alone(e) # Unsupported
        BY <4>1, FusedIs DEF FusedNode
      <4>3. Alone(e) = o /\ Alone(e) # Nil
        BY <4>1, <4>2, StructureIs
      <4>4. OkBy(t, o, v) <=> ObjectOk(t, o, v)
        BY <3>7 DEF OkBy, Structure
      <4>5. OkBy(t, Alone(e), v)
        BY <3>7, <4>3 DEF FusedSaid, Said, e
      <4>6. ObjectOk(t, o, v)
        BY <4>3, <4>4, <4>5
      <4> HIDE DEF o
      <4>7. StructureOk(t, e, v)
        BY <4>1, <4>2, <4>6, WalkIs DEF o
      <4>8. ASSUME NEW k \in DOMAIN checks[i].expr[2] PROVE checks[i].expr[2][k] \in DOMAIN v[2]
        <5>1. PICK l \in DOMAIN e[2] : e[2][l].name = checks[i].expr[2][k] /\ e[2][l].required
          BY <3>2 DEF StructureRequires, e
        <5>2. DeclaredOk(t, e[2][l], v)
          BY <4>7 DEF StructureOk
        <5> QED
          BY <5>1, <5>2 DEF DeclaredOk
      <4> QED
        BY <4>8 DEF Set
    <3> QED
      BY <3>1, <3>5, <3>6, <3>7 DEF CheckOk
  <2>4. i \in f.skip => \/ i \in Restated
                        \/ \E x \in Pairs : i \in Folded(checks, x[1], x[2])
    <3>1. /\ <<"minProperties", "object">> \in Pairs /\ <<"maxProperties", "object">> \in Pairs
          /\ <<"minItems", "array">> \in Pairs /\ <<"maxItems", "array">> \in Pairs
      OBVIOUS
    <3> HIDE DEF Pairs, Restated
    <3> QED
      BY <1>2, <3>1
  <2> QED
    BY <2>1, <2>2, <2>3, <2>4
<1>7. ASSUME \A i \in DOMAIN checks : CheckOk(t, checks[i], v), NEW i \in DOMAIN checks \ f.skip
      PROVE  FusedOk(t, checks[i], f, v)
  <2>1. ASSUME NEW x \in Pairs, KindOf(v) = x[2], NEW k \in Folded(checks, x[1], x[2])
        PROVE  CountedAs(x[1], v, checks[k].expr[2])
    <3>1. k \in DOMAIN checks /\ checks[k].expr[1] = x[1] /\ x[1] \in CountKeywords
      BY <1>3 DEF CountKeywords
    <3>2. KindOf(v) \in checks[k].on
      <4>1. GuardFormed(checks[k])
        BY <1>1, <3>1
      <4> QED
        BY <2>1, <3>1, <4>1 DEF GuardFormed
    <3>3. Said(t, checks[k].expr, v)
      BY <1>7, <3>1, <3>2 DEF CheckOk
    <3> QED
      BY <3>1, <3>3, CountSays
  <2>2. KindOf(v) = "object" => BoundsOk(f.object, Cardinality(DOMAIN v[2]))
    <3> SUFFICES ASSUME KindOf(v) = "object" PROVE BoundsOk(f.object, Cardinality(DOMAIN v[2]))
      OBVIOUS
    <3>1. ASSUME NEW k \in Folded(checks, "minProperties", "object")
          PROVE  Cardinality(DOMAIN v[2]) >= checks[k].expr[2]
      <4>1. CountedAs("minProperties", v, checks[k].expr[2])
        BY <2>1
      <4> QED
        BY <4>1 DEF CountedAs
    <3>2. ASSUME NEW k \in Folded(checks, "maxProperties", "object")
          PROVE  Cardinality(DOMAIN v[2]) <= checks[k].expr[2]
      <4>1. CountedAs("maxProperties", v, checks[k].expr[2])
        BY <2>1
      <4> QED
        BY <4>1 DEF CountedAs
    <3> QED
      BY <1>2, <3>1, <3>2
  <2>3. KindOf(v) = "array" => BoundsOk(f.array, Len(v[2]))
    <3> SUFFICES ASSUME KindOf(v) = "array" PROVE BoundsOk(f.array, Len(v[2]))
      OBVIOUS
    <3>1. ASSUME NEW k \in Folded(checks, "minItems", "array")
          PROVE  Len(v[2]) >= checks[k].expr[2]
      <4>1. CountedAs("minItems", v, checks[k].expr[2])
        BY <2>1
      <4> QED
        BY <4>1 DEF CountedAs
    <3>2. ASSUME NEW k \in Folded(checks, "maxItems", "array")
          PROVE  Len(v[2]) <= checks[k].expr[2]
      <4>1. CountedAs("maxItems", v, checks[k].expr[2])
        BY <2>1
      <4> QED
        BY <4>1 DEF CountedAs
    <3> QED
      BY <1>2, <3>1, <3>2
  <2>4. CheckOk(t, checks[i], v)
    BY <1>7
  <2> QED
    BY <2>2, <2>3, <2>4 DEF CheckOk, FusedOk, FusedSaid
<1> HIDE DEF Restated, Pairs
<1>8. (\A i \in DOMAIN checks \ f.skip : FusedOk(t, checks[i], f, v))
        <=> \A i \in DOMAIN checks : CheckOk(t, checks[i], v)
  BY <1>6, <1>7
<1> QED
  BY <1>8 DEF checks, f

-----------------------------------------------------------------------------
(* The nodes of a plan.                                                    *)

LEMMA PartsShareTable ==
  ASSUME NEW t, NEW n, NEW v, NEW d \in Parts(t, n, v)
  PROVE  d[1] = t
<1> DEFINE First(S) == \A x \in S : x[1] = t
           With(S) == {<<t, m, v>> : m \in S}
<1>1. \A S : First(With(S))
  OBVIOUS
<1>2. First(MemberWalks(t, n, v)) /\ First(ElementWalks(t, n, v))
  BY DEF MemberWalks, ElementWalks
<1>3. First({}) /\ First({<<t, n[2], v[2][i]>> : i \in DOMAIN v[2]})
      /\ First({<<t, n[2], Quoted(x)>> : x \in DOMAIN v[2]})
  OBVIOUS
<1>4. CASE n[1] \in {"all", "countDispatch", "guard", "assertKind", "negation", "shape", "reference"}
  BY <1>4 DEF Parts
<1>5. CASE n[1] \in {"kindDispatch", "literalDispatch", "propertyDispatch", "presenceDispatch"}
  BY <1>5 DEF Parts
<1>6. CASE n[1] \in {"objectStructure", "arrayStructure"}
  <2>1. Parts(t, n, v) \subseteq MemberWalks(t, n, v) \cup ElementWalks(t, n, v)
    BY <1>6 DEF Parts
  <2> QED
    BY <1>2, <2>1
<1>7. CASE n[1] \in {"contains", "propertyNames"}
  BY <1>7 DEF Parts
<1>8. CASE n[1] \notin {"all", "countDispatch", "guard", "assertKind", "negation", "shape", "reference",
                        "kindDispatch", "literalDispatch", "propertyDispatch", "presenceDispatch",
                        "objectStructure", "arrayStructure", "contains", "propertyNames"}
  <2>1. Parts(t, n, v) = {}
    BY <1>8 DEF Parts
  <2> QED
    BY <2>1
<1> QED
  BY <1>4, <1>5, <1>6, <1>7, <1>8

(* The plan accepts when every node that is left of it does.               *)
LEMMA KeptSay ==
  ASSUME PlanSetting, NEW c \in Walks, NEW p \in Plans, c[2] = CompilePlan(p), c[2] # Unsupported
  PROVE  /\ Unsupported \notin Set(Kept(p))
         /\ \A m \in Set(Kept(p)) : <<c[1], m, c[3]>> \in Walks /\ Depth(<<c[1], m, c[3]>>) <= Depth(c)
         /\ Ok(c[1], c[2], c[3]) <=> \A m \in Set(Kept(p)) : Ok(c[1], m, c[3])
<1> DEFINE t == c[1]
           v == c[3]
           kept == Kept(p)
<1>1. /\ c = <<t, c[2], v>> /\ Depth(c) \in Nat
      /\ \A d \in Parts(t, c[2], v) : d \in Walks /\ Depth(d) < Depth(c)
      /\ Ok(t, c[2], v) <=> OkBy(t, c[2], v)
  BY DEF PlanSetting, Setting, Returning
<1>2. /\ IsList(kept)
      /\ c[2] = CASE Unsupported \in Set(kept) -> Unsupported
                  [] kept = <<>> -> <<"always">>
                  [] Len(kept) = 1 -> kept[1]
                  [] OTHER -> <<"all", kept>>
  BY CompiledIs
<1> HIDE DEF kept, t, v
<1>3. DOMAIN kept = 1 .. Len(kept) /\ Len(kept) \in Nat
  BY <1>2, ListIndexes
<1>4. kept = <<>> => Set(kept) = {}
  BY DEF Set
<1>5. Len(kept) = 1 => Set(kept) = {kept[1]}
  BY <1>3 DEF Set
<1>6. Unsupported \notin Set(kept)
  <2>1. SUFFICES ASSUME Unsupported \in Set(kept) PROVE FALSE
    OBVIOUS
  <2>2. CASE Len(kept) = 1
    BY <1>2, <1>4, <1>5, <2>1, <2>2
  <2>3. CASE Len(kept) # 1
    BY <1>2, <1>4, <2>1, <2>3
  <2> QED
    BY <2>2, <2>3
<1>7. CASE kept = <<>>
  <2>1. c[2] = <<"always">>
    BY <1>2, <1>3, <1>6, <1>7
  <2>2. OkBy(t, c[2], v)
    BY <2>1 DEF OkBy
  <2> QED
    BY <1>1, <1>4, <1>6, <1>7, <2>2 DEF kept, t, v
<1>8. CASE Len(kept) = 1
  <2>1. kept # <<>>
    BY <1>8
  <2>2. c[2] = kept[1]
    BY <1>2, <1>6, <1>8, <2>1
  <2>3. <<t, kept[1], v>> = c /\ Depth(c) <= Depth(c)
    BY <1>1, <2>2
  <2>4. \A m \in Set(kept) : <<t, m, v>> = c /\ m = c[2]
    BY <1>5, <1>8, <2>2, <2>3
  <2>5. Set(kept) # {}
    BY <1>5, <1>8
  <2> QED
    BY <1>6, <2>3, <2>4, <2>5 DEF kept, t, v
<1>9. CASE kept # <<>> /\ Len(kept) # 1
  <2>1. c[2] = <<"all", kept>>
    BY <1>2, <1>6, <1>9
  <2>2. OkBy(t, c[2], v) <=> \A i \in DOMAIN kept : Ok(t, kept[i], v)
    BY <2>1 DEF OkBy
  <2>3. Parts(t, c[2], v) = {<<t, m, v>> : m \in Set(kept)}
    BY <2>1 DEF Parts
  <2>4. ASSUME NEW m \in Set(kept) PROVE <<t, m, v>> \in Walks /\ Depth(<<t, m, v>>) <= Depth(c)
    <3>1. <<t, m, v>> \in Walks /\ Depth(<<t, m, v>>) < Depth(c)
      BY <1>1, <2>3
    <3>2. Depth(<<t, m, v>>) \in Nat
      BY <3>1 DEF PlanSetting, Setting, Returning
    <3> QED
      BY <1>1, <3>1, <3>2
  <2>5. (\A i \in DOMAIN kept : Ok(t, kept[i], v)) <=> \A m \in Set(kept) : Ok(t, m, v)
    BY DEF Set
  <2> QED
    BY <1>1, <1>6, <2>2, <2>4, <2>5 DEF kept, t, v
<1> QED
  BY <1>7, <1>8, <1>9

(* A guarded check, and the calls its expression makes.                    *)
LEMMA GuardSays ==
  ASSUME PlanSetting, NEW t, NEW v, KindOf(v) \in AllKinds, NEW g, g.assert \in BOOLEAN, ExprFormed(g.expr),
         NEW f, CompileGuarded(g, f) # Unsupported,
         CompileGuarded(g, f) # Nil => <<t, CompileGuarded(g, f), v>> \in Walks
  PROVE  /\ CompileExpr(g.expr, f) # Unsupported
         /\ CompileGuarded(g, f) = Nil \/ Ok(t, CompileGuarded(g, f), v) <=> FusedOk(t, g, f, v)
         /\ KindOf(v) \in g.on /\ Alone(g.expr) # Nil =>
              /\ CompileGuarded(g, f) # Nil
              /\ \A d \in Parts(t, Alone(g.expr), v) :
                   d \in Walks /\ Depth(d) < Depth(<<t, CompileGuarded(g, f), v>>)
<1> DEFINE e == g.expr
           inner == CompileExpr(e, f)
           m == CompileGuarded(g, f)
           fires == KindOf(v) \in g.on
<1>1. m = CASE inner = Unsupported -> Unsupported
            [] inner # Unsupported /\ g.assert -> <<"assertKind", g.on, inner>>
            [] inner # Unsupported /\ ~ g.assert /\ (inner = Nil \/ g.on = AllKinds) -> inner
            [] OTHER -> <<"guard", g.on, inner>>
  BY DEF CompileGuarded
<1> HIDE DEF inner, m, e
<1>2. inner # Unsupported
  BY <1>1 DEF m
<1>3. FusedNode(t, e, f, v)
  BY <1>2, FusedIs DEF e, inner
<1>4. /\ inner = Nil <=> Alone(e) = Nil
      /\ Parts(t, inner, v) = Parts(t, Alone(e), v)
      /\ inner = Nil \/ OkBy(t, inner, v) <=> FusedSaid(t, e, f, v)
  BY <1>3 DEF FusedNode, inner
<1>5. FusedOk(t, g, f, v) <=> IF fires THEN FusedSaid(t, e, f, v) ELSE ~ g.assert
  BY DEF FusedOk, e
<1>6. \A n : <<t, n, v>> \in Walks =>
        /\ Ok(t, n, v) <=> OkBy(t, n, v)
        /\ \A d \in Parts(t, n, v) : d \in Walks /\ Depth(d) \in Nat /\ Depth(d) < Depth(<<t, n, v>>)
  <2> SUFFICES ASSUME NEW n, <<t, n, v>> \in Walks
               PROVE  /\ Ok(t, n, v) <=> OkBy(t, n, v)
                      /\ \A d \in Parts(t, n, v) : d \in Walks /\ Depth(d) \in Nat /\ Depth(d) < Depth(<<t, n, v>>)
    OBVIOUS
  <2> DEFINE c == <<t, n, v>>
  <2>1. c[1] = t /\ c[2] = n /\ c[3] = v
    OBVIOUS
  <2>2. c \in Walks
    OBVIOUS
  <2> HIDE DEF c
  <2>3. /\ Ok(c[1], c[2], c[3]) <=> OkBy(c[1], c[2], c[3])
        /\ \A d \in Parts(c[1], c[2], c[3]) : d \in Walks /\ Depth(d) \in Nat /\ Depth(d) < Depth(c)
    BY <2>2 DEF PlanSetting, Setting, Returning
  <2> QED
    BY <2>1, <2>3 DEF c
<1> DEFINE Calls == \A d \in Parts(t, Alone(e), v) : d \in Walks /\ Depth(d) < Depth(<<t, m, v>>)
<1>7. ASSUME NEW n, inner # Nil, <<t, inner, v>> \in Parts(t, n, v), <<t, n, v>> \in Walks
      PROVE  /\ Ok(t, inner, v) <=> FusedSaid(t, e, f, v)
             /\ \A d \in Parts(t, Alone(e), v) : d \in Walks /\ Depth(d) < Depth(<<t, n, v>>)
  <2>1. <<t, inner, v>> \in Walks /\ Depth(<<t, inner, v>>) \in Nat /\ Depth(<<t, inner, v>>) < Depth(<<t, n, v>>)
    BY <1>6, <1>7
  <2>2. \A d \in Parts(t, inner, v) : d \in Walks /\ Depth(d) \in Nat /\ Depth(d) < Depth(<<t, inner, v>>)
    BY <1>6, <2>1
  <2>3. Ok(t, inner, v) <=> OkBy(t, inner, v)
    BY <1>6, <2>1
  <2>4. Depth(<<t, n, v>>) \in Nat
    BY <1>7 DEF PlanSetting, Setting, Returning
  <2>5. ASSUME NEW d \in Parts(t, Alone(e), v) PROVE d \in Walks /\ Depth(d) < Depth(<<t, n, v>>)
    <3>1. d \in Walks /\ Depth(d) \in Nat /\ Depth(d) < Depth(<<t, inner, v>>)
      BY <1>4, <2>2
    <3> QED
      BY <2>1, <2>4, <3>1
  <2> QED
    BY <1>4, <1>7, <2>3, <2>5
<1>8. m # Nil => <<t, m, v>> \in Walks
  BY DEF m
<1>9. CASE g.assert
  <2>1. m = <<"assertKind", g.on, inner>>
    BY <1>1, <1>2, <1>9
  <2>2. m # Nil /\ <<t, m, v>> \in Walks
    BY <1>8, <2>1 DEF Nil
  <2>3. OkBy(t, m, v) <=> fires /\ (inner = Nil \/ Ok(t, inner, v))
    BY <2>1 DEF OkBy
  <2>4. fires /\ inner # Nil => <<t, inner, v>> \in Parts(t, m, v)
    BY <2>1 DEF Parts
  <2>5. fires /\ inner # Nil => (Ok(t, inner, v) <=> FusedSaid(t, e, f, v)) /\ Calls
    BY <1>7, <2>2, <2>4
  <2>6. Ok(t, m, v) <=> OkBy(t, m, v)
    BY <1>6, <2>2
  <2> HIDE DEF Calls, fires
  <2> QED
    BY <1>2, <1>4, <1>5, <1>9, <2>2, <2>3, <2>5, <2>6 DEF e, inner, m, Calls, fires
<1>10. CASE ~ g.assert /\ inner = Nil
  <2>1. m = Nil
    BY <1>1, <1>2, <1>10
  <2> HIDE DEF fires
  <2> QED
    BY <1>2, <1>4, <1>5, <1>10, <2>1 DEF e, inner, m, fires
<1>11. CASE ~ g.assert /\ inner # Nil /\ g.on = AllKinds
  <2>1. m = inner
    BY <1>1, <1>2, <1>11
  <2>2. m # Nil /\ <<t, m, v>> \in Walks /\ fires
    BY <1>8, <1>11, <2>1
  <2>3. /\ Ok(t, m, v) <=> OkBy(t, m, v)
        /\ \A d \in Parts(t, m, v) : d \in Walks /\ Depth(d) < Depth(<<t, m, v>>)
    BY <1>6, <2>2
  <2>4. Calls
    BY <1>4, <2>1, <2>3
  <2> HIDE DEF Calls, fires
  <2> QED
    BY <1>2, <1>4, <1>5, <1>11, <2>1, <2>2, <2>3, <2>4 DEF e, inner, m, Calls, fires
<1>12. CASE ~ g.assert /\ inner # Nil /\ g.on # AllKinds
  <2>1. m = <<"guard", g.on, inner>>
    BY <1>1, <1>2, <1>12
  <2>2. m # Nil /\ <<t, m, v>> \in Walks
    BY <1>8, <2>1 DEF Nil
  <2>3. OkBy(t, m, v) <=> (fires => Ok(t, inner, v))
    BY <2>1 DEF OkBy
  <2>4. fires => <<t, inner, v>> \in Parts(t, m, v)
    BY <2>1 DEF Parts
  <2>5. fires => (Ok(t, inner, v) <=> FusedSaid(t, e, f, v)) /\ Calls
    BY <1>7, <1>12, <2>2, <2>4
  <2>6. Ok(t, m, v) <=> OkBy(t, m, v)
    BY <1>6, <2>2
  <2> HIDE DEF Calls, fires
  <2> QED
    BY <1>2, <1>4, <1>5, <1>12, <2>2, <2>3, <2>5, <2>6 DEF e, inner, m, Calls, fires
<1> QED
  BY <1>9, <1>10, <1>11, <1>12

(* A call that is matched with a plan, and those of shallower walks of the *)
(* same table are agreed on.                                               *)
Matched(c, p, D) ==
  /\ c \in Walks /\ p \in Plans /\ c[2] = CompilePlan(p) /\ c[2] # Unsupported
  /\ Compiles(c[1], D)
  /\ \A d \in Walks : d[1] = c[1] /\ Depth(d) < Depth(c) => Agreed(D, d)

(* Nothing is called by a check that is made elsewhere.                    *)
LEMMA SkippedCallsNone ==
  ASSUME NEW t, NEW v, NEW e, e[1] \in CountKeywords \cup {"required"}
  PROVE  Alone(e) # Unsupported /\ Parts(t, Alone(e), v) = {} /\ e[1] # "not"
<1>1. CASE e[1] = "required"
  <2>1. Alone(e) = <<"required", e[2], PresenceOf(e[2], Set(e[2]))>>
    BY <1>1 DEF Alone, CompileExpr
  <2> QED
    BY <1>1, <2>1 DEF Parts, Unsupported
<1>2. CASE e[1] \in CountKeywords
  <2>1. Alone(e) = e
    BY <1>2 DEF Alone, CompileExpr, CountKeywords
  <2>2. e # Unsupported
    BY <1>2 DEF Unsupported, CountKeywords
  <2>3. Parts(t, e, v) = {}
    BY <1>2 DEF Parts, CountKeywords
  <2> QED
    BY <1>2, <2>1, <2>2, <2>3 DEF CountKeywords
<1> QED
  BY <1>1, <1>2

LEMMA SkippedIs ==
  ASSUME NEW checks, IsList(checks), NEW i \in Fusion(checks).skip
  PROVE  i \in DOMAIN checks /\ checks[i].expr[1] \in CountKeywords \cup {"required"}
<1>1. \A keyword, type : \A k \in Folded(checks, keyword, type) : k \in DOMAIN checks /\ checks[k].expr[1] = keyword
  BY FoldedIs
<1>2. i \in UNION {Folded(checks, "minProperties", "object"), Folded(checks, "maxProperties", "object"),
                   Folded(checks, "minItems", "array"), Folded(checks, "maxItems", "array"),
                   {k \in DOMAIN checks : /\ ~ checks[k].assert
                                          /\ checks[k].expr[1] = "required"
                                          /\ RequiredIsRestated(checks, k)}}
  BY FusionIs
<1> QED
  BY <1>1, <1>2 DEF CountKeywords

(* What the interpreter says of the checks, and what their nodes say.      *)
LEMMA ChecksAgree ==
  ASSUME PlanSetting, NEW c, NEW p, NEW D, Matched(c, p, D), NEW active \in SUBSET DOMAIN c[1]
  PROVE  Agrees(Validation(p.checks, c[3], active, Env(D)),
                \A m \in {GuardNodes(p)[i] : i \in DOMAIN p.checks} \ {Nil} : Ok(c[1], m, c[3]))
<1> DEFINE t == c[1]
           v == c[3]
           checks == p.checks
           f == Fusion(checks)
           nodes == {GuardNodes(p)[i] : i \in DOMAIN p.checks} \ {Nil}
           m(i) == CompileGuarded(checks[i], f)
<1>1. c \in Walks /\ p \in Plans /\ c[2] = CompilePlan(p) /\ c[2] # Unsupported /\ Compiles(t, D)
  BY DEF Matched
<1>2. /\ IsList(checks)
      /\ \A i \in DOMAIN checks : GuardFormed(checks[i]) /\ ExprFormed(checks[i].expr)
      /\ \A i \in DOMAIN checks : checks[i].expr[1] = "not" => SureOf(checks[i].expr[2])
  BY <1>1 DEF PlanSetting, PlansFormed, Complements
<1>3. DOMAIN checks = 1 .. Len(checks) /\ Len(checks) \in Nat
  BY <1>2, ListIndexes
<1>4. /\ Unsupported \notin Set(Kept(p))
      /\ \A n \in Set(Kept(p)) : <<t, n, v>> \in Walks /\ Depth(<<t, n, v>>) <= Depth(c)
  BY <1>1, KeptSay
<1>5. nodes \subseteq Set(Kept(p))
  BY <1>1, CompiledIs
<1>6. \A i \in DOMAIN checks : GuardNodes(p)[i] = IF i \in f.skip THEN Nil ELSE m(i)
  BY DEF GuardNodes
<1>7. ASSUME NEW i \in DOMAIN checks \ f.skip, m(i) # Nil PROVE m(i) \in nodes
  BY <1>6, <1>7
<1>8. KindOf(v) \in AllKinds /\ Depth(c) \in Nat
  BY <1>1 DEF PlanSetting, Setting, Returning
<1> HIDE DEF nodes, f, checks
<1>9. ASSUME NEW i \in DOMAIN checks \ f.skip
      PROVE  /\ CompileExpr(checks[i].expr, f) # Unsupported
             /\ m(i) = Nil \/ Ok(t, m(i), v) <=> FusedOk(t, checks[i], f, v)
             /\ KindOf(v) \in checks[i].on /\ Alone(checks[i].expr) # Nil =>
                  \A d \in Parts(t, Alone(checks[i].expr), v) : d \in Walks /\ Depth(d) < Depth(c)
  <2> DEFINE n == m(i)
  <2>1. n # Nil => n \in nodes
    BY <1>7
  <2>2. n # Nil => <<t, n, v>> \in Walks /\ Depth(<<t, n, v>>) <= Depth(c) /\ n # Unsupported
    BY <1>4, <1>5, <2>1
  <2>3. n # Unsupported
    BY <2>2 DEF Nil, Unsupported
  <2>4. checks[i].assert \in BOOLEAN /\ ExprFormed(checks[i].expr)
    BY <1>2 DEF GuardFormed
  <2>5. /\ CompileExpr(checks[i].expr, f) # Unsupported
        /\ n = Nil \/ Ok(t, n, v) <=> FusedOk(t, checks[i], f, v)
        /\ KindOf(v) \in checks[i].on /\ Alone(checks[i].expr) # Nil =>
             /\ n # Nil
             /\ \A d \in Parts(t, Alone(checks[i].expr), v) : d \in Walks /\ Depth(d) < Depth(<<t, n, v>>)
    BY <1>8, <2>2, <2>3, <2>4, GuardSays
  <2> HIDE DEF n
  <2>6. ASSUME KindOf(v) \in checks[i].on, Alone(checks[i].expr) # Nil,
               NEW d \in Parts(t, Alone(checks[i].expr), v)
        PROVE  d \in Walks /\ Depth(d) < Depth(c)
    <3>1. d \in Walks /\ Depth(d) < Depth(<<t, n, v>>) /\ <<t, n, v>> \in Walks /\ Depth(<<t, n, v>>) <= Depth(c)
      BY <2>2, <2>5, <2>6
    <3>2. Depth(d) \in Nat /\ Depth(<<t, n, v>>) \in Nat
      BY <3>1 DEF PlanSetting, Setting, Returning
    <3> QED
      BY <1>8, <3>1, <3>2
  <2> QED
    BY <2>5, <2>6 DEF n
<1> HIDE DEF m
<1>10. (\A n \in nodes : Ok(t, n, v)) <=> \A i \in DOMAIN checks \ f.skip : FusedOk(t, checks[i], f, v)
  <2>1. \A n : n \in nodes <=> n # Nil /\ \E i \in DOMAIN checks \ f.skip : n = m(i)
    BY <1>6 DEF nodes, checks
  <2>2. (\A n \in nodes : Ok(t, n, v)) <=> \A i \in DOMAIN checks \ f.skip : m(i) = Nil \/ Ok(t, m(i), v)
    BY <2>1
  <2> QED
    BY <1>9, <2>2
<1>11. (\A n \in nodes : Ok(t, n, v)) <=> \A i \in DOMAIN checks : CheckOk(t, checks[i], v)
  <2>1. (\A i \in DOMAIN checks \ f.skip : FusedOk(t, checks[i], f, v))
          <=> \A i \in DOMAIN checks : CheckOk(t, checks[i], v)
    BY <1>1, <1>9, FusionLosesNothing DEF checks, f
  <2> QED
    BY <1>10, <2>1
<1>12. ASSUME NEW i \in DOMAIN checks, KindOf(v) \in checks[i].on
       PROVE  Ready(t, D, v, checks[i].expr)
  <2> DEFINE e == checks[i].expr
  <2>1. ExprFormed(e) /\ (e[1] = "not" => SureOf(e[2])) /\ c[3] = v
    BY <1>2
  <2>2. Alone(e) # Unsupported
        /\ (Alone(e) # Nil => \A d \in Parts(t, Alone(e), v) : d \in Walks /\ Depth(d) < Depth(c))
    <3>1. CASE i \in f.skip
      <4>1. e[1] \in CountKeywords \cup {"required"}
        BY <1>2, <3>1, SkippedIs DEF f
      <4> HIDE DEF e
      <4>2. Alone(e) # Unsupported /\ Parts(t, Alone(e), v) = {}
        BY <4>1, SkippedCallsNone
      <4> QED
        BY <4>2
    <3>2. CASE i \notin f.skip
      <4>1. CompileExpr(e, f) # Unsupported
        BY <1>9, <3>2
      <4>2. Alone(e) # Unsupported
        BY <2>1, <4>1, FusedIs DEF FusedNode
      <4> QED
        BY <1>9, <1>12, <3>2, <4>2
    <3> QED
      BY <3>1, <3>2
  <2>3. ASSUME Alone(e) # Nil, NEW d \in Parts(t, Alone(e), v) PROVE d \in Walks /\ Agreed(D, d)
    <3>1. d \in Walks /\ Depth(d) < Depth(c) /\ d[1] = t
      BY <2>2, <2>3, PartsShareTable
    <3> QED
      BY <3>1 DEF Matched
  <2> HIDE DEF e
  <2> QED
    BY <1>1, <2>1, <2>2, <2>3 DEF Ready, e
<1> DEFINE step == [i \in DOMAIN checks |->
                      IF KindOf(v) \in checks[i].on THEN Predicate(checks[i].expr, v, active, Env(D))
                      ELSE If(~ checks[i].assert)]
           Bad == {i \in DOMAIN checks : ~ CheckOk(t, checks[i], v)}
<1>13. ASSUME NEW i \in 1 .. Len(checks) PROVE Agrees(step[i], i \notin Bad)
  <2>1. i \in DOMAIN checks
    BY <1>3
  <2>2. step[i] = IF KindOf(v) \in checks[i].on THEN Predicate(checks[i].expr, v, active, Env(D))
                  ELSE If(~ checks[i].assert)
    BY <2>1
  <2>3. i \notin Bad <=> CheckOk(t, checks[i], v)
    BY <2>1
  <2> HIDE DEF step, Bad
  <2>4. CASE KindOf(v) \in checks[i].on
    <3>1. Agrees(Predicate(checks[i].expr, v, active, Env(D)), Said(t, checks[i].expr, v))
      BY <1>12, <2>1, <2>4, ExprAgrees
    <3> QED
      BY <2>2, <2>3, <2>4, <3>1 DEF Agrees, CheckOk
  <2>5. CASE KindOf(v) \notin checks[i].on
    <3>1. step[i] = If(~ checks[i].assert) /\ (i \notin Bad <=> ~ checks[i].assert)
      BY <2>2, <2>3, <2>5 DEF CheckOk
    <3> QED
      BY <3>1, PlainVerdicts DEF Agrees, If
  <2> QED
    BY <2>4, <2>5
<1>14. Validation(checks, v, active, Env(D)) = InTurn(step, Len(checks))
  BY DEF Validation
<1>15. (\A i \in 1 .. Len(checks) : i \notin Bad) <=> \A i \in DOMAIN checks : CheckOk(t, checks[i], v)
  BY <1>3
<1> HIDE DEF step, Bad, t, v
<1>16. Agrees(InTurn(step, Len(checks)), \A i \in 1 .. Len(checks) : i \notin Bad)
  BY <1>3, <1>13, InTurnAgrees
<1>17. Agrees(Validation(checks, v, active, Env(D)), \A n \in nodes : Ok(t, n, v))
  BY <1>11, <1>14, <1>15, <1>16 DEF Agrees
<1> QED
  BY <1>17 DEF t, v, checks, nodes

-----------------------------------------------------------------------------
(* Dispatches.                                                             *)

LEMMA HeldAgrees ==
  ASSUME NEW t, NEW D, NEW v, NEW q \in Plans, CompilePlan(q) # Unsupported,
         Agreed(D, <<t, CompilePlan(q), v>>), NEW active \in SUBSET DOMAIN t
  PROVE  Agrees(Interpret(q, v, active, Env(D)), Ok(t, CompilePlan(q), v))
<1> DEFINE c == <<t, CompilePlan(q), v>>
<1>1. c[1] = t /\ c[2] = CompilePlan(q) /\ c[3] = v /\ Agreed(D, c)
  OBVIOUS
<1> HIDE DEF c
<1> QED
  BY <1>1 DEF Agreed

(* The first case with an equal literal, looked up or scanned for.         *)
LEMMA CaseAgrees ==
  ASSUME NEW t, NEW D, NEW v, NEW active \in SUBSET DOMAIN t, NEW cases, PairsFormed(cases),
         \A i \in DOMAIN cases : CompilePlan(cases[i][2]) # Unsupported,
         NEW table_, table_ = CaseTable(cases, [i \in DOMAIN cases |-> CompilePlan(cases[i][2])]),
         NEW selector, \A m \in Selected(table_, selector) : Agreed(D, <<t, m, v>>)
  PROVE  Agrees(SelectCase(cases, selector, v, active, Env(D)),
                Selected(table_, selector) # {} /\ \A m \in Selected(table_, selector) : Ok(t, m, v))
<1> DEFINE equal == {i \in DOMAIN cases : cases[i][1] = selector}
           least == CHOOSE i \in equal : \A j \in equal : i <= j
           first == {i \in equal : \A j \in equal : i <= j}
           S == Selected(table_, selector)
<1>1. IsList(cases) /\ \A i \in DOMAIN cases : cases[i][2] \in Plans
  BY DEF PairsFormed
<1>2. DOMAIN cases \subseteq Nat
  BY <1>1, ListIndexes
<1>3. /\ DOMAIN table_.cases = DOMAIN cases
      /\ \A i \in DOMAIN cases : table_.cases[i][1] = cases[i][1] /\ table_.cases[i][2] = CompilePlan(cases[i][2])
      /\ table_.hashed => \A i \in DOMAIN cases : Keyed(cases[i][1])
  BY DEF CaseTable
<1>4. {i \in DOMAIN table_.cases : table_.cases[i][1] = selector} = equal
  BY <1>3
<1>5. S = IF table_.hashed /\ ~ Keyed(selector) THEN {} ELSE {table_.cases[i][2] : i \in first}
  BY <1>4 DEF Selected
<1>6. SelectCase(cases, selector, v, active, Env(D))
        = IF equal = {} THEN Rejected ELSE Interpret(cases[least][2], v, active, Env(D))
  BY DEF SelectCase
<1>7. CASE equal = {}
  <2>1. S = {}
    BY <1>5, <1>7
  <2> QED
    BY <1>6, <1>7, <2>1, PlainVerdicts DEF Agrees
<1>8. CASE equal # {}
  <2>1. equal \in SUBSET Nat
    BY <1>2
  <2>2. PICK k \in equal : \A j \in equal : k <= j
    BY <1>8, <2>1, HasLeast
  <2>3. \A i \in equal : (\A j \in equal : i <= j) => i = k
    <3>1. ASSUME NEW i \in equal, \A j \in equal : i <= j PROVE i = k
      <4>1. i \in Nat /\ k \in Nat /\ i <= k /\ k <= i
        BY <2>1, <2>2, <3>1
      <4> QED
        BY <4>1
    <3> QED
      BY <3>1
  <2> HIDE DEF equal
  <2>4. least = k /\ first = {k}
    BY <2>2, <2>3
  <2>5. k \in DOMAIN cases /\ cases[k][1] = selector
    BY <2>2 DEF equal
  <2>6. ~ (table_.hashed /\ ~ Keyed(selector))
    BY <1>3, <2>5
  <2> HIDE DEF least, first
  <2>7. S = {table_.cases[i][2] : i \in first}
    BY <1>5, <2>6
  <2>8. S = {CompilePlan(cases[k][2])}
    BY <1>3, <2>4, <2>5, <2>7
  <2>9. Agreed(D, <<t, CompilePlan(cases[k][2]), v>>)
    BY <2>8
  <2>10. Agrees(Interpret(cases[k][2], v, active, Env(D)), Ok(t, CompilePlan(cases[k][2]), v))
    BY <1>1, <2>5, <2>9, HeldAgrees
  <2>11. SelectCase(cases, selector, v, active, Env(D)) = Interpret(cases[k][2], v, active, Env(D))
    BY <1>6, <1>8, <2>4
  <2>12. S # {} /\ (\A m \in S : Ok(t, m, v)) <=> Ok(t, CompilePlan(cases[k][2]), v)
    BY <2>8
  <2> HIDE DEF S
  <2>13. Agrees(SelectCase(cases, selector, v, active, Env(D)), S # {} /\ \A m \in S : Ok(t, m, v))
    BY <2>10, <2>11, <2>12 DEF Agrees
  <2> QED
    BY <2>13 DEF S
<1> QED
  BY <1>7, <1>8

LEMMA DispatchAgrees ==
  ASSUME NEW t, NEW D, NEW v, NEW active \in SUBSET DOMAIN t,
         NEW d, DispatchFormed(d), CompileDispatch(d) # Unsupported,
         CompileDispatch(d) # Nil => \A x \in Parts(t, CompileDispatch(d), v) : Agreed(D, x)
  PROVE  /\ CompileDispatch(d) # Nil => (OkBy(t, CompileDispatch(d), v) <=> DispatchOk(t, CompileDispatch(d), v))
         /\ Agrees(Dispatch(d, v, active, Env(D)),
                   CompileDispatch(d) = Nil \/ DispatchOk(t, CompileDispatch(d), v))
<1> DEFINE n == CompileDispatch(d)
           r == Dispatch(d, v, active, Env(D))
           isObject == KindOf(v) = "object"
           has == isObject /\ d[2] \in DOMAIN v[2]
<1>1. CASE d[1] = "none"
  <2>1. n = Nil
    BY <1>1 DEF CompileDispatch
  <2>2. r = Accepted
    BY <1>1 DEF Dispatch
  <2> QED
    BY <2>1, <2>2, PlainVerdicts DEF Agrees
<1>2. CASE d[1] = "kind"
  <2> DEFINE nodes == [k \in DOMAIN d[2] |-> CompilePlan(d[2][k])]
             k == KindOf(v)
             here == k \in DOMAIN d[2]
  <2>1. n = IF \E j \in DOMAIN nodes : nodes[j] = Unsupported THEN Unsupported ELSE <<"kindDispatch", nodes>>
    BY <1>2 DEF CompileDispatch
  <2>2. n = <<"kindDispatch", nodes>> /\ \A j \in DOMAIN d[2] : CompilePlan(d[2][j]) # Unsupported
    BY <2>1
  <2>3. n # Nil /\ (OkBy(t, n, v) <=> DispatchOk(t, n, v))
    BY <2>2 DEF OkBy, Nil
  <2>4. DispatchOk(t, n, v) <=> here /\ Ok(t, CompilePlan(d[2][k]), v)
    BY <2>2 DEF DispatchOk
  <2>5. r = IF here THEN Interpret(d[2][k], v, active, Env(D)) ELSE Rejected
    BY <1>2 DEF Dispatch
  <2>6. ASSUME here
        PROVE  Agrees(Interpret(d[2][k], v, active, Env(D)), Ok(t, CompilePlan(d[2][k]), v))
    <3>1. <<t, CompilePlan(d[2][k]), v>> \in Parts(t, n, v)
      BY <2>2, <2>6 DEF Parts
    <3>2. Agreed(D, <<t, CompilePlan(d[2][k]), v>>)
      BY <2>3, <3>1
    <3>3. d[2][k] \in Plans /\ CompilePlan(d[2][k]) # Unsupported
      BY <1>2, <2>2, <2>6 DEF DispatchFormed
    <3> QED
      BY <3>2, <3>3, HeldAgrees
  <2> HIDE DEF n, r, k
  <2>7. Agrees(r, DispatchOk(t, n, v))
    BY <2>4, <2>5, <2>6, PlainVerdicts DEF Agrees
  <2> QED
    BY <2>3, <2>7 DEF Agrees, n, r
<1>3. CASE d[1] = "literal"
  <2> DEFINE nodes == [i \in DOMAIN d[2] |-> CompilePlan(d[2][i][2])]
             cases == CaseTable(d[2], nodes)
             S == Selected(cases, v)
  <2>1. n = IF Unsupported \in Set(nodes) THEN Unsupported ELSE <<"literalDispatch", cases>>
    BY <1>3 DEF CompileDispatch
  <2>2. n = <<"literalDispatch", cases>> /\ Unsupported \notin Set(nodes)
    BY <2>1
  <2>3. \A i \in DOMAIN d[2] : CompilePlan(d[2][i][2]) # Unsupported
    <3>1. \A i \in DOMAIN d[2] : i \in DOMAIN nodes /\ nodes[i] = CompilePlan(d[2][i][2])
      OBVIOUS
    <3> HIDE DEF nodes
    <3> QED
      BY <2>2, <3>1 DEF Set
  <2>4. n # Nil /\ (OkBy(t, n, v) <=> DispatchOk(t, n, v))
    BY <2>2 DEF OkBy, Nil
  <2>5. DispatchOk(t, n, v) <=> S # {} /\ \A m \in S : Ok(t, m, v)
    BY <2>2 DEF DispatchOk
  <2>6. r = SelectCase(d[2], v, v, active, Env(D))
    BY <1>3 DEF Dispatch
  <2>7. Parts(t, n, v) = {<<t, m, v>> : m \in S}
    BY <2>2 DEF Parts
  <2>8. \A m \in S : Agreed(D, <<t, m, v>>)
    BY <2>4, <2>7
  <2>9. PairsFormed(d[2])
    BY <1>3 DEF DispatchFormed
  <2> HIDE DEF n, r
  <2>10. Agrees(r, S # {} /\ \A m \in S : Ok(t, m, v))
    BY <2>3, <2>6, <2>8, <2>9, CaseAgrees
  <2> HIDE DEF S
  <2>11. Agrees(r, DispatchOk(t, n, v))
    BY <2>5, <2>10 DEF Agrees
  <2> QED
    BY <2>4, <2>11 DEF Agrees, n, r
<1>4. CASE d[1] = "property"
  <2> DEFINE nodes == [i \in DOMAIN d[3] |-> CompilePlan(d[3][i][2])]
             cases == CaseTable(d[3], nodes)
             S == Selected(cases, v[2][d[2]])
  <2>1. n = IF Unsupported \in Set(nodes) THEN Unsupported ELSE <<"propertyDispatch", d[2], cases>>
    BY <1>4 DEF CompileDispatch
  <2>2. n = <<"propertyDispatch", d[2], cases>> /\ Unsupported \notin Set(nodes)
    BY <2>1
  <2>3. \A i \in DOMAIN d[3] : CompilePlan(d[3][i][2]) # Unsupported
    <3>1. \A i \in DOMAIN d[3] : i \in DOMAIN nodes /\ nodes[i] = CompilePlan(d[3][i][2])
      OBVIOUS
    <3> HIDE DEF nodes
    <3> QED
      BY <2>2, <3>1 DEF Set
  <2>4. n # Nil /\ (OkBy(t, n, v) <=> DispatchOk(t, n, v))
    BY <2>2 DEF OkBy, Nil
  <2>5. DispatchOk(t, n, v) <=> has /\ S # {} /\ \A m \in S : Ok(t, m, v)
    BY <2>2 DEF DispatchOk
  <2>6. r = IF has THEN SelectCase(d[3], v[2][d[2]], v, active, Env(D)) ELSE Rejected
    BY <1>4 DEF Dispatch
  <2>7. has => Parts(t, n, v) = {<<t, m, v>> : m \in S}
    BY <2>2 DEF Parts
  <2>8. has => \A m \in S : Agreed(D, <<t, m, v>>)
    BY <2>4, <2>7
  <2>9. PairsFormed(d[3])
    BY <1>4 DEF DispatchFormed
  <2> HIDE DEF n, r, has
  <2>10. ASSUME has
         PROVE  Agrees(SelectCase(d[3], v[2][d[2]], v, active, Env(D)), S # {} /\ \A m \in S : Ok(t, m, v))
    BY <2>3, <2>8, <2>9, <2>10, CaseAgrees
  <2> HIDE DEF S
  <2>11. Agrees(r, DispatchOk(t, n, v))
    BY <2>5, <2>6, <2>10, PlainVerdicts DEF Agrees
  <2> QED
    BY <2>4, <2>11 DEF Agrees, n, r
<1>5. CASE d[1] = "presence"
  <2> DEFINE nodes == CompileEach(<<d[3], d[4]>>)
             q == IF has THEN d[3] ELSE d[4]
  <2>1. n = IF Unsupported \in Set(nodes) THEN Unsupported ELSE <<"presenceDispatch", d[2], nodes[1], nodes[2]>>
    BY <1>5 DEF CompileDispatch
  <2>2. n = <<"presenceDispatch", d[2], nodes[1], nodes[2]>> /\ Unsupported \notin Set(nodes)
    BY <2>1
  <2>3. /\ 1 \in DOMAIN nodes /\ 2 \in DOMAIN nodes
        /\ nodes[1] = CompilePlan(d[3]) /\ nodes[2] = CompilePlan(d[4])
    BY DEF CompileEach
  <2>4. CompilePlan(d[3]) # Unsupported /\ CompilePlan(d[4]) # Unsupported
    <3> HIDE DEF nodes
    <3> QED
      BY <2>2, <2>3 DEF Set
  <2> HIDE DEF nodes
  <2>5. n = <<"presenceDispatch", d[2], CompilePlan(d[3]), CompilePlan(d[4])>>
    BY <2>2, <2>3
  <2>6. n # Nil /\ (OkBy(t, n, v) <=> DispatchOk(t, n, v))
    BY <2>5 DEF OkBy, Nil
  <2>7. DispatchOk(t, n, v) <=> (isObject => Ok(t, CompilePlan(q), v))
    BY <2>5 DEF DispatchOk
  <2>8. r = IF ~ isObject THEN Verdict("accepted", TRUE) ELSE Interpret(q, v, active, Env(D))
    BY <1>5 DEF Dispatch
  <2>9. isObject => Parts(t, n, v) = {<<t, CompilePlan(q), v>>}
    BY <2>5 DEF Parts
  <2>10. q \in Plans /\ CompilePlan(q) # Unsupported
    BY <1>5, <2>4 DEF DispatchFormed
  <2>11. isObject => Agreed(D, <<t, CompilePlan(q), v>>)
    BY <2>6, <2>9
  <2> HIDE DEF n, r, q
  <2>12. isObject => Agrees(Interpret(q, v, active, Env(D)), Ok(t, CompilePlan(q), v))
    BY <2>10, <2>11, HeldAgrees
  <2>13. Verdict("accepted", TRUE) \in Verdicts /\ Verdict("accepted", TRUE).verdict = "accepted"
    BY VerdictsAre
  <2>14. Agrees(r, DispatchOk(t, n, v))
    BY <2>7, <2>8, <2>12, <2>13 DEF Agrees
  <2> QED
    BY <2>6, <2>14 DEF Agrees, n, r
<1>6. CASE d[1] = "count"
  <2> DEFINE nodes == CompileEach(d[2])
             len == Len(d[2])
             Good == {i \in DOMAIN d[2] : Ok(t, CompilePlan(d[2][i]), v)}
             step == [i \in DOMAIN d[2] |-> Interpret(d[2][i], v, active, Env(D))]
  <2>1. n = IF Unsupported \in Set(nodes) THEN Unsupported ELSE <<"countDispatch", nodes, d[3], d[4]>>
    BY <1>6 DEF CompileDispatch
  <2>2. n = <<"countDispatch", nodes, d[3], d[4]>> /\ Unsupported \notin Set(nodes)
    BY <2>1
  <2>3. DOMAIN nodes = DOMAIN d[2] /\ \A i \in DOMAIN d[2] : nodes[i] = CompilePlan(d[2][i])
    BY DEF CompileEach
  <2>4. IsList(d[2]) /\ Set(d[2]) \subseteq Plans
    BY <1>6 DEF DispatchFormed
  <2>5. DOMAIN d[2] = 1 .. len /\ len \in Nat
    BY <2>4, ListIndexes
  <2> HIDE DEF nodes
  <2>6. n # Nil /\ (OkBy(t, n, v) <=> DispatchOk(t, n, v))
    BY <2>2 DEF OkBy, Nil
  <2>7. DispatchOk(t, n, v) <=> Cardinality(Good) \in d[3] .. d[4]
    <3>1. DispatchOk(t, n, v) <=> Cardinality({i \in DOMAIN nodes : Ok(t, nodes[i], v)}) \in d[3] .. d[4]
      BY <2>2 DEF DispatchOk
    <3>2. {i \in DOMAIN nodes : Ok(t, nodes[i], v)} = Good
      BY <2>3
    <3> QED
      BY <3>1, <3>2
  <2>8. r = Within(CountAccepted(step, len), d[3], d[4])
    BY <1>6 DEF Dispatch
  <2>9. ASSUME NEW i \in 1 .. len PROVE Agrees(step[i], i \in Good)
    <3>1. i \in DOMAIN d[2] /\ step[i] = Interpret(d[2][i], v, active, Env(D))
      BY <2>5
    <3>2. nodes[i] = CompilePlan(d[2][i]) /\ nodes[i] \in Set(nodes) /\ d[2][i] \in Plans
      BY <2>3, <2>4, <3>1 DEF Set
    <3>3. <<t, nodes[i], v>> \in Parts(t, n, v)
      BY <2>2, <3>2 DEF Parts
    <3>4. Agreed(D, <<t, CompilePlan(d[2][i]), v>>) /\ CompilePlan(d[2][i]) # Unsupported
      BY <2>2, <2>6, <3>2, <3>3
    <3>5. Agrees(Interpret(d[2][i], v, active, Env(D)), Ok(t, CompilePlan(d[2][i]), v))
      BY <3>2, <3>4, HeldAgrees
    <3>6. i \in Good <=> Ok(t, CompilePlan(d[2][i]), v)
      BY <3>1
    <3> HIDE DEF step, Good
    <3> QED
      BY <3>1, <3>5, <3>6 DEF Agrees
  <2>10. {i \in 1 .. len : i \in Good} = Good
    BY <2>5
  <2> HIDE DEF n, r, step, Good, len
  <2>11. Agrees(r, Cardinality({i \in 1 .. len : i \in Good}) \in d[3] .. d[4])
    BY <2>5, <2>8, <2>9, WithinAgrees
  <2>12. Agrees(r, DispatchOk(t, n, v))
    BY <2>7, <2>10, <2>11 DEF Agrees
  <2> QED
    BY <2>6, <2>12 DEF Agrees, n, r
<1> QED
  BY <1>1, <1>2, <1>3, <1>4, <1>5, <1>6 DEF DispatchFormed

-----------------------------------------------------------------------------
(* Plans.                                                                  *)

LEMMA PlanAgrees ==
  ASSUME PlanSetting, NEW c, NEW p, NEW D, Matched(c, p, D), NEW active \in SUBSET DOMAIN c[1]
  PROVE  Agrees(Interpret(p, c[3], active, Env(D)), Ok(c[1], c[2], c[3]))
<1> DEFINE t == c[1]
           v == c[3]
           n == CompileDispatch(p.dispatch)
           guards == {GuardNodes(p)[i] : i \in DOMAIN p.checks} \ {Nil}
           r == Validation(p.checks, v, active, Env(D))
           s == Dispatch(p.dispatch, v, active, Env(D))
<1>1. c \in Walks /\ p \in Plans /\ c[2] = CompilePlan(p) /\ c[2] # Unsupported /\ Compiles(t, D)
  BY DEF Matched
<1>2. Interpret(p, v, active, Env(D)) = IF r.verdict # "accepted" THEN r ELSE After(r, s)
  <2>1. D \in [DOMAIN t -> Plans]
    BY <1>1 DEF Compiles
  <2>2. Interpret(p, v, active, Env(D)) = InterpretBy(p, v, active, Env(D))
    BY <1>1, <2>1 DEF PlanSetting, PlanKnots
  <2> QED
    BY <2>2 DEF InterpretBy
<1>3. Agrees(r, \A m \in guards : Ok(t, m, v))
  BY ChecksAgree
<1>4. /\ Unsupported \notin Set(Kept(p))
      /\ \A m \in Set(Kept(p)) : <<t, m, v>> \in Walks /\ Depth(<<t, m, v>>) <= Depth(c)
      /\ Ok(t, c[2], v) <=> \A m \in Set(Kept(p)) : Ok(t, m, v)
  BY <1>1, KeptSay
<1>5. Set(Kept(p)) = guards \cup ({n} \ {Nil})
  <2>1. Set(Kept(p)) = ({GuardNodes(p)[i] : i \in DOMAIN p.checks} \cup {n}) \ {Nil}
    BY <1>1, CompiledIs
  <2> QED
    BY <2>1
<1> HIDE DEF guards, n
<1>6. n # Nil => n \in Set(Kept(p))
  BY <1>5
<1>7. n # Unsupported
  BY <1>4, <1>6 DEF Nil, Unsupported
<1>8. ASSUME n # Nil
      PROVE  /\ Ok(t, n, v) <=> OkBy(t, n, v)
             /\ \A d \in Parts(t, n, v) : Agreed(D, d)
  <2> DEFINE x == <<t, n, v>>
  <2>1. x[1] = t /\ x[2] = n /\ x[3] = v /\ x \in Walks /\ Depth(x) <= Depth(c)
    BY <1>4, <1>6, <1>8
  <2> HIDE DEF x
  <2>2. /\ Ok(t, n, v) <=> OkBy(t, n, v)
        /\ \A d \in Parts(t, n, v) : d \in Walks /\ Depth(d) < Depth(x)
    BY <2>1 DEF PlanSetting, Setting, Returning
  <2>3. ASSUME NEW d \in Parts(t, n, v) PROVE Agreed(D, d)
    <3>1. d \in Walks /\ d[1] = t
      BY <2>2, PartsShareTable
    <3>2. Depth(d) \in Nat /\ Depth(x) \in Nat /\ Depth(c) \in Nat
      BY <1>1, <2>1, <3>1 DEF PlanSetting, Setting, Returning
    <3>3. Depth(d) < Depth(c)
      BY <2>1, <2>2, <3>2
    <3> QED
      BY <3>1, <3>3 DEF Matched
  <2> QED
    BY <2>2, <2>3
<1>9. DispatchFormed(p.dispatch)
  BY <1>1 DEF PlanSetting, PlansFormed
<1>10. /\ n # Nil => (OkBy(t, n, v) <=> DispatchOk(t, n, v))
       /\ Agrees(s, n = Nil \/ DispatchOk(t, n, v))
  BY <1>7, <1>8, <1>9, DispatchAgrees DEF n
<1>11. Ok(t, c[2], v) <=> (\A m \in guards : Ok(t, m, v)) /\ (n = Nil \/ DispatchOk(t, n, v))
  BY <1>4, <1>5, <1>8, <1>10
<1> HIDE DEF r, s
<1>12. r \in Verdicts /\ s \in Verdicts
  BY <1>3, <1>10 DEF Agrees
<1> DEFINE x == IF r.verdict # "accepted" THEN r ELSE After(r, s)
<1>13. /\ x \in Verdicts
       /\ x.verdict = "accepted" => r.verdict = "accepted" /\ s.verdict = "accepted"
       /\ x.verdict = "rejected" => r.verdict = "rejected" \/ s.verdict = "rejected"
  BY <1>12, ThenIs
<1> HIDE DEF x
<1>14. Agrees(x, Ok(t, c[2], v))
  BY <1>3, <1>10, <1>11, <1>13 DEF Agrees
<1> QED
  BY <1>2, <1>14 DEF x

(* The compiled validator and the interpreter: wherever the walk of what a *)
(* plan is compiled to returns, whatever bounds and required names were    *)
(* folded into the walk of a structure, whatever cases are looked up       *)
(* instead of scanned through, it accepts what the interpreter accepts and *)
(* rejects what that rejects.  No name of the instance is one that the     *)
(* re-encoding of names for propertyNames garbles (nodes.go:412-414).      *)
THEOREM OkAgreesWithInterpret ==
  ASSUME PlanSetting
  PROVE  \A c \in Walks : \A D \in [DOMAIN c[1] -> Plans] : Compiles(c[1], D) => Agreed(D, c)
<1> DEFINE Holds(c) == \A D \in [DOMAIN c[1] -> Plans] : Compiles(c[1], D) => Agreed(D, c)
           Bad == {c \in Walks : ~ Holds(c)}
<1> SUFFICES ASSUME Bad # {} PROVE FALSE
  OBVIOUS
<1> HIDE DEF Holds
<1>1. {Depth(c) : c \in Bad} \in SUBSET Nat /\ {Depth(c) : c \in Bad} # {}
  BY DEF PlanSetting, Setting, Returning
<1>2. PICK k \in {Depth(c) : c \in Bad} : \A l \in {Depth(c) : c \in Bad} : k <= l
  BY <1>1, HasLeast
<1>3. PICK c \in Bad : Depth(c) = k
  BY <1>2
<1>4. c \in Walks /\ ~ Holds(c)
  BY <1>3
<1>5. PICK D \in [DOMAIN c[1] -> Plans] : Compiles(c[1], D) /\ ~ Agreed(D, c)
  BY <1>4 DEF Holds
<1>6. ASSUME NEW d \in Walks, d[1] = c[1], Depth(d) < Depth(c) PROVE Agreed(D, d)
  <2>1. Depth(d) \in Nat /\ Depth(c) \in Nat
    BY <1>4 DEF PlanSetting, Setting, Returning
  <2>2. d \notin Bad
    BY <1>2, <1>3, <1>6, <2>1
  <2>3. Holds(d)
    BY <2>2
  <2> QED
    BY <1>5, <1>6, <2>3 DEF Holds
<1>7. ASSUME NEW p \in Plans, NEW active \in SUBSET DOMAIN c[1], c[2] = CompilePlan(p), c[2] # Unsupported
      PROVE  Agrees(Interpret(p, c[3], active, Env(D)), Ok(c[1], c[2], c[3]))
  <2>1. Matched(c, p, D)
    BY <1>4, <1>5, <1>6, <1>7 DEF Matched
  <2> QED
    BY <2>1, PlanAgrees
<1>8. Agreed(D, c)
  BY <1>7 DEF Agreed
<1> QED
  BY <1>5, <1>8

-----------------------------------------------------------------------------
(* What the validator promises.                                            *)

(* The definitions of a dynamic reference graph are never compiled.        *)
InputsFormed ==
  \A x \in Inputs : /\ x.root \in Plans /\ x.defs \in [DOMAIN x.defs -> Plans]
                    /\ x.root.dynamic => DOMAIN x.defs = {}

(* Of the instances the validator can be held to, the walk returns.        *)
QuotableReturn ==
  phase = "ready" => \A v \in Instances \cap Quotable : <<table, root, v>> \in Walks

(* Each definition that is not pending, and the root when all is ready,    *)
(* is what its plan is compiled to.                                        *)
CInv ==
  /\ input \in Inputs
  /\ pending \subseteq Collected(input)
  /\ DOMAIN table = Collected(input)
  /\ \A d \in DOMAIN table \ pending : table[d] = CompilePlan(input.defs[d]) /\ table[d] # Unsupported
  /\ phase = "ready" => pending = {} /\ root = CompilePlan(input.root) /\ root # Unsupported

LEMMA CInvIsInductive ==
  /\ Init => CInv
  /\ CInv /\ [Next]_vars => CInv'
<1>1. Init => CInv
  BY DEF Init, CInv
<1>2. ASSUME CInv, [Next]_vars PROVE CInv'
  <2>1. CASE CompileDefinition
    <3>1. PICK d \in pending :
            LET n == CompilePlan(input.defs[d])
            IN  IF n = Unsupported
                THEN phase' = "failed" /\ UNCHANGED <<pending, table>>
                ELSE /\ table' = [table EXCEPT ![d] = n]
                     /\ pending' = pending \ {d}
                     /\ UNCHANGED phase
      BY <2>1 DEF CompileDefinition
    <3>2. phase = "definitions" /\ UNCHANGED <<input, root>>
      BY <2>1 DEF CompileDefinition
    <3> DEFINE n == CompilePlan(input.defs[d])
    <3>3. CASE n = Unsupported
      BY <1>2, <3>1, <3>2, <3>3 DEF CInv
    <3>4. CASE n # Unsupported
      <4>1. table' = [table EXCEPT ![d] = n] /\ pending' = pending \ {d} /\ phase' = phase
        BY <3>1, <3>4
      <4>2. DOMAIN table' = DOMAIN table /\ d \in DOMAIN table
        BY <1>2, <4>1 DEF CInv
      <4>3. \A i \in DOMAIN table \ (pending \ {d}) :
              table'[i] = CompilePlan(input.defs[i]) /\ table'[i] # Unsupported
        BY <1>2, <3>4, <4>1, <4>2 DEF CInv
      <4> HIDE DEF n
      <4> QED
        BY <1>2, <3>2, <4>1, <4>2, <4>3 DEF CInv
    <3> QED
      BY <3>3, <3>4
  <2>2. CASE CompileRoot
    BY <1>2, <2>2 DEF CompileRoot, CInv
  <2>3. CASE IsValid
    BY <1>2, <2>3 DEF IsValid, CInv
  <2>4. CASE UNCHANGED vars
    BY <1>2, <2>4 DEF vars, CInv
  <2> QED
    BY <1>2, <2>1, <2>2, <2>3, <2>4 DEF Next
<1> QED
  BY <1>1, <1>2

(* ImplementsOracle: each answer is the interpreter's, or either where it  *)
(* could not tell and did not accept, or where the instance has a name that*)
(* cannot be quoted.                                                       *)
THEOREM ValidatorImplementsOracle ==
  ASSUME PlanSetting, InputsFormed
  PROVE  Spec /\ []QuotableReturn => ImplementsOracle
<1>1. Init => Oracle!Init
  BY DEF Init, Oracle!Init, Unasked, Oracle!Unasked
<1>2. CInv /\ QuotableReturn /\ [Next]_vars => [Oracle!Answer]_<<input.root, input.defs, instance, answer>>
  <2> SUFFICES ASSUME CInv, QuotableReturn, [Next]_vars
               PROVE  Oracle!Answer \/ UNCHANGED <<input.root, input.defs, instance, answer>>
    OBVIOUS
  <2>1. CASE CompileDefinition \/ CompileRoot \/ UNCHANGED vars
    BY <2>1 DEF CompileDefinition, CompileRoot, vars
  <2>2. CASE IsValid
    <3> DEFINE c == <<table, root, instance'>>
               D == input.defs
               r == Interpret(input.root, instance', {}, Env(D))
    <3>1. /\ phase = "ready" /\ instance' \in Instances
          /\ answer' = IF Ok(table, root, instance') THEN "accepted" ELSE "rejected"
          /\ UNCHANGED input
      BY <2>2 DEF IsValid
    <3>2. c[1] = table /\ c[2] = root /\ c[3] = instance'
      OBVIOUS
    <3>3. /\ input.root \in Plans /\ D \in [DOMAIN D -> Plans] /\ DOMAIN table = DOMAIN D
          /\ root = CompilePlan(input.root) /\ root # Unsupported
          /\ \A d \in DOMAIN table : table[d] = CompilePlan(D[d]) /\ table[d] # Unsupported
      BY <3>1 DEF CInv, InputsFormed, Collected
    <3>4. instance' \in Quotable => c \in Walks
      BY <3>1 DEF QuotableReturn
    <3> HIDE DEF c
    <3>5. D \in [DOMAIN c[1] -> Plans] /\ Compiles(c[1], D)
      BY <3>2, <3>3 DEF Compiles
    <3>6. {} \in SUBSET DOMAIN c[1] /\ c[2] = CompilePlan(input.root) /\ c[2] # Unsupported
      BY <3>2, <3>3
    <3>7. instance' \in Quotable => Agrees(r, Ok(table, root, instance'))
      <4> SUFFICES ASSUME instance' \in Quotable PROVE Agrees(r, Ok(table, root, instance'))
        OBVIOUS
      <4>1. Agreed(D, c)
        BY <3>4, <3>5, OkAgreesWithInterpret
      <4> QED
        BY <3>2, <3>3, <3>6, <4>1 DEF Agreed
    <3> DEFINE judged == instance' \in Quotable
    <3>8. Oracle!Answers(instance') =
            CASE judged /\ r.verdict = "accepted" -> {"accepted"}
              [] judged /\ r.verdict = "rejected" /\ ~ r.approximated -> {"rejected"}
              [] OTHER -> {"accepted", "rejected"}
      BY DEF Oracle!Answers, Env
    <3> HIDE DEF r
    <3>9. answer' \in Oracle!Answers(instance')
      <4>1. answer' \in {"accepted", "rejected"}
        BY <3>1
      <4>2. CASE judged /\ r.verdict = "accepted"
        BY <3>1, <3>7, <3>8, <4>2 DEF Agrees
      <4>3. CASE judged /\ r.verdict = "rejected" /\ ~ r.approximated
        BY <3>1, <3>7, <3>8, <4>3 DEF Agrees
      <4>4. CASE /\ ~ (judged /\ r.verdict = "accepted")
                 /\ ~ (judged /\ r.verdict = "rejected" /\ ~ r.approximated)
        BY <3>8, <4>1, <4>4
      <4> QED
        BY <4>2, <4>3, <4>4
    <3>10. UNCHANGED <<input.root, input.defs>>
      BY <3>1
    <3> QED
      BY <3>1, <3>9, <3>10 DEF Oracle!Answer
  <2> QED
    BY <2>1, <2>2 DEF Next
<1>3. Init => CInv
  BY CInvIsInductive
<1>4. CInv /\ [Next]_vars => CInv'
  BY CInvIsInductive
<1> QED
  BY <1>1, <1>2, <1>3, <1>4, PTL DEF Spec, ImplementsOracle, Oracle!Spec
=============================================================================

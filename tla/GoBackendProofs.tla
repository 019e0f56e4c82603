--------------------------- MODULE GoBackendProofs ---------------------------
(***************************************************************************)
(* For every set of declared types: pointers break every cycle of inline   *)
(* storage, and break nothing else; and whatever the graph of calls, the   *)
(* types that get a method are those that reach a check, and pruning drops *)
(* no call that leads to one.                                              *)
(*                                                                         *)
(* Types are the finite terms over any set of leaves: Variants says what a *)
(* type is made of, Smaller that its parts are smaller than it is, Closed  *)
(* that what is built of types is one, and Knots that the operators that   *)
(* recurse obey the definitions of TypeCycles.                             *)
(***************************************************************************)
EXTENDS ValidateMethods, TypeCycles, SequenceTheorems, WellFoundedInduction, TLAPS

CONSTANTS
  Terms,     (* the Go types, finite terms of the variants of type.go      *)
  Labels,    (* names of fields and patterns                               *)
  Size(_)    (* of a type                                                  *)

Leaves == {"named", "primitive", "any", "never", "pointer"}
Fields == [json : Labels, type : Terms]

(* A type is a leaf or built of smaller types, and what is built of types  *)
(* is a type.  The only pointers are those to a declared type.             *)
Variants ==
  \A t \in Terms :
    /\ t[1] \in Leaves \cup {"slice", "map", "presence", "enum", "interface", "tuple", "struct"}
    /\ t[1] \in {"slice", "map", "presence", "enum"} => t[2] \in Terms
    /\ t[1] = "interface" => t[2] \in Seq(Terms)
    /\ t[1] = "tuple" => t[2] \in Seq(Terms) /\ t[3] \in Seq(Terms)
    /\ t[1] = "struct" => /\ t[2] \in Seq(Fields) /\ t[3] \in Seq(Terms) /\ t[4] \in Seq(Terms)
                          /\ \A i \in DOMAIN t[3] : t[3][i][1] = "map"

Smaller ==
  \A t \in Terms :
    /\ Size(t) \in Nat
    /\ \A i \in DOMAIN Inline(t) : Size(Inline(t)[i]) < Size(t)
    /\ \A i \in DOMAIN Behind(t) : Size(Behind(t)[i]) < Size(t)

Closed ==
  /\ \A t \in Terms : t[1] = "named" => <<"pointer", t>> \in Terms
  /\ \A t, u \in Terms :
       /\ t[1] = "slice" => <<"slice", u>> \in Terms
       /\ t[1] = "map" => <<"map", u, t[3]>> \in Terms
       /\ t[1] = "presence" => <<"presence", u, t[3], t[4]>> \in Terms
       /\ t[1] = "enum" => <<"enum", u, t[3]>> \in Terms
  /\ \A ts, us \in Seq(Terms) : <<"interface", ts>> \in Terms /\ <<"tuple", ts, us>> \in Terms
  /\ \A fs \in Seq(Fields), ts, us \in Seq(Terms) :
       (\A i \in DOMAIN ts : ts[i][1] = "map") => <<"struct", fs, ts, us>> \in Terms

Knots ==
  \A t \in Terms :
    /\ InlineParts(t) = InlinePartsBy(t)
    /\ AllParts(t) = AllPartsBy(t)
    /\ \A marked : Pointerize(t, marked) = PointerizeBy(t, marked)

Language == Variants /\ Smaller /\ Closed /\ Knots

-----------------------------------------------------------------------------
(* Lower makes no pointers, and nothing after breakCycles alters a type.   *)

Lowered == stage = "lowered" /\ \A id \in DOMAIN types : types[id] \in Terms /\ Plain(types[id])

Later == Settled /\ Settled' /\ UNCHANGED types

CyclesSpec == Lowered /\ [][BreakCycles \/ Later]_<<types, stage>>

-----------------------------------------------------------------------------

LEMMA HasLeast ==
  ASSUME NEW S \in SUBSET Nat, S # {}
  PROVE  \E x \in S : \A y \in S : x <= y
<1>1. PICK x \in S : \A y \in S : <<y, x>> \notin OpToRel(<, Nat)
  BY NatLessThanWellFounded, WFMin
<1>2. ASSUME NEW y \in S PROVE x <= y
  <2>1. x \in Nat /\ y \in Nat
    OBVIOUS
  <2>2. y < x => <<y, x>> \in OpToRel(<, Nat)
    BY <2>1 DEF OpToRel
  <2>3. <<y, x>> \notin OpToRel(<, Nat)
    BY <1>1
  <2>4. ~ (y < x)
    BY <2>2, <2>3
  <2> QED
    BY <2>1, <2>4
<1> QED
  BY <1>2

LEMMA HasSmallest ==
  ASSUME Language, NEW S \in SUBSET Terms, S # {}
  PROVE  \E t \in S : \A u \in S : ~ (Size(u) < Size(t))
<1> DEFINE H == {Size(t) : t \in S}
<1>1. H \in SUBSET Nat /\ H # {}
  BY DEF Language, Smaller
<1>2. PICK n \in H : \A m \in H : n <= m
  BY <1>1, HasLeast
<1>3. PICK t \in S : Size(t) = n
  BY <1>2
<1>4. \A u \in S : Size(u) \in H /\ Size(u) \in Nat
  BY DEF Language, Smaller
<1>5. n \in Nat
  BY <1>1, <1>2
<1> HIDE DEF H
<1> QED
  BY <1>2, <1>3, <1>4, <1>5

LEMMA FieldsHaveTypes ==
  ASSUME NEW t, t[2] \in Seq(Fields)
  PROVE  /\ FieldTypes(t) \in Seq(Terms) /\ Len(FieldTypes(t)) = Len(t[2])
         /\ \A i \in DOMAIN t[2] : FieldTypes(t)[i] = t[2][i].type /\ t[2][i].type \in Terms
<1>1. DOMAIN t[2] = 1 .. Len(t[2]) /\ Len(t[2]) \in Nat /\ \A i \in DOMAIN t[2] : t[2][i] \in Fields
  OBVIOUS
<1>2. \A i \in DOMAIN t[2] : t[2][i].type \in Terms
  BY <1>1 DEF Fields
<1>3. FieldTypes(t) = [i \in 1 .. Len(t[2]) |-> t[2][i].type]
  BY <1>1 DEF FieldTypes
<1>4. FieldTypes(t) \in Seq(Terms) /\ Len(FieldTypes(t)) = Len(t[2])
  BY <1>1, <1>2, <1>3
<1> QED
  BY <1>1, <1>2, <1>3, <1>4

(* Two lists, put one after the other, element by element.                 *)
Mapped(f, ss, us) == Len(us) = Len(ss) /\ \A i \in 1 .. Len(ss) : us[i] = f[ss[i]]

LEMMA Conjoined ==
  ASSUME NEW S, NEW T, NEW f,
         NEW ss \in Seq(S), NEW ts \in Seq(S), NEW us \in Seq(T), NEW vs \in Seq(T),
         Mapped(f, ss, us), Mapped(f, ts, vs)
  PROVE  us \o vs \in Seq(T) /\ Mapped(f, ss \o ts, us \o vs)
<1>1. /\ us \o vs \in Seq(T) /\ Len(us \o vs) = Len(us) + Len(vs)
      /\ \A i \in 1 .. Len(us) + Len(vs) :
           (us \o vs)[i] = IF i <= Len(us) THEN us[i] ELSE vs[i - Len(us)]
  BY ConcatProperties
<1>2. /\ ss \o ts \in Seq(S) /\ Len(ss \o ts) = Len(ss) + Len(ts)
      /\ \A i \in 1 .. Len(ss) + Len(ts) :
           (ss \o ts)[i] = IF i <= Len(ss) THEN ss[i] ELSE ts[i - Len(ss)]
  BY ConcatProperties
<1>3. /\ Len(us) = Len(ss) /\ Len(vs) = Len(ts) /\ Len(ss) \in Nat /\ Len(ts) \in Nat
      /\ \A i \in 1 .. Len(ss) : us[i] = f[ss[i]]
      /\ \A i \in 1 .. Len(ts) : vs[i] = f[ts[i]]
  BY DEF Mapped
<1>4. ASSUME NEW i \in 1 .. Len(ss) + Len(ts) PROVE (us \o vs)[i] = f[(ss \o ts)[i]]
  <2>1. CASE i <= Len(ss)
    <3>1. i \in 1 .. Len(ss)
      BY <1>3, <2>1
    <3> QED
      BY <1>1, <1>2, <1>3, <2>1, <3>1
  <2>2. CASE ~ (i <= Len(ss))
    <3>1. i - Len(ss) \in 1 .. Len(ts)
      BY <1>3, <2>2
    <3> QED
      BY <1>1, <1>2, <1>3, <2>2, <3>1
  <2> QED
    BY <2>1, <2>2
<1> QED
  BY <1>1, <1>2, <1>3, <1>4 DEF Mapped

(* What a type holds.                                                      *)
LEMMA PartsAreTypes ==
  ASSUME Language, NEW t \in Terms
  PROVE  /\ \A i \in DOMAIN Inline(t) : Inline(t)[i] \in Terms /\ Size(Inline(t)[i]) < Size(t)
         /\ \A i \in DOMAIN Behind(t) : Behind(t)[i] \in Terms /\ Size(Behind(t)[i]) < Size(t)
<1>1. Inline(t) \in Seq(Terms)
  <2>1. CASE t[1] = "struct"
    <3>1. t[2] \in Seq(Fields) /\ t[3] \in Seq(Terms)
      BY <2>1 DEF Language, Variants
    <3>2. FieldTypes(t) \in Seq(Terms)
      BY <3>1, FieldsHaveTypes
    <3> QED
      BY <2>1, <3>1, <3>2 DEF Inline
  <2>2. CASE t[1] = "tuple"
    BY <2>2 DEF Language, Variants, Inline
  <2>3. CASE t[1] \in {"presence", "enum"}
    BY <2>3 DEF Language, Variants, Inline
  <2>4. CASE t[1] \notin {"struct", "tuple", "presence", "enum"}
    BY <2>4 DEF Inline
  <2> QED
    BY <2>1, <2>2, <2>3, <2>4
<1>2. Behind(t) \in Seq(Terms)
  BY DEF Language, Variants, Behind
<1>3. \A i \in DOMAIN Inline(t) : Inline(t)[i] \in Terms
  BY <1>1
<1>4. \A i \in DOMAIN Behind(t) : Behind(t)[i] \in Terms
  BY <1>2
<1> QED
  BY <1>3, <1>4 DEF Language, Smaller

(* Pointerizing touches the slots, and the slots alone.                    *)
LEMMA PointerizeOfSlots ==
  ASSUME Language, NEW t \in Terms, NEW marked
  PROVE  LET p == Pointerize(t, marked)
         IN  /\ p[1] = t[1] /\ (t[1] = "named" => p = t)
             /\ DOMAIN Inline(p) = DOMAIN Inline(t)
             /\ \A i \in DOMAIN Inline(t) : Inline(p)[i] = Direct(Inline(t)[i], marked)
             /\ DOMAIN Behind(p) = DOMAIN Behind(t)
             /\ \A i \in DOMAIN Behind(t) : Behind(p)[i] = Pointerize(Behind(t)[i], marked)
<1> DEFINE p == Pointerize(t, marked)
<1>1. p = PointerizeBy(t, marked)
  BY DEF Language, Knots
<1> HIDE DEF p
<1>2. CASE t[1] \in Leaves
  <2>1. p = t /\ Inline(t) = <<>> /\ Behind(t) = <<>>
    BY <1>1, <1>2 DEF PointerizeBy, Inline, Behind, Leaves
  <2> QED
    BY <2>1 DEF p
<1>3. CASE t[1] \in {"slice", "map"}
  <2>1. p[1] = t[1] /\ p[2] = Pointerize(t[2], marked)
    BY <1>1, <1>3 DEF PointerizeBy
  <2>2. Inline(p) = <<>> /\ Inline(t) = <<>> /\ Behind(p) = <<Pointerize(t[2], marked)>> /\ Behind(t) = <<t[2]>>
    BY <1>3, <2>1 DEF Inline, Behind
  <2> QED
    BY <1>3, <2>1, <2>2 DEF p
<1>4. CASE t[1] \in {"presence", "enum"}
  <2>1. p[1] = t[1] /\ p[2] = Direct(t[2], marked)
    BY <1>1, <1>4 DEF PointerizeBy
  <2>2. Behind(p) = <<>> /\ Behind(t) = <<>> /\ Inline(p) = <<Direct(t[2], marked)>> /\ Inline(t) = <<t[2]>>
    BY <1>4, <2>1 DEF Inline, Behind
  <2> QED
    BY <1>4, <2>1, <2>2 DEF p
<1>5. CASE t[1] = "interface"
  BY <1>1, <1>5 DEF PointerizeBy, Inline, Behind, p
<1>6. CASE t[1] = "tuple"
  BY <1>1, <1>6 DEF PointerizeBy, Inline, Behind, p
<1>7. CASE t[1] = "struct"
  <2> DEFINE fs == [i \in DOMAIN t[2] |-> [t[2][i] EXCEPT !.type = Direct(@, marked)]]
             ms == [i \in DOMAIN t[3] |-> Pointerize(t[3][i], marked)]
             as == [i \in DOMAIN t[4] |-> Pointerize(t[4][i], marked)]
  <2>1. p = <<"struct", fs, ms, as>>
    BY <1>1, <1>7 DEF PointerizeBy
  <2>2. /\ t[2] \in Seq(Fields) /\ t[3] \in Seq(Terms) /\ t[4] \in Seq(Terms)
        /\ \A i \in DOMAIN t[3] : t[3][i][1] = "map"
    BY <1>7 DEF Language, Variants
  <2>3. Behind(p) = as /\ Behind(t) = t[4]
    BY <1>7, <2>1 DEF Behind
  <2>4. \A i \in DOMAIN t[3] : ms[i] = Direct(t[3][i], marked)
    BY <2>2 DEF Direct
  <2> DEFINE S == {Direct(u, marked) : u \in Terms}
             gs == FieldTypes(p)
  <2>5. /\ FieldTypes(t) \in Seq(Terms) /\ Len(FieldTypes(t)) = Len(t[2])
        /\ \A i \in DOMAIN t[2] : FieldTypes(t)[i] = t[2][i].type /\ t[2][i].type \in Terms
    BY <2>2, FieldsHaveTypes
  <2>6. ASSUME NEW i \in DOMAIN t[2] PROVE fs[i].type = Direct(FieldTypes(t)[i], marked) /\ fs[i].type \in S
    <3>1. t[2][i] \in Fields
      BY <2>2
    <3>2. fs[i].type = Direct(t[2][i].type, marked)
      BY <3>1 DEF Fields
    <3> QED
      BY <2>5, <3>2
  <2>7. gs = [i \in 1 .. Len(t[2]) |-> fs[i].type] /\ DOMAIN t[2] = 1 .. Len(t[2]) /\ Len(t[2]) \in Nat
    BY <2>1, <2>2 DEF FieldTypes
  <2> HIDE DEF fs
  <2>8. gs \in Seq(S) /\ Len(gs) = Len(FieldTypes(t)) /\ \A i \in 1 .. Len(FieldTypes(t)) : gs[i] = Direct(FieldTypes(t)[i], marked)
    BY <2>5, <2>6, <2>7
  <2>9. ms \in Seq(S) /\ Len(ms) = Len(t[3]) /\ \A i \in 1 .. Len(t[3]) : ms[i] = Direct(t[3][i], marked)
    <3>1. DOMAIN t[3] = 1 .. Len(t[3]) /\ Len(t[3]) \in Nat /\ \A i \in DOMAIN t[3] : t[3][i] \in Terms
      BY <2>2
    <3>2. \A i \in DOMAIN t[3] : ms[i] = Direct(t[3][i], marked) /\ ms[i] \in S
      BY <2>4, <3>1
    <3>3. ms = [i \in 1 .. Len(t[3]) |-> ms[i]]
      BY <3>1
    <3> HIDE DEF ms, S
    <3>4. [i \in 1 .. Len(t[3]) |-> ms[i]] \in Seq(S)
      BY <3>1, <3>2
    <3>5. Len(ms) = Len(t[3])
      BY <3>1, <3>3
    <3> QED
      BY <3>1, <3>2, <3>3, <3>4, <3>5
  <2>10. Inline(p) = gs \o ms /\ Inline(t) = FieldTypes(t) \o t[3]
    BY <1>7, <2>1 DEF Inline
  <2>11. t[3] \in Seq(Terms)
    BY <2>2
  <2> HIDE DEF gs, ms, as, S
  <2>12. /\ DOMAIN Inline(p) = DOMAIN Inline(t)
         /\ \A i \in DOMAIN Inline(t) : Inline(p)[i] = Direct(Inline(t)[i], marked)
    <3> DEFINE f == [u \in Terms |-> Direct(u, marked)]
    <3>1. /\ \A i \in 1 .. Len(FieldTypes(t)) : gs[i] = f[FieldTypes(t)[i]]
          /\ \A i \in 1 .. Len(t[3]) : ms[i] = f[t[3][i]]
      BY <2>5, <2>8, <2>9, <2>11
    <3>0. f \in [Terms -> S]
      BY DEF S
    <3>2. \A i \in DOMAIN (FieldTypes(t) \o t[3]) : f[(FieldTypes(t) \o t[3])[i]] = Direct((FieldTypes(t) \o t[3])[i], marked)
      <4>1. FieldTypes(t) \o t[3] \in Seq(Terms)
        BY <2>5, <2>11
      <4>2. \A i \in DOMAIN (FieldTypes(t) \o t[3]) : (FieldTypes(t) \o t[3])[i] \in Terms
        BY <4>1
      <4> QED
        BY <4>2
    <3> HIDE DEF f
    <3>3. FieldTypes(t) \in Seq(Terms) /\ gs \in Seq(S) /\ ms \in Seq(S)
      BY <2>5, <2>8, <2>9
    <3>4. Mapped(f, FieldTypes(t), gs) /\ Mapped(f, t[3], ms)
      BY <2>8, <2>9, <3>1 DEF Mapped
    <3>5. gs \o ms \in Seq(S) /\ Mapped(f, FieldTypes(t) \o t[3], gs \o ms)
      BY <2>11, <3>3, <3>4, Conjoined
    <3>6. FieldTypes(t) \o t[3] \in Seq(Terms)
      BY <2>11, <3>3
    <3>7. /\ DOMAIN (gs \o ms) = DOMAIN (FieldTypes(t) \o t[3])
          /\ \A i \in DOMAIN (FieldTypes(t) \o t[3]) : (gs \o ms)[i] = f[(FieldTypes(t) \o t[3])[i]]
      BY <3>5, <3>6 DEF Mapped
    <3> QED
      BY <2>10, <3>2, <3>7
  <2> QED
    BY <1>7, <2>1, <2>3, <2>12 DEF p, as
<1> QED
  BY <1>2, <1>3, <1>4, <1>5, <1>6, <1>7 DEF Language, Variants, Leaves

LEMMA StructSlots ==
  ASSUME Language, NEW t \in Terms, t[1] = "struct"
  PROVE  /\ \A i \in DOMAIN t[2] : t[2][i].type \in Terms /\ Size(t[2][i].type) < Size(t)
         /\ \A i \in DOMAIN t[3] : t[3][i] \in Terms /\ Size(t[3][i]) < Size(t)
<1>1. t[2] \in Seq(Fields) /\ t[3] \in Seq(Terms)
  BY DEF Language, Variants
<1>2. /\ FieldTypes(t) \in Seq(Terms) /\ Len(FieldTypes(t)) = Len(t[2])
      /\ \A i \in DOMAIN t[2] : FieldTypes(t)[i] = t[2][i].type /\ t[2][i].type \in Terms
  BY <1>1, FieldsHaveTypes
<1> DEFINE all == FieldTypes(t) \o t[3]
           n == Len(t[2])
           m == Len(t[3])
<1>3. /\ Len(all) = n + m
      /\ \A i \in 1 .. n + m : all[i] = IF i <= n THEN FieldTypes(t)[i] ELSE t[3][i - n]
  <2>1. FieldTypes(t) \in Seq(Terms) /\ t[3] \in Seq(Terms)
    BY <1>1, <1>2
  <2>2. /\ Len(FieldTypes(t) \o t[3]) = Len(FieldTypes(t)) + Len(t[3])
        /\ \A i \in 1 .. Len(FieldTypes(t)) + Len(t[3]) :
             (FieldTypes(t) \o t[3])[i] = IF i <= Len(FieldTypes(t)) THEN FieldTypes(t)[i] ELSE t[3][i - Len(FieldTypes(t))]
    BY <2>1, ConcatProperties
  <2> QED
    BY <1>2, <2>2
<1>4. /\ n \in Nat /\ m \in Nat /\ DOMAIN t[2] = 1 .. n /\ DOMAIN t[3] = 1 .. m
      /\ \A i \in DOMAIN t[3] : t[3][i] \in Terms
  BY <1>1
<1>5. all = Inline(t) /\ all \in Seq(Terms)
  BY <1>1, <1>2 DEF Inline
<1>6. DOMAIN all = 1 .. n + m
  BY <1>3, <1>5
<1>7. \A i \in DOMAIN all : Size(all[i]) < Size(t)
  BY <1>5, PartsAreTypes
<1> HIDE DEF all, n, m
<1>8. ASSUME NEW i \in DOMAIN t[2] PROVE Size(t[2][i].type) < Size(t)
  <2>1. i \in DOMAIN all /\ i <= n
    BY <1>4, <1>6
  <2>2. all[i] = t[2][i].type
    BY <1>2, <1>3, <1>6, <2>1
  <2> QED
    BY <1>7, <2>1, <2>2
<1>9. ASSUME NEW i \in DOMAIN t[3] PROVE Size(t[3][i]) < Size(t)
  <2>1. n + i \in DOMAIN all /\ ~ (n + i <= n) /\ (n + i) - n = i
    BY <1>4, <1>6
  <2>2. all[n + i] = t[3][i]
    BY <1>3, <1>6, <2>1
  <2> QED
    BY <1>7, <2>1, <2>2
<1> QED
  BY <1>2, <1>4, <1>8, <1>9

LEMMA DirectMakesTypes ==
  ASSUME Language, NEW t \in Terms, NEW marked, Pointerize(t, marked) \in Terms
  PROVE  Direct(t, marked) \in Terms
BY DEF Direct, Language, Closed

(* Of types, pointerizing makes types.                                     *)
LEMMA MakesTypes ==
  ASSUME Language, NEW marked
  PROVE  \A t \in Terms : Pointerize(t, marked) \in Terms /\ Direct(t, marked) \in Terms
<1> DEFINE Bad == {t \in Terms : Pointerize(t, marked) \notin Terms}
<1>1. SUFFICES ASSUME Bad # {} PROVE FALSE
  BY DirectMakesTypes
<1>2. PICK t \in Bad : \A u \in Bad : ~ (Size(u) < Size(t))
  BY <1>1, HasSmallest
<1>3. \A u \in Terms : Size(u) < Size(t) => Pointerize(u, marked) \in Terms
  BY <1>2
<1>4. \A u \in Terms : Size(u) < Size(t) => Direct(u, marked) \in Terms
  BY <1>3, DirectMakesTypes
<1>5. t \in Terms /\ Pointerize(t, marked) \notin Terms
  BY <1>2
<1> HIDE DEF Bad
<1>6. Pointerize(t, marked) = PointerizeBy(t, marked)
  BY <1>5 DEF Language, Knots
<1>7. /\ \A i \in DOMAIN Inline(t) : Inline(t)[i] \in Terms /\ Size(Inline(t)[i]) < Size(t)
      /\ \A i \in DOMAIN Behind(t) : Behind(t)[i] \in Terms /\ Size(Behind(t)[i]) < Size(t)
  BY <1>5, PartsAreTypes
<1>8. CASE t[1] \in Leaves
  <2>1. Pointerize(t, marked) = t
    BY <1>6, <1>8 DEF PointerizeBy, Leaves
  <2> QED
    BY <1>5, <2>1
<1>9. CASE t[1] \in {"slice", "map"}
  <2>1. Pointerize(t[2], marked) \in Terms
    <3>1. Behind(t) = <<t[2]>>
      BY <1>9 DEF Behind
    <3>2. t[2] \in Terms /\ Size(t[2]) < Size(t)
      BY <1>7, <3>1
    <3> QED
      BY <1>3, <3>2
  <2>2. CASE t[1] = "slice"
    <3>1. Pointerize(t, marked) = <<"slice", Pointerize(t[2], marked)>>
      BY <1>6, <2>2 DEF PointerizeBy
    <3> QED
      BY <1>5, <2>1, <2>2, <3>1 DEF Language, Closed
  <2>3. CASE t[1] = "map"
    <3>1. Pointerize(t, marked) = <<"map", Pointerize(t[2], marked), t[3]>>
      BY <1>6, <2>3 DEF PointerizeBy
    <3> QED
      BY <1>5, <2>1, <2>3, <3>1 DEF Language, Closed
  <2> QED
    BY <1>9, <2>2, <2>3
<1>10. CASE t[1] \in {"presence", "enum"}
  <2>1. Direct(t[2], marked) \in Terms
    <3>1. Inline(t) = <<t[2]>>
      BY <1>10 DEF Inline
    <3>2. t[2] \in Terms /\ Size(t[2]) < Size(t)
      BY <1>7, <3>1
    <3> QED
      BY <1>4, <3>2
  <2>2. CASE t[1] = "presence"
    <3>1. Pointerize(t, marked) = <<"presence", Direct(t[2], marked), t[3], t[4]>>
      BY <1>6, <2>2 DEF PointerizeBy
    <3> QED
      BY <1>5, <2>1, <2>2, <3>1 DEF Language, Closed
  <2>3. CASE t[1] = "enum"
    <3>1. Pointerize(t, marked) = <<"enum", Direct(t[2], marked), t[3]>>
      BY <1>6, <2>3 DEF PointerizeBy
    <3> QED
      BY <1>5, <2>1, <2>3, <3>1 DEF Language, Closed
  <2> QED
    BY <1>10, <2>2, <2>3
<1>11. CASE t[1] = "interface"
  <2> DEFINE vs == [i \in DOMAIN t[2] |-> Pointerize(t[2][i], marked)]
  <2>1. Pointerize(t, marked) = <<"interface", vs>>
    BY <1>6, <1>11 DEF PointerizeBy
  <2>2. t[2] \in Seq(Terms) /\ Behind(t) = t[2]
    BY <1>5, <1>11 DEF Language, Variants, Behind
  <2>3. \A i \in DOMAIN t[2] : Pointerize(t[2][i], marked) \in Terms
    BY <1>3, <1>7, <2>2
  <2>4. vs \in Seq(Terms)
    BY <2>2, <2>3
  <2> HIDE DEF vs
  <2> QED
    BY <1>5, <2>1, <2>4 DEF Language, Closed
<1>12. CASE t[1] = "tuple"
  <2> DEFINE es == [i \in DOMAIN t[2] |-> Direct(t[2][i], marked)]
             rs == [i \in DOMAIN t[3] |-> Pointerize(t[3][i], marked)]
  <2>1. Pointerize(t, marked) = <<"tuple", es, rs>>
    BY <1>6, <1>12 DEF PointerizeBy
  <2>2. t[2] \in Seq(Terms) /\ t[3] \in Seq(Terms) /\ Inline(t) = t[2] /\ Behind(t) = t[3]
    BY <1>5, <1>12 DEF Language, Variants, Behind, Inline
  <2>3. \A i \in DOMAIN t[2] : Direct(t[2][i], marked) \in Terms
    BY <1>4, <1>7, <2>2
  <2>4. \A i \in DOMAIN t[3] : Pointerize(t[3][i], marked) \in Terms
    BY <1>3, <1>7, <2>2
  <2>5. es \in Seq(Terms)
    BY <2>2, <2>3
  <2>6. rs \in Seq(Terms)
    BY <2>2, <2>4
  <2> HIDE DEF es, rs
  <2> QED
    BY <1>5, <2>1, <2>5, <2>6 DEF Language, Closed
<1>13. CASE t[1] = "struct"
  <2> DEFINE fs == [i \in DOMAIN t[2] |-> [t[2][i] EXCEPT !.type = Direct(@, marked)]]
             ms == [i \in DOMAIN t[3] |-> Pointerize(t[3][i], marked)]
             as == [i \in DOMAIN t[4] |-> Pointerize(t[4][i], marked)]
  <2>1. Pointerize(t, marked) = <<"struct", fs, ms, as>>
    BY <1>6, <1>13 DEF PointerizeBy
  <2>2. /\ t[2] \in Seq(Fields) /\ t[3] \in Seq(Terms) /\ t[4] \in Seq(Terms) /\ Behind(t) = t[4]
        /\ \A i \in DOMAIN t[3] : t[3][i][1] = "map"
    BY <1>5, <1>13 DEF Language, Variants, Behind
  <2>3. /\ \A i \in DOMAIN t[2] : t[2][i].type \in Terms /\ Size(t[2][i].type) < Size(t)
        /\ \A i \in DOMAIN t[3] : t[3][i] \in Terms /\ Size(t[3][i]) < Size(t)
    BY <1>5, <1>13, StructSlots
  <2>4. \A i \in DOMAIN t[2] : Direct(t[2][i].type, marked) \in Terms
    BY <1>4, <2>3
  <2>5. \A i \in DOMAIN t[2] : fs[i] \in Fields
    <3> TAKE i \in DOMAIN t[2]
    <3>1. t[2][i] \in Fields
      BY <2>2
    <3>2. fs[i] = [t[2][i] EXCEPT !.type = Direct(t[2][i].type, marked)]
      BY <3>1 DEF Fields
    <3> QED
      BY <2>4, <3>1, <3>2 DEF Fields
  <2>6. fs \in Seq(Fields)
    <3>1. fs = [i \in 1 .. Len(t[2]) |-> fs[i]] /\ DOMAIN t[2] = 1 .. Len(t[2]) /\ Len(t[2]) \in Nat
      BY <2>2
    <3> HIDE DEF fs
    <3>2. \A i \in 1 .. Len(t[2]) : fs[i] \in Fields
      BY <2>5, <3>1
    <3> DEFINE n == Len(t[2])
    <3>3. n \in Nat /\ \A i \in 1 .. n : fs[i] \in Fields
      BY <3>1, <3>2
    <3> HIDE DEF n
    <3>4. [i \in 1 .. n |-> fs[i]] \in Seq(Fields)
      BY <3>3
    <3> QED
      BY <3>1, <3>4 DEF n
  <2>7. \A i \in DOMAIN t[3] : Pointerize(t[3][i], marked) \in Terms /\ Pointerize(t[3][i], marked)[1] = "map"
    BY <1>3, <2>2, <2>3, PointerizeOfSlots
  <2>8. ms \in Seq(Terms) /\ \A i \in DOMAIN ms : ms[i][1] = "map"
    <3>1. DOMAIN ms = DOMAIN t[3] /\ DOMAIN t[3] = 1 .. Len(t[3]) /\ Len(t[3]) \in Nat
      BY <2>2
    <3>2. \A i \in DOMAIN t[3] : Pointerize(t[3][i], marked) \in Terms
      BY <2>7
    <3>3. \A i \in DOMAIN t[3] : ms[i][1] = "map"
      BY <2>7
    <3>4. ms \in Seq(Terms)
      BY <2>2, <3>2
    <3> QED
      BY <3>1, <3>3, <3>4
  <2>9. as \in Seq(Terms)
    <3>1. \A i \in DOMAIN t[4] : Pointerize(t[4][i], marked) \in Terms
      BY <1>3, <1>7, <2>2
    <3> QED
      BY <2>2, <3>1
  <2> HIDE DEF fs, ms, as
  <2> QED
    BY <1>5, <2>1, <2>6, <2>8, <2>9 DEF Language, Closed
<1> QED
  BY <1>5, <1>8, <1>9, <1>10, <1>11, <1>12, <1>13 DEF Language, Variants, Leaves

-----------------------------------------------------------------------------
(* What a type stores inline, and what a pointer stands for.               *)

LEMMA InlineUnfolds ==
  ASSUME Language, NEW t \in Terms, NEW x
  PROVE  /\ x \in DirectRefs(t) <=>
              (t[1] = "named" /\ x = t[2]) \/ \E i \in DOMAIN Inline(t) : x \in DirectRefs(Inline(t)[i])
         /\ x \in Pointees(InlineParts(t)) <=>
              (t[1] = "pointer" /\ x = t[2][2])
                \/ \E i \in DOMAIN Inline(t) : x \in Pointees(InlineParts(Inline(t)[i]))
<1>1. InlineParts(t) = {t} \cup UNION {InlineParts(Inline(t)[i]) : i \in DOMAIN Inline(t)}
  BY DEF Language, Knots, InlinePartsBy
<1>2. \A u : u \in InlineParts(t) <=> u = t \/ \E i \in DOMAIN Inline(t) : u \in InlineParts(Inline(t)[i])
  BY <1>1
<1>3. \A ts : x \in Names(ts) <=> \E u \in ts : u[1] = "named" /\ x = u[2]
  BY DEF Names
<1>4. \A ts : x \in Pointees(ts) <=> \E u \in ts : u[1] = "pointer" /\ x = u[2][2]
  BY DEF Pointees
<1>5. x \in Names(InlineParts(t)) <=>
        (t[1] = "named" /\ x = t[2]) \/ \E i \in DOMAIN Inline(t) : x \in Names(InlineParts(Inline(t)[i]))
  BY <1>2, <1>3
<1>6. x \in Pointees(InlineParts(t)) <=>
        (t[1] = "pointer" /\ x = t[2][2]) \/ \E i \in DOMAIN Inline(t) : x \in Pointees(InlineParts(Inline(t)[i]))
  BY <1>2, <1>4
<1> QED
  BY <1>5, <1>6 DEF DirectRefs

LEMMA AllUnfolds ==
  ASSUME Language, NEW t \in Terms, NEW u
  PROVE  u \in AllParts(t) <=>
           \/ u = t
           \/ \E i \in DOMAIN Inline(t) : u \in AllParts(Inline(t)[i])
           \/ \E i \in DOMAIN Behind(t) : u \in AllParts(Behind(t)[i])
<1>1. AllParts(t) = {t} \cup UNION ({AllParts(Inline(t)[i]) : i \in DOMAIN Inline(t)}
                                      \cup {AllParts(Behind(t)[i]) : i \in DOMAIN Behind(t)})
  BY DEF Language, Knots, AllPartsBy
<1> QED
  BY <1>1

LEMMA PlainParts ==
  ASSUME Language, NEW t \in Terms, Plain(t)
  PROVE  /\ t[1] # "pointer"
         /\ \A i \in DOMAIN Inline(t) : Plain(Inline(t)[i])
         /\ \A i \in DOMAIN Behind(t) : Plain(Behind(t)[i])
<1>1. \A u : u \in AllParts(t) <=>
        \/ u = t
        \/ \E i \in DOMAIN Inline(t) : u \in AllParts(Inline(t)[i])
        \/ \E i \in DOMAIN Behind(t) : u \in AllParts(Behind(t)[i])
  BY AllUnfolds
<1> QED
  BY <1>1 DEF Plain

(* A leaf stores nothing else.                                             *)
LEMMA LeavesHoldNothing ==
  ASSUME NEW t, t[1] \in Leaves
  PROVE  Inline(t) = <<>> /\ Behind(t) = <<>>
BY DEF Leaves, Inline, Behind

LEMMA PointedLeaf ==
  ASSUME Language, NEW t \in Terms, t[1] = "named"
  PROVE  LET p == <<"pointer", t>>
         IN  /\ p \in Terms
             /\ \A x : x \notin DirectRefs(p) /\ (x \in Pointees(InlineParts(p)) <=> x = t[2])
             /\ \A u : u \in AllParts(p) <=> u = p
<1> DEFINE p == <<"pointer", t>>
<1>1. p \in Terms /\ p[1] = "pointer" /\ p[2] = t
  BY DEF Language, Closed
<1>2. Inline(p) = <<>> /\ Behind(p) = <<>>
  BY <1>1, LeavesHoldNothing DEF Leaves
<1> HIDE DEF p
<1>3. \A x : x \notin DirectRefs(p) /\ (x \in Pointees(InlineParts(p)) <=> x = t[2])
  <2> TAKE x
  <2>1. /\ x \in DirectRefs(p) <=>
              (p[1] = "named" /\ x = p[2]) \/ \E i \in DOMAIN Inline(p) : x \in DirectRefs(Inline(p)[i])
        /\ x \in Pointees(InlineParts(p)) <=>
              (p[1] = "pointer" /\ x = p[2][2])
                \/ \E i \in DOMAIN Inline(p) : x \in Pointees(InlineParts(Inline(p)[i]))
    BY <1>1, InlineUnfolds
  <2> QED
    BY <1>1, <1>2, <2>1
<1>4. \A u : u \in AllParts(p) <=> u = p
  <2> TAKE u
  <2>1. u \in AllParts(p) <=>
           \/ u = p
           \/ \E i \in DOMAIN Inline(p) : u \in AllParts(Inline(p)[i])
           \/ \E i \in DOMAIN Behind(p) : u \in AllParts(Behind(p)[i])
    BY <1>1, AllUnfolds
  <2> QED
    BY <1>2, <2>1
<1> QED
  BY <1>1, <1>3, <1>4 DEF p

LEMMA NamedLeaf ==
  ASSUME Language, NEW t \in Terms, t[1] = "named"
  PROVE  /\ \A x : (x \in DirectRefs(t) <=> x = t[2]) /\ x \notin Pointees(InlineParts(t))
         /\ \A u : u \in AllParts(t) <=> u = t
<1>1. Inline(t) = <<>> /\ Behind(t) = <<>>
  BY LeavesHoldNothing DEF Leaves
<1>2. \A x : (x \in DirectRefs(t) <=> x = t[2]) /\ x \notin Pointees(InlineParts(t))
  <2> TAKE x
  <2>1. /\ x \in DirectRefs(t) <=>
              (t[1] = "named" /\ x = t[2]) \/ \E i \in DOMAIN Inline(t) : x \in DirectRefs(Inline(t)[i])
        /\ x \in Pointees(InlineParts(t)) <=>
              (t[1] = "pointer" /\ x = t[2][2])
                \/ \E i \in DOMAIN Inline(t) : x \in Pointees(InlineParts(Inline(t)[i]))
    BY InlineUnfolds
  <2> QED
    BY <1>1, <2>1
<1>3. \A u : u \in AllParts(t) <=> u = t
  <2> TAKE u
  <2>1. u \in AllParts(t) <=>
           \/ u = t
           \/ \E i \in DOMAIN Inline(t) : u \in AllParts(Inline(t)[i])
           \/ \E i \in DOMAIN Behind(t) : u \in AllParts(Behind(t)[i])
    BY AllUnfolds
  <2> QED
    BY <1>1, <2>1
<1> QED
  BY <1>2, <1>3

(* Of what t stores inline, p points to what is marked and stores the rest.*)
Replaces(p, t, marked) ==
  \A x : /\ x \in DirectRefs(p) <=> x \in DirectRefs(t) /\ x \notin marked
         /\ x \in Pointees(InlineParts(p)) <=> x \in DirectRefs(t) /\ x \in marked

LEMMA ReplacesByParts ==
  ASSUME Language, NEW p \in Terms, NEW t \in Terms, NEW marked,
         p[1] = t[1], t[1] \notin {"named", "pointer"}, DOMAIN Inline(p) = DOMAIN Inline(t),
         \A i \in DOMAIN Inline(t) : Replaces(Inline(p)[i], Inline(t)[i], marked)
  PROVE  Replaces(p, t, marked)
<1> SUFFICES ASSUME NEW x
             PROVE  /\ x \in DirectRefs(p) <=> x \in DirectRefs(t) /\ x \notin marked
                    /\ x \in Pointees(InlineParts(p)) <=> x \in DirectRefs(t) /\ x \in marked
  BY DEF Replaces
<1>1. /\ x \in DirectRefs(p) <=> \E i \in DOMAIN Inline(p) : x \in DirectRefs(Inline(p)[i])
      /\ x \in Pointees(InlineParts(p)) <=> \E i \in DOMAIN Inline(p) : x \in Pointees(InlineParts(Inline(p)[i]))
  BY InlineUnfolds
<1>2. x \in DirectRefs(t) <=> \E i \in DOMAIN Inline(t) : x \in DirectRefs(Inline(t)[i])
  BY InlineUnfolds
<1>3. \A i \in DOMAIN Inline(t) :
        /\ x \in DirectRefs(Inline(p)[i]) <=> x \in DirectRefs(Inline(t)[i]) /\ x \notin marked
        /\ x \in Pointees(InlineParts(Inline(p)[i])) <=> x \in DirectRefs(Inline(t)[i]) /\ x \in marked
  BY DEF Replaces
<1> QED
  BY <1>1, <1>2, <1>3

LEMMA DirectReplaces ==
  ASSUME Language, NEW marked
  PROVE  \A t \in Terms : Plain(t) => Replaces(Direct(t, marked), t, marked)
<1> DEFINE Bad == {t \in Terms : Plain(t) /\ ~ Replaces(Direct(t, marked), t, marked)}
<1>1. SUFFICES ASSUME Bad # {} PROVE FALSE
  OBVIOUS
<1>2. PICK t \in Bad : \A u \in Bad : ~ (Size(u) < Size(t))
  BY <1>1, HasSmallest
<1>3. t \in Terms /\ Plain(t) /\ ~ Replaces(Direct(t, marked), t, marked)
  BY <1>2
<1>4. \A u \in Terms : Size(u) < Size(t) /\ Plain(u) => Replaces(Direct(u, marked), u, marked)
  BY <1>2
<1> HIDE DEF Bad
<1>5. CASE t[1] = "named" /\ t[2] \in marked
  <2>1. Direct(t, marked) = <<"pointer", t>>
    BY <1>5 DEF Direct
  <2>2. \A x : /\ x \notin DirectRefs(Direct(t, marked))
               /\ x \in Pointees(InlineParts(Direct(t, marked))) <=> x = t[2]
    BY <1>3, <1>5, <2>1, PointedLeaf
  <2>3. \A x : x \in DirectRefs(t) <=> x = t[2]
    BY <1>3, <1>5, NamedLeaf
  <2> QED
    BY <1>3, <1>5, <2>2, <2>3 DEF Replaces
<1>6. CASE t[1] = "named" /\ t[2] \notin marked
  <2>1. Direct(t, marked) = t
    BY <1>3, <1>6, PointerizeOfSlots DEF Direct
  <2>2. \A x : (x \in DirectRefs(t) <=> x = t[2]) /\ x \notin Pointees(InlineParts(t))
    BY <1>3, <1>6, NamedLeaf
  <2> QED
    BY <1>3, <1>6, <2>1, <2>2 DEF Replaces
<1>7. CASE t[1] # "named"
  <2> DEFINE p == Direct(t, marked)
  <2>1. p = Pointerize(t, marked)
    BY <1>7 DEF Direct
  <2>2. /\ p[1] = t[1] /\ DOMAIN Inline(p) = DOMAIN Inline(t)
        /\ \A i \in DOMAIN Inline(t) : Inline(p)[i] = Direct(Inline(t)[i], marked)
    BY <1>3, <2>1, PointerizeOfSlots
  <2>3. p \in Terms
    BY <1>3, MakesTypes
  <2>4. t[1] # "pointer" /\ \A i \in DOMAIN Inline(t) : Plain(Inline(t)[i])
    BY <1>3, PlainParts
  <2>5. \A i \in DOMAIN Inline(t) : Inline(t)[i] \in Terms /\ Size(Inline(t)[i]) < Size(t)
    BY <1>3, PartsAreTypes
  <2>6. \A i \in DOMAIN Inline(t) : Replaces(Inline(p)[i], Inline(t)[i], marked)
    BY <1>4, <2>2, <2>4, <2>5
  <2> HIDE DEF p
  <2>7. Replaces(p, t, marked)
    BY <1>3, <1>7, <2>2, <2>3, <2>4, <2>6, ReplacesByParts
  <2> QED
    BY <1>3, <2>7 DEF p
<1> QED
  BY <1>5, <1>6, <1>7

(* No part of t but a name itself stores what is marked inline, and only   *)
(* what is marked is pointed to.                                           *)
Clean(t, marked) ==
  \A u \in AllParts(t) : /\ u[1] # "named" => DirectRefs(u) \cap marked = {}
                         /\ u[1] = "pointer" => u[2][2] \in marked

LEMMA CleanByParts ==
  ASSUME Language, NEW t \in Terms, NEW marked,
         t[1] # "named" => DirectRefs(t) \cap marked = {},
         t[1] = "pointer" => t[2][2] \in marked,
         \A i \in DOMAIN Inline(t) : Clean(Inline(t)[i], marked),
         \A i \in DOMAIN Behind(t) : Clean(Behind(t)[i], marked)
  PROVE  Clean(t, marked)
<1> SUFFICES ASSUME NEW u \in AllParts(t)
             PROVE  /\ u[1] # "named" => DirectRefs(u) \cap marked = {}
                    /\ u[1] = "pointer" => u[2][2] \in marked
  BY DEF Clean
<1>1. \/ u = t
      \/ \E i \in DOMAIN Inline(t) : u \in AllParts(Inline(t)[i])
      \/ \E i \in DOMAIN Behind(t) : u \in AllParts(Behind(t)[i])
  BY AllUnfolds
<1>2. ASSUME NEW i \in DOMAIN Inline(t), u \in AllParts(Inline(t)[i])
      PROVE  /\ u[1] # "named" => DirectRefs(u) \cap marked = {}
             /\ u[1] = "pointer" => u[2][2] \in marked
  BY <1>2 DEF Clean
<1>3. ASSUME NEW i \in DOMAIN Behind(t), u \in AllParts(Behind(t)[i])
      PROVE  /\ u[1] # "named" => DirectRefs(u) \cap marked = {}
             /\ u[1] = "pointer" => u[2][2] \in marked
  BY <1>3 DEF Clean
<1> QED
  BY <1>1, <1>2, <1>3

LEMMA PointerizeCleans ==
  ASSUME Language, NEW marked
  PROVE  \A t \in Terms : Plain(t) => Clean(Direct(t, marked), marked) /\ Clean(Pointerize(t, marked), marked)
<1> DEFINE Bad == {t \in Terms : Plain(t) /\ ~ (Clean(Direct(t, marked), marked) /\ Clean(Pointerize(t, marked), marked))}
<1>1. SUFFICES ASSUME Bad # {} PROVE FALSE
  OBVIOUS
<1>2. PICK t \in Bad : \A u \in Bad : ~ (Size(u) < Size(t))
  BY <1>1, HasSmallest
<1>3. t \in Terms /\ Plain(t) /\ ~ (Clean(Direct(t, marked), marked) /\ Clean(Pointerize(t, marked), marked))
  BY <1>2
<1>4. \A u \in Terms : Size(u) < Size(t) /\ Plain(u) => Clean(Direct(u, marked), marked) /\ Clean(Pointerize(u, marked), marked)
  BY <1>2
<1> HIDE DEF Bad
<1> DEFINE p == Pointerize(t, marked)
<1>5. /\ p[1] = t[1] /\ (t[1] = "named" => p = t)
      /\ DOMAIN Inline(p) = DOMAIN Inline(t)
      /\ \A i \in DOMAIN Inline(t) : Inline(p)[i] = Direct(Inline(t)[i], marked)
      /\ DOMAIN Behind(p) = DOMAIN Behind(t)
      /\ \A i \in DOMAIN Behind(t) : Behind(p)[i] = Pointerize(Behind(t)[i], marked)
  BY <1>3, PointerizeOfSlots
<1>6. p \in Terms
  BY <1>3, MakesTypes
<1>7. CASE t[1] = "named"
  <2>1. Clean(p, marked)
    BY <1>3, <1>5, <1>7, NamedLeaf DEF Clean
  <2>2. CASE t[2] \in marked
    <3> DEFINE q == <<"pointer", t>>
    <3>1. Direct(t, marked) = q /\ q[1] = "pointer" /\ q[2] = t
      BY <1>7, <2>2 DEF Direct
    <3>2. \A x : x \notin DirectRefs(q)
      BY <1>3, <1>7, PointedLeaf
    <3>3. \A u : u \in AllParts(q) <=> u = q
      BY <1>3, <1>7, PointedLeaf
    <3> HIDE DEF q
    <3>4. Clean(q, marked)
      BY <2>2, <3>1, <3>2, <3>3 DEF Clean
    <3> QED
      BY <1>3, <2>1, <3>1, <3>4
  <2>3. CASE t[2] \notin marked
    BY <1>3, <1>7, <2>1, <2>3 DEF Direct
  <2> QED
    BY <2>2, <2>3
<1>8. CASE t[1] # "named"
  <2>1. Direct(t, marked) = p
    BY <1>8 DEF Direct
  <2>2. Replaces(p, t, marked)
    BY <1>3, <2>1, DirectReplaces
  <2>3. DirectRefs(p) \cap marked = {}
    BY <2>2 DEF Replaces
  <2>4. /\ t[1] # "pointer" /\ \A i \in DOMAIN Inline(t) : Plain(Inline(t)[i])
        /\ \A i \in DOMAIN Behind(t) : Plain(Behind(t)[i])
    BY <1>3, PlainParts
  <2>5. /\ \A i \in DOMAIN Inline(t) : Inline(t)[i] \in Terms /\ Size(Inline(t)[i]) < Size(t)
        /\ \A i \in DOMAIN Behind(t) : Behind(t)[i] \in Terms /\ Size(Behind(t)[i]) < Size(t)
    BY <1>3, PartsAreTypes
  <2>6. \A i \in DOMAIN Inline(p) : Clean(Inline(p)[i], marked)
    BY <1>4, <1>5, <2>4, <2>5
  <2>7. \A i \in DOMAIN Behind(p) : Clean(Behind(p)[i], marked)
    BY <1>4, <1>5, <2>4, <2>5
  <2> HIDE DEF p
  <2>8. Clean(p, marked)
    BY <1>5, <1>6, <2>3, <2>4, <2>6, <2>7, CleanByParts
  <2> QED
    BY <1>3, <2>1, <2>8 DEF p
<1> QED
  BY <1>7, <1>8

-----------------------------------------------------------------------------
(* Taking what is on a cycle out of the edges leaves no cycle.             *)
LEMMA CutIsAcyclic ==
  ASSUME NEW I, NEW edges, DOMAIN edges = I, NEW cut, DOMAIN cut = I,
         \A id \in I : cut[id] = edges[id] \ OnCycle(edges)
  PROVE  OnCycle(cut) = {}
<1>1. SUFFICES ASSUME NEW id \in OnCycle(cut) PROVE FALSE
  OBVIOUS
<1> DEFINE On(es, x) ==
      \A S \in SUBSET I :
        es[x] \cap I \subseteq S /\ (\A n \in S : es[n] \cap I \subseteq S) => x \in S
<1>2. /\ \A x : x \in OnCycle(edges) <=> x \in I /\ On(edges, x)
      /\ \A x : x \in OnCycle(cut) <=> x \in I /\ On(cut, x)
  BY DEF OnCycle
<1>3. id \in I /\ On(cut, id)
  BY <1>1, <1>2
<1>4. CASE id \in OnCycle(edges)
  <2> DEFINE S == I \ OnCycle(edges)
  <2>1. S \in SUBSET I /\ \A n \in I : cut[n] \cap I \subseteq S
    OBVIOUS
  <2>2. id \in S
    BY <1>3, <2>1
  <2> QED
    BY <1>4, <2>2
<1>5. CASE id \notin OnCycle(edges)
  <2>1. PICK S \in SUBSET I : /\ edges[id] \cap I \subseteq S
                              /\ \A n \in S : edges[n] \cap I \subseteq S
                              /\ id \notin S
    BY <1>2, <1>3, <1>5
  <2>2. cut[id] \cap I \subseteq S /\ \A n \in S : cut[n] \cap I \subseteq S
    BY <1>3, <2>1
  <2> QED
    BY <1>3, <2>1, <2>2
<1> QED
  BY <1>4, <1>5

LEMMA BreakCyclesEstablishes ==
  ASSUME Language, BreakCycles, \A id \in DOMAIN types : types[id] \in Terms /\ Plain(types[id])
  PROVE  NoInfiniteType' /\ IndirectionPerType'
<1> DEFINE marked == OnCycle(Edges(types))
           I == DOMAIN types
<1>1. types' = [id \in I |-> Direct(types[id], marked)] /\ DOMAIN types' = I
  BY DEF BreakCycles, Declared
<1>2. \A id \in I : Replaces(types'[id], types[id], marked) /\ Clean(types'[id], marked)
  <2> TAKE id \in I
  <2>1. types[id] \in Terms /\ Plain(types[id]) /\ types'[id] = Direct(types[id], marked)
    BY <1>1
  <2> QED
    BY <2>1, DirectReplaces, PointerizeCleans
<1>3. \A id \in I : DirectRefs(types'[id]) = DirectRefs(types[id]) \ marked
  BY <1>2 DEF Replaces
<1>4. \A id \in I : Unpointed(types'[id]) = DirectRefs(types[id])
  <2> TAKE id \in I
  <2>1. \A x : /\ x \in DirectRefs(types'[id]) <=> x \in DirectRefs(types[id]) /\ x \notin marked
               /\ x \in Pointees(InlineParts(types'[id])) <=> x \in DirectRefs(types[id]) /\ x \in marked
    BY <1>2 DEF Replaces
  <2>2. Unpointed(types'[id]) = DirectRefs(types'[id]) \cup Pointees(InlineParts(types'[id]))
    BY DEF Unpointed, DirectRefs
  <2> QED
    BY <2>1, <2>2
<1>5. OnCycle(Edges(types')) = {}
  <2> DEFINE old == Edges(types)
             new == Edges(types')
  <2>1. DOMAIN old = I /\ DOMAIN new = I
    BY <1>1 DEF Edges
  <2>2. \A id \in I : new[id] = old[id] \ OnCycle(old)
    BY <1>1, <1>3 DEF Edges
  <2> HIDE DEF old, new, I
  <2>3. OnCycle(new) = {}
    BY <2>1, <2>2, CutIsAcyclic
  <2> QED
    BY <2>3 DEF new
<1>6. [id \in DOMAIN types' |-> Unpointed(types'[id])] = Edges(types)
  BY <1>1, <1>4 DEF Edges
<1> DEFINE pointed == UNION {Pointees(AllParts(types'[id])) : id \in DOMAIN types'}
<1>7. pointed \subseteq marked
  <2> SUFFICES ASSUME NEW id \in I, NEW x \in Pointees(AllParts(types'[id])) PROVE x \in marked
    BY <1>1
  <2>1. PICK u \in AllParts(types'[id]) : u[1] = "pointer" /\ x = u[2][2]
    BY DEF Pointees
  <2> QED
    BY <1>2, <2>1 DEF Clean
<1>8. \A id \in I : StoredInline(types'[id]) \cap marked = {}
  <2> SUFFICES ASSUME NEW id \in I, NEW x \in StoredInline(types'[id]), x \in marked PROVE FALSE
    OBVIOUS
  <2>1. x \notin DirectRefs(types'[id])
    BY <1>3
  <2>2. PICK u \in AllParts(types'[id]) : u[1] # "named" /\ x \in DirectRefs(u)
    BY <2>1 DEF StoredInline
  <2>3. DirectRefs(u) \cap marked = {}
    BY <1>2, <2>2 DEF Clean
  <2> QED
    BY <2>2, <2>3
<1>9. \A id \in DOMAIN types' : StoredInline(types'[id]) \cap pointed = {}
  BY <1>1, <1>7, <1>8
<1>10. NoInfiniteType'
  BY <1>5 DEF NoInfiniteType
<1>11. IndirectionPerType'
  <2>1. stage' = "shaped"
    BY DEF BreakCycles
  <2> QED
    BY <1>6, <1>7, <1>9, <2>1 DEF IndirectionPerType
<1> QED
  BY <1>10, <1>11

CyclesInv ==
  /\ stage = "lowered" => \A id \in DOMAIN types : types[id] \in Terms
  /\ NoInfiniteType
  /\ IndirectionPerType

LEMMA CyclesInvariant ==
  ASSUME Language
  PROVE  CyclesSpec => []CyclesInv
<1>1. Lowered => CyclesInv
  BY DEF Lowered, CyclesInv, NoInfiniteType, IndirectionPerType, Settled
<1>2. CyclesInv /\ [BreakCycles \/ Later]_<<types, stage>> => CyclesInv'
  <2> SUFFICES ASSUME CyclesInv, [BreakCycles \/ Later]_<<types, stage>> PROVE CyclesInv'
    OBVIOUS
  <2>1. CASE BreakCycles
    <3>1. stage = "lowered" /\ stage' = "shaped"
      BY <2>1 DEF BreakCycles
    <3>2. \A id \in DOMAIN types : types[id] \in Terms /\ Plain(types[id])
      BY <3>1 DEF CyclesInv, IndirectionPerType
    <3>3. NoInfiniteType' /\ IndirectionPerType'
      BY <2>1, <3>2, BreakCyclesEstablishes
    <3> QED
      BY <3>1, <3>3 DEF CyclesInv
  <2>2. CASE Later
    BY <2>2 DEF Later, CyclesInv, Settled, NoInfiniteType, IndirectionPerType
  <2>3. CASE UNCHANGED <<types, stage>>
    BY <2>3 DEF CyclesInv, Settled, NoInfiniteType, IndirectionPerType
  <2> QED
    BY <2>1, <2>2, <2>3
<1> QED
  BY <1>1, <1>2, PTL DEF CyclesSpec

(* breakCycles (gogen/recursion.go): whatever types a document is lowered  *)
(* to, no type stores itself inline once the pointers are in.              *)
THEOREM NoTypeHoldsItself ==
  ASSUME Language
  PROVE  CyclesSpec => []NoInfiniteType
<1>1. CyclesSpec => []CyclesInv
  BY CyclesInvariant
<1>2. CyclesInv => NoInfiniteType
  BY DEF CyclesInv
<1> QED
  BY <1>1, <1>2, PTL

(* "every direct reference to it is a pointer" (docs/backend.md section 7):*)
(* a type is pointed to everywhere or nowhere, and only for a cycle.       *)
THEOREM PointersArePerType ==
  ASSUME Language
  PROVE  CyclesSpec => []IndirectionPerType
<1>1. CyclesSpec => []CyclesInv
  BY CyclesInvariant
<1>2. CyclesInv => IndirectionPerType
  BY DEF CyclesInv
<1> QED
  BY <1>1, <1>2, PTL

-----------------------------------------------------------------------------
(* The methods of a document.                                              *)

TypeInv ==
  /\ own \subseteq declared
  /\ deps \in [declared -> SUBSET declared]
  /\ todo \subseteq declared
  /\ changed \in BOOLEAN
  /\ phase \in {"checked", "generated"}
  /\ phase = "generated" => todo = {} /\ ~ changed

(* Every check is either made by a method or blocked.                      *)
ChecksInv ==
  /\ needs \subseteq declared /\ Checks \subseteq needs
  /\ needs \cap blocked = {}

(* S holds the checks and every type that may have a method and calls one  *)
(* in S.                                                                   *)
Gathers(S) ==
  /\ Checks \subseteq S
  /\ \A id \in declared \ blocked : deps[id] \cap S # {} => id \in S

(* No method is without reason: needs is within every set that gathers.    *)
ReasonInv == \A S \in SUBSET declared : Gathers(S) => needs \subseteq S

(* A pass that has changed nothing so far found nothing to add.            *)
PassInv == ~ changed => \A id \in declared \ todo : ~ Calling(id)

(* What pruning leaves of the calls.                                       *)
CallsInv ==
  calls = IF phase = "checked" THEN deps ELSE [id \in declared |-> deps[id] \cap needs]

IInv == TypeInv /\ ChecksInv /\ ReasonInv /\ PassInv /\ CallsInv

-----------------------------------------------------------------------------

LEMMA InitEstablishes == Init => IInv
<1> SUFFICES ASSUME Init PROVE IInv
  OBVIOUS
<1>1. TypeInv /\ ChecksInv /\ PassInv /\ CallsInv
  BY DEF Init, TypeInv, ChecksInv, Checks, PassInv, CallsInv
<1>2. ReasonInv
  BY DEF Init, ReasonInv, Gathers, Checks
<1> QED
  BY <1>1, <1>2 DEF IInv

LEMMA BeginPassPreserves == IInv /\ BeginPass => IInv'
<1> SUFFICES ASSUME IInv, BeginPass PROVE IInv'
  OBVIOUS
<1> USE DEF IInv, BeginPass, given
<1>1. TypeInv'
  BY DEF TypeInv
<1>2. ChecksInv' /\ ReasonInv' /\ CallsInv'
  BY DEF ChecksInv, Checks, ReasonInv, Gathers, CallsInv
<1>3. PassInv'
  BY DEF PassInv
<1> QED
  BY <1>1, <1>2, <1>3

LEMMA VisitPreserves ==
  ASSUME IInv, NEW id \in declared, Visit(id)
  PROVE  IInv'
<1> USE DEF IInv
<1>0. /\ phase = "checked" /\ id \in todo
      /\ needs' = needs \cup {n \in {id} : Calling(n)}
      /\ changed' = (changed \/ Calling(id))
      /\ todo' = todo \ {id}
      /\ UNCHANGED <<declared, own, methodable, deps, calls, blocked, phase>>
  BY DEF Visit, given
<1>1. Checks' = Checks
  BY <1>0 DEF Checks
<1>2. TypeInv'
  BY <1>0 DEF TypeInv
<1>3. ChecksInv'
  BY <1>0, <1>1 DEF ChecksInv, Calling
<1>4. ReasonInv'
  <2> SUFFICES ASSUME NEW S \in SUBSET declared, Gathers(S)
               PROVE  needs' \subseteq S
    BY <1>0, <1>1 DEF ReasonInv, Gathers
  <2>1. needs \subseteq S
    BY DEF ReasonInv
  <2>2. Calling(id) => id \in S
    BY <2>1 DEF Calling, Gathers
  <2> QED
    BY <1>0, <2>1, <2>2
<1>5. PassInv'
  BY <1>0 DEF PassInv, Calling, TypeInv
<1>6. CallsInv'
  BY <1>0 DEF CallsInv
<1> QED
  BY <1>2, <1>3, <1>4, <1>5, <1>6

LEMMA PrunePreserves == IInv /\ PruneCalls => IInv'
<1> SUFFICES ASSUME IInv, PruneCalls PROVE IInv'
  OBVIOUS
<1> USE DEF IInv, PruneCalls, given
<1>1. TypeInv'
  BY DEF TypeInv
<1>2. ChecksInv' /\ ReasonInv'
  BY DEF ChecksInv, Checks, ReasonInv, Gathers
<1>3. PassInv'
  BY DEF PassInv, Calling
<1>4. CallsInv'
  BY DEF CallsInv
<1> QED
  BY <1>1, <1>2, <1>3, <1>4

LEMMA RestPreserves == IInv /\ UNCHANGED vars => IInv'
<1> SUFFICES ASSUME IInv, UNCHANGED vars PROVE IInv'
  OBVIOUS
<1> QED
  BY DEF IInv, vars, given, TypeInv, ChecksInv, Checks, ReasonInv, Gathers, PassInv,
         Calling, CallsInv

(* The inductive invariant holds of every run of the loops.                *)
THEOREM MethodsKeepInvariant == Spec => []IInv
<1>1. IInv /\ [Next]_vars => IInv'
  BY BeginPassPreserves, VisitPreserves, PrunePreserves, RestPreserves DEF Next
<1> QED
  BY <1>1, InitEstablishes, PTL DEF Spec

-----------------------------------------------------------------------------
(* Once the loops are over.                                                *)

Over == IInv /\ phase = "generated"

(* A call is left if it leads to a method, and no type without one makes   *)
(* such a call.                                                            *)
LEMMA WhatIsLeft ==
  ASSUME Over, NEW id \in declared
  PROVE  /\ calls[id] = deps[id] \cap needs
         /\ Left[id] = IF id \in needs THEN deps[id] \cap needs ELSE {}
         /\ Left[id] \subseteq Made[id]
         /\ Made[id] \subseteq declared
         /\ Made[id] \cap needs \subseteq Left[id]
<1>1. calls = [n \in declared |-> deps[n] \cap needs]
  BY DEF Over, IInv, CallsInv
<1>2. needs \cap blocked = {} /\ deps[id] \subseteq declared
  BY DEF Over, IInv, ChecksInv, TypeInv
<1>3. ~ Calling(id)
  BY DEF Over, IInv, PassInv, TypeInv
<1>4. id \in blocked \/ id \in needs \/ deps[id] \cap needs = {}
  BY <1>3 DEF Calling
<1> QED
  BY <1>1, <1>2, <1>4 DEF Left, Made

(* What reaches a check by any calls reaches it by those that are left.    *)
LEMMA NoCheckIsLost ==
  ASSUME Over, NEW id \in declared
  PROVE  Reachable(id, Left) \cap Checks = Reachable(id, Made) \cap Checks
<1>1. ASSUME NEW m \in Reachable(id, Left)
      PROVE  m \in Reachable(id, Made)
  <2> SUFFICES ASSUME NEW S \in SUBSET declared, id \in S, \A n \in S : Made[n] \subseteq S
               PROVE  m \in S
    BY DEF Reachable
  <2>1. \A n \in S : Left[n] \subseteq S
    BY WhatIsLeft
  <2> QED
    BY <1>1, <2>1 DEF Reachable
<1>2. ASSUME NEW m \in Reachable(id, Made) \cap Checks
      PROVE  m \in Reachable(id, Left)
  <2> SUFFICES ASSUME NEW S \in SUBSET declared, id \in S, \A n \in S : Left[n] \subseteq S
               PROVE  m \in S
    BY DEF Reachable
  <2> DEFINE T == S \cup (declared \ needs)
  <2>1. ASSUME NEW n \in T PROVE Made[n] \subseteq T
    <3>1. n \in declared
      OBVIOUS
    <3>2. CASE n \in S
      BY <3>1, <3>2, WhatIsLeft
    <3>3. CASE n \notin needs
      BY <3>1, <3>3, WhatIsLeft
    <3> QED
      BY <3>2, <3>3
  <2>2. T \in SUBSET declared /\ id \in T
    OBVIOUS
  <2>3. m \in T
    BY <2>1, <2>2 DEF Reachable
  <2>4. m \in needs
    BY DEF Over, IInv, ChecksInv
  <2> QED
    BY <2>3, <2>4
<1> QED
  BY <1>1, <1>2

(* The methods that reach a check gather, so every method does.            *)
LEMMA MethodsReachOne ==
  ASSUME Over, NEW id \in needs
  PROVE  Reachable(id, Left) \cap Checks # {}
<1> DEFINE S == {n \in needs : Reachable(n, Left) \cap Checks # {}}
<1>0. needs \subseteq declared /\ Checks \subseteq needs
  BY DEF Over, IInv, ChecksInv
<1>1. Checks \subseteq S
  BY <1>0 DEF Reachable
<1>2. ASSUME NEW n \in declared \ blocked, deps[n] \cap S # {}
      PROVE  n \in S
  <2>1. PICK m \in deps[n] : m \in S
    BY <1>2
  <2>2. ~ Calling(n)
    BY DEF Over, IInv, PassInv, TypeInv
  <2>3. n \in needs
    BY <2>1, <2>2 DEF Calling
  <2>4. m \in Left[n]
    BY <2>1, <2>3, WhatIsLeft
  <2>5. Reachable(m, Left) \subseteq Reachable(n, Left)
    BY <2>4 DEF Reachable
  <2> QED
    BY <2>1, <2>3, <2>5
<1>3. Gathers(S)
  BY <1>1, <1>2 DEF Gathers
<1>4. needs \subseteq S
  BY <1>0, <1>3 DEF Over, IInv, ReasonInv
<1> QED
  BY <1>4

(* Whatever the types call and in whatever order the passes meet them:     *)
(* every check that can be made is, no call to it is dropped, no call to a *)
(* method that is not there is kept, and no method tests nothing.          *)
THEOREM KeepsEveryCheck == Spec => []CallsReachChecks
<1>1. IInv => CallsReachChecks
  <2> SUFFICES ASSUME Over PROVE CallsReachChecks
    BY DEF Over, CallsReachChecks
  <2>1. Checks \subseteq needs
    BY DEF Over, IInv, ChecksInv
  <2>2. ASSUME NEW id \in declared PROVE calls[id] \subseteq needs
    <3>1. calls[id] = deps[id] \cap needs
      BY WhatIsLeft
    <3> QED
      BY <3>1
  <2> QED
    BY <2>1, <2>2, NoCheckIsLost, MethodsReachOne DEF CallsReachChecks
<1> QED
  BY <1>1, MethodsKeepInvariant, PTL
=============================================================================

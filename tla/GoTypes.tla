------------------------------- MODULE GoTypes -------------------------------
(***************************************************************************)
(* gogen, the Go types of a document: Lower gives every plan the shape its *)
(* representation asks for, and breakCycles puts a pointer wherever a type *)
(* that inline storage makes cyclic is stored.                             *)
(*                                                                         *)
(* A Go type is a tuple headed by the name of its variant in type.go:      *)
(*   <<"named", id>>   <<"primitive", kind>>   <<"any">>   <<"never">>     *)
(*   <<"slice", elem>>   <<"tuple", elems, rest>>                          *)
(*   <<"map", elem, pattern>>   <<"struct", fields, patterns, additional>> *)
(*   <<"presence", elem, optional, nullable>>   <<"enum", elem, values>>   *)
(*   <<"interface", variants>>   <<"pointer", elem>>                       *)
(* A field is [json, type]; rest and additional are <<>> or <<t>>, like    *)
(* every pointer.  A declared type is told from others by its schema's id: *)
(* that names are distinct is Assign's part, and identifiers, formats and  *)
(* metadata are left out.  No plan here bounds the number of items, so     *)
(* every slot of a tuple is optional.                                      *)
(***************************************************************************)
EXTENDS PlanInterpreter, TypeCycles

VARIABLE
  plans    (* the plan of every schema of the document, by id             *)

typeVars == <<plans, types, stage>>

NullType == <<"primitive", "null">>

-----------------------------------------------------------------------------
(* Nullability and optionality.                                            *)

(* foldNull: <<t>> with a null of its own, for what can store one.         *)
FoldNull(t) ==
  CASE t[1] = "any"       -> <<t>>
    [] t[1] = "interface" -> <<IF NullType \in Range(t[2]) THEN t
                               ELSE <<"interface", Append(t[2], NullType)>>>>
    [] OTHER              -> <<>>

Stored(t, optional, nullable) ==
  IF optional \/ nullable THEN <<"presence", t, optional, nullable>> ELSE t

(* withPresence: a presence absorbs what is said again.                    *)
WithPresence(t, optional, nullable) ==
  LET again == t[1] = "presence"
      elem == IF again THEN t[2] ELSE t
      null == nullable \/ (again /\ t[4])
      folded == IF null THEN FoldNull(elem) ELSE <<>>
      absent == optional \/ (again /\ t[3])
  IN  IF folded # <<>> THEN Stored(folded[1], absent, FALSE) ELSE Stored(elem, absent, null)

-----------------------------------------------------------------------------
(* TypeExpr: two types that render to one text are one slot of a sum.  The *)
(* text of a field lists the alternatives of the sum it holds.             *)

Void == <<"struct{}">>

RECURSIVE TypeExpr(_), SumNote(_)

TypeExprs(ts) == [i \in DOMAIN ts |-> TypeExpr(ts[i])]

SumNote(t) ==
  CASE t[1] \in {"presence", "enum"} -> SumNote(t[2])
    [] t[1] = "interface"            -> TypeExprs(t[2])
    [] OTHER                         -> <<>>

TypeExpr(t) ==
  CASE t[1] \in {"never"} \/ t = NullType      -> Void
    [] t[1] = "primitive" /\ t # NullType      -> t
    [] t[1] \in {"any", "interface"}           -> <<"any">>
    [] t[1] = "enum"                           -> TypeExpr(t[2])
    [] t[1] = "named"                          -> t
    [] t[1] \in {"slice", "map", "pointer"}    -> <<t[1], TypeExpr(t[2])>>
    [] t[1] = "presence"                       -> <<t[1], TypeExpr(t[2]), t[3], t[4]>>
    [] t[1] = "tuple"  -> IF t[2] = <<>> /\ t[3] = <<>> THEN Void
                          ELSE <<t[1], TypeExprs(t[2]), TypeExprs(t[3])>>
    [] t[1] = "struct" ->
         LET Line(f) == <<f.json, TypeExpr(f.type), SumNote(f.type)>>
             Slot(m) == <<m[3], TypeExpr(m[2])>>
         IN  IF t[2] = <<>> /\ t[3] = <<>> /\ t[4] = <<>> THEN Void
             ELSE <<t[1], [i \in DOMAIN t[2] |-> Line(t[2][i])], [i \in DOMAIN t[3] |-> Slot(t[3][i])],
                    TypeExprs(t[4])>>

(* dedupeTypes.                                                            *)
DedupeTypes(variants) ==
  LET New(i) == \A j \in 1 .. i - 1 : TypeExpr(variants[j]) # TypeExpr(variants[i])
      kept == SelectSeq([i \in DOMAIN variants |-> i], New)
  IN  [i \in DOMAIN kept |-> variants[kept[i]]]

-----------------------------------------------------------------------------
(* Lowering.                                                               *)

RECURSIVE LowerPlan(_), LowerRep(_)

Primitive(rep) ==
  <<"primitive", CASE rep[2] = "number" /\ rep[3] = "IntegerOnly" -> "int"
                   [] rep[2] = "number" /\ rep[3] # "IntegerOnly" -> "float"
                   [] OTHER                                       -> rep[2]>>

(* A type that holds nothing closes what it would be the rest of.          *)
Open(t) == IF t = <<"never">> THEN <<>> ELSE <<t>>

(* Mutant of LowerField: an optional property is stored like a required.   *)
LowerFieldInPlace(f) == [json |-> f.name, type |-> WithPresence(LowerPlan(f.plan), FALSE, f.nullable)]

LowerField(f) ==
  [json |-> f.name, type |-> WithPresence(LowerPlan(f.plan), ~ f.required, f.nullable)]

(* object: a map where exactly one thing governs the names.                *)
LowerObject(o) ==
  LET additional == Open(LowerPlan(o[4][1]))
      patterns == [i \in DOMAIN o[3] |-> <<"map", LowerPlan(o[3][i][2]), o[3][i][1]>>]
  IN  CASE o[2] = <<>> /\ Len(patterns) = 1 /\ additional = <<>> -> patterns[1]
        [] o[2] = <<>> /\ patterns = <<>> /\ additional # <<>>   -> <<"map", additional[1], "">>
        [] OTHER -> <<"struct", [i \in DOMAIN o[2] |-> LowerField(o[2][i])], patterns, additional>>

LowerArray(a) ==
  LET rest == Open(LowerPlan(a[3][1]))
  IN  IF a[2] = <<>> /\ rest # <<>> THEN <<"slice", rest[1]>>
      ELSE <<"tuple", [i \in DOMAIN a[2] |-> WithPresence(LowerPlan(a[2][i]), TRUE, FALSE)], rest>>

(* union: a null alternative becomes the presence of the others.           *)
LowerUnion(alternatives) ==
  LET IsNull(rep) == rep[1] = "primitive" /\ rep[2] = "null"
      others == SelectSeq(alternatives, LAMBDA rep : ~ IsNull(rep))
      variants == DedupeTypes([i \in DOMAIN others |-> LowerRep(others[i])])
      nullable == \E i \in DOMAIN alternatives : IsNull(alternatives[i])
  IN  CASE variants = <<>>   -> NullType
        [] Len(variants) = 1 -> WithPresence(variants[1], FALSE, nullable)
        [] OTHER             -> WithPresence(<<"interface", variants>>, FALSE, nullable)

LowerRep(rep) ==
  CASE rep[1] \in {"any", "never"} -> <<rep[1]>>
    [] rep[1] = "primitive" -> Primitive(rep)
    [] rep[1] = "object"    -> LowerObject(rep)
    [] rep[1] = "array"     -> LowerArray(rep)
    [] rep[1] = "union"     -> LowerUnion(rep[2])
    [] rep[1] = "reference" -> <<"named", rep[2]>>

(* dispatch: of all that a plan selects on, literals alone change a shape. *)
LowerPlan(p) ==
  IF p.dispatch[1] = "literal" /\ p.dispatch[2] # <<>>
  THEN <<"enum", LowerRep(p.rep), [i \in DOMAIN p.dispatch[2] |-> p.dispatch[2][i][1]]>>
  ELSE LowerRep(p.rep)

-----------------------------------------------------------------------------
(* The passes of Lower.  Splitting, its last, is done where it is read.    *)

Planned == types = <<>> /\ stage = "planned"

Lower ==
  /\ stage = "planned"
  /\ types' = [id \in DOMAIN plans |-> LowerPlan(plans[id])]
  /\ stage' = "lowered"
  /\ UNCHANGED plans
=============================================================================

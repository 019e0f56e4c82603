----------------------------- MODULE GoValidators -----------------------------
(***************************************************************************)
(* gogen, the validators: what a Go type leaves to be checked of a plan,   *)
(* the tree of checks made of each declared type, and which types get a    *)
(* Validate method.                                                        *)
(*                                                                         *)
(* A node of the tree is what is tested of one value: the checks a test is *)
(* written for, <<id>> if the value's own type is called instead, the      *)
(* values under it by the edge that reaches them, and what nothing is      *)
(* written for (vbuilder.admit).  Nodes without a check are kept: they     *)
(* test nothing.                                                           *)
(***************************************************************************)
EXTENDS GoTypes

VARIABLES
  nodes,     (* the checks of each declared type                           *)
  deps,      (* the types each calls, before any call is dropped           *)
  needs,     (* those that are to have a method                            *)
  blocked,   (* those that check something, and can have none              *)
  todo,      (* the types the running pass has not come to                 *)
  changed    (* the loop variable of the fixpoint                          *)

methodVars == <<deps, needs, blocked, todo, changed>>
goVars == <<plans, types, stage, nodes, methodVars>>

-----------------------------------------------------------------------------
(* What a type holds (kinds.go).                                           *)

RECURSIVE StoredAs(_), KindsHeld(_), Deref(_)

PrimitiveKinds(k) == {IF k \in {"int", "float"} THEN "number" ELSE k}

KindsHeld(t) ==
  CASE t[1] = "named" -> KindsHeld(types[t[2]])
    [] t[1] \in {"pointer", "enum"}   -> KindsHeld(t[2])
    [] t[1] = "presence"              -> KindsHeld(t[2]) \cup (IF t[4] THEN {"null"} ELSE {})
    [] t[1] = "interface"             -> UNION {KindsHeld(t[2][i]) : i \in DOMAIN t[2]}
    [] t[1] \in {"struct", "map"}     -> {"object"}
    [] t[1] \in {"slice", "tuple"}    -> {"array"}
    [] t[1] = "primitive"             -> PrimitiveKinds(t[2])
    [] t[1] = "any"                   -> AllKinds
    [] t[1] = "never"                 -> {}

(* The types that values are stored as in the end.                         *)
StoredAs(t) ==
  CASE t[1] = "named" -> StoredAs(types[t[2]])
    [] t[1] \in {"pointer", "presence", "enum"} -> StoredAs(t[2])
    [] t[1] = "interface" -> UNION {StoredAs(t[2][i]) : i \in DOMAIN t[2]}
    [] OTHER -> {t}

Shape(t) == IF t[1] = "primitive" THEN t[2] ELSE t[1]

(* storesAs: whatever can hold such a kind has one of these shapes.        *)
StoresAs(t, want, shapes) ==
  \A leaf \in StoredAs(t) : KindsHeld(leaf) \cap want # {} => Shape(leaf) \in shapes

Deref(t) ==
  CASE t[1] = "named" -> Deref(types[t[2]])
    [] t[1] \in {"pointer", "presence", "enum"} -> Deref(t[2])
    [] OTHER -> t

-----------------------------------------------------------------------------
(* What is left to do about a check (preserved.go) and about a dispatch    *)
(* (dispatch.go).                                                          *)

(* namesTarget.                                                            *)
RECURSIVE NamesTarget(_, _)
NamesTarget(t, id) ==
  CASE t[1] = "named" -> t[2] = id \/ NamesTarget(types[t[2]], id)
    [] t[1] \in {"pointer", "presence"} -> NamesTarget(t[2], id)
    [] OTHER -> FALSE

RECURSIVE FoldedToEnum(_)
FoldedToEnum(t) ==
  CASE t[1] = "enum"  -> TRUE
    [] t[1] = "named" -> FoldedToEnum(types[t[2]])
    [] t[1] \in {"pointer", "presence"} -> FoldedToEnum(t[2])
    [] OTHER -> FALSE

MayBeAbsent(t) == t[1] = "presence" /\ t[3]

FieldsNamed(struct, name) == {i \in DOMAIN struct[2] : struct[2][i].json = name}

(* requiredByType: a slot that cannot be absent.                           *)
RequiredByType(t, names) ==
  /\ Deref(t)[1] = "struct"
  /\ \A i \in DOMAIN names : \E j \in FieldsNamed(Deref(t), names[i]) : ~ MayBeAbsent(Deref(t)[2][j].type)

VacuousFor(t, g) == IF g.assert THEN KindsHeld(t) \subseteq g.on ELSE KindsHeld(t) \cap g.on = {}

DischargedByType(t, e) ==
  CASE e[1] = "domain"    -> e[2] = "IntegerOnly" /\ StoresAs(t, {"number"}, {"int"})
    [] e[1] = "reference" -> NamesTarget(t, e[2])
    [] e[1] = "required"  -> RequiredByType(t, e[2])
    [] OTHER              -> FALSE

PreservedBy(t, e) ==
  CASE e[1] = "nil" -> \A leaf \in StoredAs(t) : leaf[1] # "any"
    [] e[1] \in {"not", "shape", "contains", "propertyNames"} -> FALSE
    [] e[1] \in {"pattern", "format"} -> StoresAs(t, {"string"}, {"string"})
    [] e[1] \in {"minimum", "multipleOf", "domain"} -> StoresAs(t, {"number"}, {"int", "float"})
    [] e[1] \in {"minItems", "maxItems", "array"} -> StoresAs(t, {"array"}, {"slice", "tuple"})
    [] e[1] \in {"required", "dependent", "minProperties", "maxProperties", "object"} ->
         StoresAs(t, {"object"}, {"struct", "map"})
    [] e[1] = "reference" -> TRUE

Disposition(t, g) ==
  CASE VacuousFor(t, g) \/ DischargedByType(t, g.expr) -> "discharged"
    [] ~ VacuousFor(t, g) /\ ~ DischargedByType(t, g.expr) /\ PreservedBy(t, g.expr) -> "inline"
    [] OTHER -> "delegate"

(* Mutant of DispatchDisposition: only literals are thought to select.     *)
DispatchOfLiterals(t, d) ==
  IF d[1] = "literal" /\ ~ FoldedToEnum(t) THEN "inline" ELSE "discharged"

(* ClassifyDispatch.                                                       *)
DispatchDisposition(t, d) ==
  CASE d[1] = "none"    -> "discharged"
    [] d[1] = "literal" -> IF d[2] = <<>> \/ FoldedToEnum(t) THEN "discharged" ELSE "inline"
    [] d[1] \in {"kind", "property", "presence"} -> "inline"
    [] d[1] = "count"   -> "delegate"

Split(t, p) ==
  LET Are(disposition) == SelectSeq(p.checks, LAMBDA g : Disposition(t, g) = disposition)
  IN  [inline |-> Are("inline"), delegate |-> Are("delegate"),
       dispatch |-> IF DispatchDisposition(t, p.dispatch) = "discharged" THEN "none" ELSE p.dispatch[1]]

-----------------------------------------------------------------------------
(* Writing a test (check.go).                                              *)

(* Of required names, those in slots that may be absent are tested; there  *)
(* is no test if a name has no slot, nor if none is left to test.          *)
Tested(t, names) ==
  SelectSeq(names, LAMBDA n : \E i \in FieldsNamed(Deref(t), n) : MayBeAbsent(Deref(t)[2][i].type))

HasSlots(t, names) ==
  Deref(t)[1] = "struct" /\ \A i \in DOMAIN names : FieldsNamed(Deref(t), names[i]) # {}

(* predCode: <<test>>, or nothing; of the tests those that a plan of these *)
(* documents can have.                                                     *)
Test(t, e) ==
  LET core == Shape(Deref(t))
      written == CASE e[1] = "minimum"  -> core = "float" \/ (core = "int" /\ e[2] % 2 = 0)
                   [] e[1] = "domain"   -> core = "float" /\ e[2] = "IntegerOnly"
                   [] e[1] = "required" -> HasSlots(t, e[2]) /\ Tested(t, e[2]) # <<>>
                   [] OTHER             -> FALSE
  IN  IF ~ written THEN <<>>
      ELSE IF e[1] = "required" THEN <<<<"required", Tested(t, e[2])>>>> ELSE <<e>>

-----------------------------------------------------------------------------
(* Pairing the two trees (validate.go).                                    *)

Bare == [tests |-> <<>>, call |-> <<>>, kids |-> <<>>, notes |-> {}]

(* Kids are <<edge, node>>.                                                *)
Kids(kids) == [Bare EXCEPT !.kids = kids]
Admitting(note) == [Bare EXCEPT !.notes = {note}]

Beside(m, n) ==
  [tests |-> m.tests \o n.tests, call |-> m.call \o n.call, kids |-> m.kids \o n.kids,
   notes |-> m.notes \cup n.notes]

BoxEdge(t) == IF t[1] = "presence" THEN <<"stored">> ELSE <<"pointee">>

RECURSIVE Node(_, _), Sub(_, _)

(* object, for a struct.                                                   *)
ObjectKid(t, f) ==
  LET at == FieldsNamed(t, f.name)
      type == t[2][CHOOSE i \in at : TRUE].type
      null == IF type[1] = "presence" /\ type[4] /\ ~ f.nullable
              THEN Admitting("a null the Go type stores") ELSE Bare
  IN  IF at = {} THEN Admitting("a declared property no field stores")
      ELSE Beside(null, Kids(<<<<<<"field", f.name>>, Sub(type, f.plan)>>>>))

PatternKid(t, rule) ==
  LET at == {i \in DOMAIN t[3] : t[3][i][3] = rule[1]}
  IN  IF at = {} THEN Admitting("a pattern rule no map stores")
      ELSE Kids(<<<<<<"pattern", rule[1]>>, Sub(t[3][CHOOSE i \in at : TRUE][2], rule[2])>>>>)

DeclaredIn(t) == {t[2][i].json : i \in DOMAIN t[2]}

StructKids(t, e) ==
  LET all == [i \in DOMAIN e[2] |-> ObjectKid(t, e[2][i])] \o [i \in DOMAIN e[3] |-> PatternKid(t, e[3][i])]
      rest == IF e[4] = <<>> \/ t[4] = <<>> THEN Bare
              ELSE Kids(<<<<<<"additional", DeclaredIn(t)>>, Sub(t[4][1], e[4][1])>>>>)
  IN  FoldLeft(Beside, Bare, Append(all, rest))

(* mapObject: the rule of the map's pattern, or the rest if there is none. *)
MapKids(t, e) ==
  LET ruled == SelectSeq(e[3], LAMBDA r : r[1] = t[3])
      element == IF t[3] # "" THEN [i \in DOMAIN ruled |-> ruled[i][2]]
                 ELSE IF e[3] = <<>> THEN e[4] ELSE <<>>
  IN  CASE e[2] # <<>> -> Admitting("a declared property inside a map")
        [] e[2] = <<>> /\ element = <<>> -> Admitting("an object structure a map cannot be paired with")
        [] OTHER -> Kids(<<<<<<"elem">>, Sub(t[2], Last(element))>>>>)

ObjectKids(t, e) ==
  CASE t[1] = "map"    -> MapKids(t, e)
    [] t[1] = "struct" -> StructKids(t, e)
    [] OTHER           -> Admitting("an object structure over a type that stores no object")

TupleKids(t, e) ==
  LET Slot(i) == IF i > Len(t[2]) THEN Admitting("a prefix item no tuple slot stores")
                 ELSE Kids(<<<<<<"item", i>>, Sub(t[2][i], e[2][i])>>>>)
      rest == IF e[3] = <<>> \/ t[3] = <<>> THEN Bare
              ELSE Kids(<<<<<<"rest", Len(t[2])>>, Sub(t[3][1], e[3][1])>>>>)
  IN  FoldLeft(Beside, Bare, Append([i \in DOMAIN e[2] |-> Slot(i)], rest))

ArrayKids(t, e) ==
  CASE t[1] = "slice" /\ e[2] # <<>> -> Admitting("a prefix item inside a slice")
    [] t[1] = "slice" /\ e[2] = <<>> ->
         IF e[3] = <<>> THEN Bare ELSE Kids(<<<<<<"elem">>, Sub(t[2], e[3][1])>>>>)
    [] t[1] = "tuple" -> TupleKids(t, e)
    [] OTHER          -> Admitting("an array structure over a type that stores no array")

InlineNode(t, g) ==
  CASE g.expr[1] = "object"    -> ObjectKids(t, g.expr)
    [] g.expr[1] = "array"     -> ArrayKids(t, g.expr)
    [] g.expr[1] = "reference" -> Admitting("a reference the Go type does not name")
    [] OTHER -> IF Test(t, g.expr) = <<>> THEN Admitting("no generated check yet")
                ELSE [Bare EXCEPT !.tests = Test(t, g.expr)]

(* node: a declared type tests itself, whatever else is asked of it; a box *)
(* is looked through; the checks of an enum are those of its element.      *)
Node(t, c) ==
  CASE t[1] = "named" -> [Bare EXCEPT !.call = <<t[2]>>]
    [] t[1] \in {"presence", "pointer"} -> Kids(<<<<BoxEdge(t), Node(t[2], c)>>>>)
    [] t[1] = "enum"  -> Kids(<<<<<<"enum">>, Node(t[2], c)>>>>)
    [] OTHER ->
         LET own == [i \in DOMAIN c.inline |-> InlineNode(t, c.inline[i])]
             unselected == IF c.dispatch = "none" THEN Bare ELSE Admitting("a dispatch nothing evaluates")
             raw == IF c.delegate = <<>> THEN Bare ELSE Admitting("needs the raw document")
         IN  FoldLeft(Beside, Beside(unselected, raw), own)

(* sub: a slot's box comes off before its plan is split against the type.  *)
Sub(t, p) ==
  CASE t[1] = "named" -> [Bare EXCEPT !.call = <<t[2]>>]
    [] t[1] \in {"presence", "pointer"} -> Kids(<<<<BoxEdge(t), Sub(t[2], p)>>>>)
    [] OTHER -> Node(t, Split(t, p))

-----------------------------------------------------------------------------
(* Which types get a method.                                               *)

RECURSIVE HasOwnCheck(_), Calls(_), Notes(_), Prune(_, _)

HasOwnCheck(n) == n.tests # <<>> \/ \E i \in DOMAIN n.kids : HasOwnCheck(n.kids[i][2])

Calls(n) == Range(n.call) \cup UNION {Calls(n.kids[i][2]) : i \in DOMAIN n.kids}

Notes(n) == n.notes \cup UNION {Notes(n.kids[i][2]) : i \in DOMAIN n.kids}

(* Mutant of Prune: calls under an edge are not looked at.                 *)
PruneRoot(n, needed) == [n EXCEPT !.call = SelectSeq(@, LAMBDA id : id \in needed)]

Prune(n, needed) ==
  [n EXCEPT !.call = SelectSeq(@, LAMBDA id : id \in needed),
            !.kids = [i \in DOMAIN @ |-> <<@[i][1], Prune(@[i][2], needed)>>]]

RECURSIVE Methodable(_)
Methodable(t) ==
  CASE t[1] \in {"any", "interface", "pointer"} -> FALSE
    [] t[1] = "enum" -> Methodable(t[2])
    [] OTHER         -> TRUE

(* Split against the declared type itself, which is what Lower keeps.      *)
NodeOf(id) == Node(types[id], Split(<<"named", id>>, plans[id]))

(* The loops of validators.                                                *)
Methods == INSTANCE ValidateMethods WITH
  declared   <- DOMAIN types,
  own        <- {id \in DOMAIN types : HasOwnCheck(nodes[id])},
  methodable <- {id \in DOMAIN types : Methodable(types[id])},
  calls      <- [id \in DOMAIN types |-> Calls(nodes[id])],
  phase      <- stage

(* The first: every declared type gets its tree.                           *)
BuildChecks ==
  /\ stage = "shaped"
  /\ nodes' = [id \in DOMAIN types |-> NodeOf(id)]
  /\ deps' = [id \in DOMAIN types |-> Calls(nodes'[id])]
  /\ LET checking == {id \in DOMAIN types : HasOwnCheck(nodes'[id])}
     IN  /\ needs' = {id \in checking : Methodable(types[id])}
         /\ blocked' = {id \in checking : ~ Methodable(types[id])}
  /\ todo' = {} /\ changed' = TRUE
  /\ stage' = "checked"
  /\ UNCHANGED <<plans, types>>

(* The second: the types in need of a method, pass after pass.             *)
Propagate ==
  /\ UNCHANGED <<plans, types, stage, nodes>>
  /\ Methods!BeginPass \/ \E id \in DOMAIN types : Methods!Visit(id)

(* The third.                                                              *)
PruneCalls ==
  /\ stage = "checked" /\ todo = {} /\ ~ changed
  /\ nodes' = [id \in DOMAIN types |-> Prune(nodes[id], needs)]
  /\ stage' = "generated"
  /\ UNCHANGED <<plans, types, methodVars>>
=============================================================================

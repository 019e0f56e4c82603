----------------------------- MODULE GeneratedCode -----------------------------
(***************************************************************************)
(* gogen, the generated file: which types get codecs, what encoding/json   *)
(* makes of the others, and what the Validate methods test of the result.  *)
(*                                                                         *)
(* A JSON value stands for what it is decoded into, null for the zero      *)
(* value of a Go type that stores no null.  Spelling is left out: that     *)
(* encoding/json matches names whatever their case, takes a key named like *)
(* a slot for that slot, and reads 1.0 into no int64.                      *)
(***************************************************************************)
EXTENDS GoValidators, PlanWalk

CONSTANTS
  Documents,   (* what the generator is given: the plans of all schemas    *)
  Instances,   (* the JSON values the generated code is run on             *)
  NameOrder    (* the names in them                                        *)

Null == <<"null">>

-----------------------------------------------------------------------------
(* Codecs (codec.go).                                                      *)

RECURSIVE Constable(_)
Constable(t) ==
  CASE t[1] = "named"     -> Constable(types[t[2]])
    [] t[1] = "enum"      -> Constable(t[2])
    [] t[1] = "primitive" -> t # NullType
    [] OTHER              -> FALSE

GoLiterals(t) ==
  /\ Constable(t[2])
  /\ \A i \in DOMAIN t[3] : /\ KindOf(t[3][i]) \in KindsHeld(t[2])
                            /\ Shape(Deref(t)) = "int" => IsInteger(t[3][i])

Patterned(t) == t[1] = "struct" /\ t[3] # <<>>

(* What a comment is written for instead.                                  *)
CodecRefused(t) ==
  CASE t[1] = "struct" -> Patterned(t)
    [] t[1] = "enum"   -> ~ Methodable(t) \/ Patterned(Deref(t))
    [] OTHER           -> FALSE

HasCodec(t) ==
  \/ t[1] = "presence"
  \/ t[1] \in {"struct", "enum"} /\ ~ CodecRefused(t)
  \/ t[1] = "tuple" /\ t[2] # <<>>

-----------------------------------------------------------------------------
(* Decoding: encoding/json calls the codec of a declared type, and knows   *)
(* the rest by its kind.                                                   *)

RECURSIVE Decodes(_, _), Stock(_, _), Coded(_, _)

(* unmarshalStruct: a null decodes to no members at all.                   *)
StructDecodes(t, v) ==
  LET members == IF v = Null THEN <<>> ELSE v[2]
      declared == DeclaredIn(t)
      Member(f) == IF f.json \in DOMAIN members THEN Decodes(f.type, members[f.json])
                   ELSE MayBeAbsent(f.type)
  IN  /\ KindOf(v) \in {"object", "null"}
      /\ \A i \in DOMAIN t[2] : Member(t[2][i])
      /\ \A n \in DOMAIN members \ declared : t[4] # <<>> /\ Decodes(t[4][1], members[n])

TupleDecodes(t, v) ==
  LET items == IF v = Null THEN <<>> ELSE v[2]
      Item(i) == IF i <= Len(t[2]) THEN Decodes(t[2][i], items[i])
                 ELSE t[3] # <<>> /\ Decodes(t[3][1], items[i])
  IN  /\ KindOf(v) \in {"array", "null"}
      /\ \A i \in DOMAIN items : Item(i)
      /\ \A i \in DOMAIN t[2] : i > Len(items) => MayBeAbsent(t[2][i])

Zero(kind) ==
  CASE kind = "string" -> <<kind, "">> [] kind = "boolean" -> <<kind, FALSE>> [] OTHER -> <<"number", 0>>

(* enumCodec: literals are compared as Go values where all of them are.    *)
EnumDecodes(t, v) ==
  LET held == IF v = Null /\ GoLiterals(t) THEN Zero(Shape(Deref(t))) ELSE v
  IN  /\ held \in Range(t[3])
      /\ IF Deref(t)[1] = "struct" THEN StructDecodes(Deref(t), v) ELSE Decodes(t[2], v)

Coded(t, v) ==
  CASE t[1] = "struct"   -> StructDecodes(t, v)
    [] t[1] = "tuple"    -> TupleDecodes(t, v)
    [] t[1] = "enum"     -> EnumDecodes(t, v)
    [] t[1] = "presence" -> Stock(t, v)

Elements(v) == IF KindOf(v) = "null" THEN {} ELSE Range(v[2])

(* A struct without a codec ignores what it has no field for.              *)
FieldsDecode(t, v) ==
  \A i \in DOMAIN t[2] :
    LET f == t[2][i]
    IN  KindOf(v) = "object" /\ f.json \in DOMAIN v[2] => Decodes(f.type, v[2][f.json])

PrimitiveDecodes(k, v) ==
  CASE k = "null" -> KindOf(v) \in {"null", "object"}
    [] k = "int"  -> v = Null \/ IsInteger(v)
    [] OTHER      -> KindOf(v) \in PrimitiveKinds(k) \cup {"null"}

Stock(t, v) ==
  CASE t[1] \in {"any", "interface"} -> TRUE
    [] t[1] = "primitive"            -> PrimitiveDecodes(t[2], v)
    [] t[1] \in {"never", "tuple"}   -> KindOf(v) \in {"null", "object"}
    [] t[1] = "struct"   -> KindOf(v) \in {"null", "object"} /\ FieldsDecode(t, v)
    [] t[1] = "slice"    -> KindOf(v) \in {"null", "array"} /\ \A x \in Elements(v) : Decodes(t[2], x)
    [] t[1] = "map"      -> KindOf(v) \in {"null", "object"} /\ \A x \in Elements(v) : Decodes(t[2], x)
    [] t[1] = "pointer"  -> v = Null \/ Decodes(t[2], v)
    [] t[1] = "presence" -> IF v = Null THEN t[4] ELSE Decodes(t[2], v)
    [] t[1] = "enum"     -> Decodes(t[2], v)

RECURSIVE Underlying(_)
Underlying(t) ==
  CASE t[1] = "named" -> Underlying(types[t[2]]) [] t[1] = "enum" -> Underlying(t[2]) [] OTHER -> t

(* A defined type has the storage of another, and none of its methods.     *)
Stripped(t, v) == IF t[1] = "presence" THEN KindOf(v) \in {"null", "object"} ELSE Stock(t, v)

Decodes(t, v) ==
  CASE t[1] # "named" -> Stock(t, v)
    [] t[1] = "named" /\ HasCodec(types[t[2]])   -> Coded(types[t[2]], v)
    [] t[1] = "named" /\ ~ HasCodec(types[t[2]]) -> Stripped(Underlying(t), v)

-----------------------------------------------------------------------------
(* Validating (check.go).                                                  *)

Has(v, n) == KindOf(v) = "object" /\ n \in DOMAIN v[2]

(* checkChild: what is stored under an edge.  Without a codec nothing puts *)
(* other names into a struct; no codec fills the maps of patterns.         *)
Under(edge, v, coded) ==
  CASE edge[1] \in {"stored", "pointee"} -> {v} \ {Null}
    [] edge[1] = "enum"       -> {v}
    [] edge[1] = "field"      -> {IF Has(v, edge[2]) THEN v[2][edge[2]] ELSE Null}
    [] edge[1] = "pattern"    -> {}
    [] edge[1] = "additional" -> IF coded /\ v # Null THEN {v[2][n] : n \in DOMAIN v[2] \ edge[2]} ELSE {}
    [] edge[1] = "elem"       -> Elements(v)
    [] edge[1] = "item"       -> {IF KindOf(v) = "array" /\ edge[2] <= Len(v[2]) THEN v[2][edge[2]] ELSE Null}
    [] edge[1] = "rest"       -> IF KindOf(v) = "array" THEN {v[2][i] : i \in edge[2] + 1 .. Len(v[2])} ELSE {}

TestHolds(e, v) ==
  LET number == IF KindOf(v) = "number" THEN v ELSE <<"number", 0>>
  IN  CASE e[1] = "minimum"  -> number[2] >= e[2]
        [] e[1] = "domain"   -> IsInteger(number)
        [] e[1] = "required" -> \A i \in DOMAIN e[2] : Has(v, e[2][i])

RECURSIVE Validates(_, _), Passes(_, _, _)

Passes(n, v, coded) ==
  /\ \A i \in DOMAIN n.tests : TestHolds(n.tests[i], v)
  /\ \A i \in DOMAIN n.call : Validates(n.call[i], v)
  /\ \A i \in DOMAIN n.kids :
       \A x \in Under(n.kids[i][1], v, coded) : Passes(n.kids[i][2], x, coded /\ n.kids[i][1] = <<"enum">>)

(* The method of a type declared as another calls itself, and never ends.  *)
Validates(id, v) == nodes[id].call = <<>> /\ Passes(nodes[id], v, HasCodec(types[id]))

(* What a caller does: decode, then validate if there is a method.         *)
Admits(id, v) == Decodes(<<"named", id>>, v) /\ (id \in needs => Validates(id, v))

-----------------------------------------------------------------------------
GoInit ==
  /\ plans \in Documents
  /\ Planned
  /\ nodes = <<>> /\ deps = <<>>
  /\ needs = {} /\ blocked = {} /\ todo = {}
  /\ changed = TRUE

GoNext ==
  \/ Lower /\ UNCHANGED <<nodes, methodVars>>
  \/ BreakCycles /\ UNCHANGED <<plans, nodes, methodVars>>
  \/ BuildChecks
  \/ Propagate
  \/ PruneCalls

GoSpec == GoInit /\ [][GoNext]_goVars

-----------------------------------------------------------------------------
Generated == stage = "generated"

(* The calls the methods make in the end lead to every check there is, as  *)
(* validators promises of its loops: "it reaches a type that does and the  *)
(* call to it stays" (validate.go).                                        *)
CallsReachChecks == Methods!CallsReachChecks

(* Where the methods can be declared.                                      *)
Compiles == \A id \in needs : Methodable(types[id]) /\ types[id][1] # "presence"

RECURSIVE RefersPlainly(_), NullFree(_)
Anonymous(id) == AllParts(types[id]) \ {types[id]}

Aliases == {id \in DOMAIN types : types[id][1] = "named"}

(* A tuple in a slot has no codec, nor has a declared one without slots.   *)
TuplesCoded ==
  \A id \in DOMAIN types :
    /\ types[id][1] = "tuple" => types[id][2] # <<>>
    /\ \A t \in Anonymous(id) : t[1] # "tuple"

(* No opt.Opt is of a type that holds a null of its own: it refuses nulls.  *)
OptsWithoutNull ==
  \A id \in DOMAIN types : \A t \in AllParts(types[id]) :
    t[1] = "presence" /\ ~ t[4] => "null" \notin KindsHeld(t[2])

AnswerOf(id, v) == Interpret(plans[id], v, {}, [defs |-> plans, order |-> NameOrder])

RejectsNothingAdmitted == \A id \in DOMAIN types, v \in Instances : AnswerOf(id, v).verdict = "accepted" => Admits(id, v)

(* "rejecting an instance the interpreter accepts is a failure": what is   *)
(* decoded and validated is never less than what the plan accepts, however *)
(* the type stores it and whatever it was thought to discharge.  Left out  *)
(* are tuples without a codec, types declared as another, and an opt.Opt   *)
(* of what may be null, which the next property is about.                  *)
AcceptsWhatThePlanAccepts ==
  Generated /\ Compiles /\ Aliases = {} /\ TuplesCoded /\ OptsWithoutNull => RejectsNothingAdmitted

(* The same of every document, as the documentation says it.               *)
NeverRejectsAdmitted == Generated => RejectsNothingAdmitted

(* What the generated file says it leaves unenforced.                      *)
Admission ==
  \E id \in DOMAIN types :
    \/ Notes(nodes[id]) # {} \/ id \in blocked \/ CodecRefused(types[id])
    \/ DispatchDisposition(<<"named", id>>, plans[id].dispatch) # "discharged"

RefersPlainly(p) ==
  /\ p.rep[1] = "reference" => ResidualChecks(p.rep, p.checks) = <<>>
  /\ \A i \in DOMAIN SubPlans(p) : RefersPlainly(SubPlans(p)[i])

(* Nothing is stored where a codec cannot enforce what the type states.    *)
PlainlyStored ==
  /\ Aliases = {}
  /\ \A id \in DOMAIN types :
       /\ RefersPlainly(plans[id])
       /\ \A t \in AllParts(types[id]) : t[1] # "never" /\ t # NullType /\ (t[1] = "map" => t[3] = "")
       /\ \A t \in Anonymous(id) : t[1] \notin {"struct", "enum", "tuple"}

NullFree(v) ==
  CASE v[1] = "null" -> FALSE
    [] v[1] \in {"array", "object"} -> \A n \in DOMAIN v[2] : NullFree(v[2][n])
    [] OTHER -> TRUE

(* "Silence here would be the failure": what is accepted too much is       *)
(* admitted in a comment, wherever the shape, the codec and the methods    *)
(* share the enforcing.                                                    *)
AdmitsWhatItSkips ==
  Generated /\ ~ Admission /\ PlainlyStored =>
    \A id \in DOMAIN types, v \in Instances :
      NullFree(v) /\ Admits(id, v) => AnswerOf(id, v).verdict = "accepted"
=============================================================================

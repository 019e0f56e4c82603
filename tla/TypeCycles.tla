------------------------------ MODULE TypeCycles ------------------------------
(***************************************************************************)
(* gogen/recursion.go: breakCycles puts a pointer wherever a type that     *)
(* inline storage makes cyclic is stored.                                  *)
(*                                                                         *)
(* A Go type is a tuple headed by the name of its variant in type.go:      *)
(*   <<"named", id>>   <<"primitive", kind>>   <<"any">>   <<"never">>     *)
(*   <<"slice", elem>>   <<"tuple", elems, rest>>                          *)
(*   <<"map", elem, pattern>>   <<"struct", fields, patterns, additional>> *)
(*   <<"presence", elem, optional, nullable>>   <<"enum", elem, values>>   *)
(*   <<"interface", variants>>   <<"pointer", elem>>                       *)
(* A field is [json, type]; rest and additional are <<>> or <<t>>, like    *)
(* every pointer.  A declared type is told from others by its schema's id. *)
(*                                                                         *)
(* As in Denotation, an operator that recurses is a parameter, and what it *)
(* is to be is named ...By.                                                *)
(***************************************************************************)
EXTENDS Sequences

CONSTANTS
  InlineParts(_),    (* a type and what it stores inline                   *)
  AllParts(_),       (* a type and every type written in it                *)
  Pointerize(_, _)

VARIABLES
  types,   (* the type each schema is declared as, by id                   *)
  stage    (* how far the pipeline has come                                *)

-----------------------------------------------------------------------------
(* apply's edges: what a type holds within itself, and what it holds       *)
(* behind an indirection of the language's own.                            *)

FieldTypes(t) == [i \in DOMAIN t[2] |-> t[2][i].type]

Inline(t) ==
  CASE t[1] = "struct" -> FieldTypes(t) \o t[3]
    [] t[1] = "tuple"  -> t[2]
    [] t[1] \in {"presence", "enum"} -> <<t[2]>>
    [] OTHER           -> <<>>

Behind(t) ==
  CASE t[1] \in {"slice", "map"} -> <<t[2]>>
    [] t[1] = "interface"        -> t[2]
    [] t[1] = "tuple"            -> t[3]
    [] t[1] = "struct"           -> t[4]
    [] OTHER                     -> <<>>

InlinePartsBy(t) ==
  LET within == {InlineParts(Inline(t)[i]) : i \in DOMAIN Inline(t)}
  IN  {t} \cup UNION within

AllPartsBy(t) ==
  LET within == {AllParts(Inline(t)[i]) : i \in DOMAIN Inline(t)}
      behind == {AllParts(Behind(t)[i]) : i \in DOMAIN Behind(t)}
  IN  {t} \cup UNION (within \cup behind)

Names(ts) == {t[2] : t \in {u \in ts : u[1] = "named"}}
Pointees(ts) == {t[2][2] : t \in {u \in ts : u[1] = "pointer"}}

(* directRefs: the declared types that a type stores inline.               *)
DirectRefs(t) == Names(InlineParts(t))

(* scc.Components and scc.Recursive: what its own edges lead back to.      *)
OnCycle(edges) ==
  LET Within(ids, S) == ids \cap DOMAIN edges \subseteq S
  IN  {id \in DOMAIN edges :
         \A S \in SUBSET DOMAIN edges :
           Within(edges[id], S) /\ (\A n \in S : Within(edges[n], S)) => id \in S}

Edges(declared) == [id \in DOMAIN declared |-> DirectRefs(declared[id])]

(* pointerize: under every edge, and a pointer wherever a recursive type   *)
(* is stored inline.  Mutant of Direct: what is stored inline is not       *)
(* itself looked into.                                                     *)
DirectOnce(t, marked) == IF t[1] = "named" /\ t[2] \in marked THEN <<"pointer", t>> ELSE t

Direct(t, marked) ==
  IF t[1] = "named" /\ t[2] \in marked THEN <<"pointer", t>> ELSE Pointerize(t, marked)

PointerizeBy(t, marked) ==
  LET DirectAll(us) == [i \in DOMAIN us |-> Direct(us[i], marked)]
      BehindAll(us) == [i \in DOMAIN us |-> Pointerize(us[i], marked)]
  IN  CASE t[1] \in {"named", "primitive", "any", "never", "pointer"} -> t
        [] t[1] = "slice"     -> <<t[1], Pointerize(t[2], marked)>>
        [] t[1] = "map"       -> <<t[1], Pointerize(t[2], marked), t[3]>>
        [] t[1] = "interface" -> <<t[1], BehindAll(t[2])>>
        [] t[1] = "presence"  -> <<t[1], Direct(t[2], marked), t[3], t[4]>>
        [] t[1] = "enum"      -> <<t[1], Direct(t[2], marked), t[3]>>
        [] t[1] = "tuple"     -> <<t[1], DirectAll(t[2]), BehindAll(t[3])>>
        [] t[1] = "struct"    -> <<t[1], [i \in DOMAIN t[2] |-> [t[2][i] EXCEPT !.type = Direct(@, marked)]],
                                   BehindAll(t[3]), BehindAll(t[4])>>

(* Mutant of Declared: what a type is declared as is taken for no edge.    *)
DeclaredInPlace(t, marked) == Pointerize(t, marked)

(* A declaration stores inline what it is declared as.                     *)
Declared(t, marked) == Direct(t, marked)

BreakCycles ==
  /\ stage = "lowered"
  /\ LET marked == OnCycle(Edges(types))
     IN  types' = [id \in DOMAIN types |-> Declared(types[id], marked)]
  /\ stage' = "shaped"

-----------------------------------------------------------------------------
Settled == stage \notin {"planned", "lowered"}

(* "the only witness is the type checker" (docs/backend.md section 9): no  *)
(* type stores itself inline, whichever slots a recursion leads through.   *)
NoInfiniteType == Settled => OnCycle(Edges(types)) = {}

(* By a type, or by a part of it behind an indirection.                    *)
StoredInline(t) == DirectRefs(t) \cup UNION {DirectRefs(u) : u \in {w \in AllParts(t) : w[1] # "named"}}

(* What would be stored inline without the pointers.                       *)
Unpointed(t) == Names(InlineParts(t)) \cup Pointees(InlineParts(t))

Plain(t) == \A u \in AllParts(t) : u[1] # "pointer"

(* "every direct reference to it is a pointer, including references from   *)
(* outside the cycle" (section 7): nothing is pointed to before that, and  *)
(* then a type everywhere or nowhere, and only if storing it inline would  *)
(* close a cycle through it.                                               *)
IndirectionPerType ==
  /\ stage = "lowered" => \A id \in DOMAIN types : Plain(types[id])
  /\ Settled =>
       LET pointed == UNION {Pointees(AllParts(types[id])) : id \in DOMAIN types}
       IN  /\ \A id \in DOMAIN types : StoredInline(types[id]) \cap pointed = {}
           /\ pointed \subseteq OnCycle([id \in DOMAIN types |-> Unpointed(types[id])])
=============================================================================

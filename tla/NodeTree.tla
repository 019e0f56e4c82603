------------------------------ MODULE NodeTree ------------------------------
(***************************************************************************)
(* internal/nodetree: a plan compiled into a tree of checks, with bounds   *)
(* and required names folded into the walk of the structure beside them,   *)
(* and the three uses of the tree: IsValid, IterErrors and Validate.       *)
(*                                                                         *)
(* Definitions are compiled in the order Go ranges over a map, each into   *)
(* its slot of one table that reference nodes read when they run; those of *)
(* a dynamic reference graph are not compiled.                             *)
(*                                                                         *)
(* A node is a tuple headed by the name of its Go type.  Instances are     *)
(* well-formed JSON without duplicate names; numbers are compared exactly. *)
(* Compiling a plan, asking a node and reporting for it call themselves on *)
(* what they hold: CompilePlan, Ok and Errs are parameters, given          *)
(* CompilePlanBy, OkBy and ErrsBy.                                         *)
(***************************************************************************)
EXTENDS PlanInterpreter

CONSTANTS
  CompilePlan(_),        (* compiler.compilePlan                           *)
  Ok(_, _, _),           (* definition table, node and instance            *)
  Errs(_, _, _, _, _),   (* the same, with the report so far and the quota *)
  Inputs,      (* what Compile is given: [root, defs]                      *)
  Instances,   (* the JSON values validated                                *)
  Names,       (* every property name, in the order of an object's bytes   *)
  Garbled,     (* names that strconv.Quote writes in escapes JSON lacks    *)
  Quotable     (* instances without such a name at any depth               *)

VARIABLES
  input,       (* the plan and its definitions                             *)
  pending,     (* definitions not compiled yet                             *)
  table,       (* defs: their nodes, <<"nil">> until then                  *)
  root,        (* the compiled root                                        *)
  phase,       (* "definitions" | "ready" | "failed"                       *)
  instance,    (* the last instance asked about                            *)
  answer       (* and what IsValid said of it                              *)

vars == <<input, pending, table, root, phase, instance, answer>>

Unsupported == <<"unsupported">>
Set(names) == {names[i] : i \in DOMAIN names}

-----------------------------------------------------------------------------
(* nameset.go: a set of names is the list it was made from, a presence the *)
(* set of positions seen.                                                  *)

Lookup(names, n) ==
  LET at == {i \in DOMAIN names : names[i] = n}
  IN  IF at = {} THEN {} ELSE {CHOOSE i \in at : \A j \in at : i <= j}

PresenceOf(names, present) == UNION {Lookup(names, n) : n \in present}

-----------------------------------------------------------------------------
(* fuse.go: which checks of a plan are made elsewhere.                     *)

NoBounds == [min |-> <<>>, max |-> <<>>]

BoundsOk(c, n) == /\ c.min # <<>> => n >= c.min[1]
                  /\ c.max # <<>> => n <= c.max[1]

(* The only structure check of its kind, if there is just one.             *)
LoneStructure(checks, type) ==
  LET at == {i \in DOMAIN checks : ~ checks[i].assert /\ checks[i].expr[1] = type}
  IN  IF Cardinality(at) = 1 THEN at ELSE {}

Foldable(checks, i, type) ==
  /\ ~ checks[i].assert
  /\ \E j \in LoneStructure(checks, type) : checks[j].on = checks[i].on

(* The first bound of a keyword that can be folded is; a second one stays. *)
Folded(checks, keyword, type) ==
  LET at == {i \in DOMAIN checks : checks[i].expr[1] = keyword /\ Foldable(checks, i, type)}
  IN  IF at = {} THEN {} ELSE {CHOOSE i \in at : \A j \in at : i <= j}

StructureRequires(e, names) ==
  \A i \in DOMAIN names : \E j \in DOMAIN e[2] : e[2][j].name = names[i] /\ e[2][j].required

(* Mutant of RequiredIsRestated: a declared name will do.                  *)
RequiredIsDeclared(checks, i) ==
  \E j \in DOMAIN checks :
    /\ checks[j].expr[1] = "object" /\ ~ checks[j].assert /\ checks[j].on = checks[i].on
    /\ \A n \in Set(checks[i].expr[2]) : \E k \in DOMAIN checks[j].expr[2] : checks[j].expr[2][k].name = n

RequiredIsRestated(checks, i) ==
  \E j \in DOMAIN checks :
    /\ checks[j].expr[1] = "object" /\ ~ checks[j].assert /\ checks[j].on = checks[i].on
    /\ StructureRequires(checks[j].expr, checks[i].expr[2])

(* newPlanFusion *)
Fusion(checks) ==
  LET Bound(keyword, type) == {checks[i].expr[2] : i \in Folded(checks, keyword, type)}
      Opt(S) == IF S = {} THEN <<>> ELSE <<CHOOSE x \in S : TRUE>>
  IN  [skip |-> UNION {Folded(checks, "minProperties", "object"), Folded(checks, "maxProperties", "object"),
                       Folded(checks, "minItems", "array"), Folded(checks, "maxItems", "array"),
                       {i \in DOMAIN checks : /\ ~ checks[i].assert
                                              /\ checks[i].expr[1] = "required"
                                              /\ RequiredIsRestated(checks, i)}},
       object |-> [min |-> Opt(Bound("minProperties", "object")), max |-> Opt(Bound("maxProperties", "object"))],
       array |-> [min |-> Opt(Bound("minItems", "array")), max |-> Opt(Bound("maxItems", "array"))]]

-----------------------------------------------------------------------------
(* compile.go.  An unsupported construct anywhere makes the whole of it    *)
(* unsupported.                                                            *)

CompileEach(ps) == [i \in DOMAIN ps |-> CompilePlan(ps[i])]
CompileOpt(p) == IF p = <<>> THEN <<"nil">> ELSE CompilePlan(p[1])

CompileObject(e, counts) ==
  LET inner == [i \in DOMAIN e[2] |-> CompilePlan(e[2][i].plan)]
      ruled == [i \in DOMAIN e[3] |-> CompilePlan(e[3][i][2])]
      extra == CompileOpt(e[4])
  IN  IF Unsupported \in Set(inner) \cup Set(ruled) \cup {extra} THEN Unsupported
      ELSE <<"objectStructure",
             [i \in DOMAIN e[2] |-> [name |-> e[2][i].name, inner |-> inner[i],
                                     required |-> e[2][i].required, nullable |-> e[2][i].nullable]],
             [i \in DOMAIN e[3] |-> <<e[3][i][1], ruled[i]>>], extra, counts>>

CompileArray(e, counts) ==
  LET prefix == CompileEach(e[2])
      rest == CompileOpt(e[3])
  IN  IF Unsupported \in Set(prefix) \cup {rest} THEN Unsupported
      ELSE <<"arrayStructure", prefix, rest, counts>>

(* dependentRequired: positions in the set of all names mentioned.         *)
CompileDependentRequired(e) ==
  LET names == <<e[2]>> \o e[3]
  IN  <<"dependentRequired", names, Lookup(names, e[2]), UNION {Lookup(names, n) : n \in Set(e[3])}>>

CompileExpr(e, fusion) ==
  LET Holding(type, p) == IF p = Unsupported THEN Unsupported ELSE <<type, p>>
  IN  CASE e[1] \in {"nil", "format"} -> Nil
        [] e[1] = "multipleOf"    -> IF e[2] = 0 THEN Unsupported ELSE e
        [] e[1] = "required"      -> <<"required", e[2], PresenceOf(e[2], Set(e[2]))>>
        [] e[1] = "dependent"     -> CompileDependentRequired(e)
        [] e[1] = "object"        -> CompileObject(e, fusion.object)
        [] e[1] = "array"         -> CompileArray(e, fusion.array)
        [] e[1] = "not"           -> Holding("negation", CompilePlan(e[2]))
        [] e[1] = "shape"         -> Holding("shape", CompilePlan(e[2]))
        [] e[1] = "propertyNames" -> Holding("propertyNames", CompilePlan(e[2]))
        [] e[1] = "contains"      ->
             LET inner == CompilePlan(e[2])
             IN  IF inner = Unsupported THEN inner ELSE <<"contains", inner, e[3], e[4]>>
        [] OTHER -> e

(* compileGuarded *)
CompileGuarded(g, fusion) ==
  LET inner == CompileExpr(g.expr, fusion)
  IN  CASE inner = Unsupported -> Unsupported
        [] inner # Unsupported /\ g.assert -> <<"assertKind", g.on, inner>>
        [] inner # Unsupported /\ ~ g.assert /\ (inner = Nil \/ g.on = AllKinds) -> inner
        [] OTHER -> <<"guard", g.on, inner>>

(* indexCases: literals that can be keyed are looked up instead of scanned *)
(* through, when there is more than one and no two have one key.           *)
Keyed(v) == KindOf(v) \notin {"array", "object"}

CaseTable(cases, nodes) ==
  [cases |-> [i \in DOMAIN cases |-> <<cases[i][1], nodes[i]>>],
   hashed |-> /\ Len(cases) > 1
              /\ \A i \in DOMAIN cases : Keyed(cases[i][1])
              /\ IsInjective([i \in DOMAIN cases |-> cases[i][1]])]

CompileDispatch(d) ==
  LET Cases(cs) == [i \in DOMAIN cs |-> CompilePlan(cs[i][2])]
  IN  CASE d[1] = "none"     -> Nil
        [] d[1] = "kind"     -> LET nodes == [k \in DOMAIN d[2] |-> CompilePlan(d[2][k])]
                                IN  IF \E k \in DOMAIN nodes : nodes[k] = Unsupported THEN Unsupported
                                    ELSE <<"kindDispatch", nodes>>
        [] d[1] = "literal"  -> LET nodes == Cases(d[2])
                                IN  IF Unsupported \in Set(nodes) THEN Unsupported
                                    ELSE <<"literalDispatch", CaseTable(d[2], nodes)>>
        [] d[1] = "property" -> LET nodes == Cases(d[3])
                                IN  IF Unsupported \in Set(nodes) THEN Unsupported
                                    ELSE <<"propertyDispatch", d[2], CaseTable(d[3], nodes)>>
        [] d[1] = "presence" -> LET nodes == CompileEach(<<d[3], d[4]>>)
                                IN  IF Unsupported \in Set(nodes) THEN Unsupported
                                    ELSE <<"presenceDispatch", d[2], nodes[1], nodes[2]>>
        [] d[1] = "count"    -> LET nodes == CompileEach(d[2])
                                IN  IF Unsupported \in Set(nodes) THEN Unsupported
                                    ELSE <<"countDispatch", nodes, d[3], d[4]>>

CompilePlanBy(p) ==
  LET fusion == Fusion(p.checks)
      guarded == [i \in DOMAIN p.checks |->
                    IF i \in fusion.skip THEN Nil ELSE CompileGuarded(p.checks[i], fusion)]
      nodes == Append(guarded, CompileDispatch(p.dispatch))
      out == Listed(nodes, Set(nodes) \ {Nil})
  IN  CASE Unsupported \in Set(out) -> Unsupported
        [] out = <<>> -> <<"always">>
        [] Len(out) = 1 -> out[1]
        [] OTHER -> <<"all", out>>

-----------------------------------------------------------------------------
(* ok: one verdict.  What a node cannot tell it lets pass.                 *)

NamesIn(v) == Listed(Names, DOMAIN v[2])

(* selectCase: the set of at most one node.                                *)
Selected(table_, selector) ==
  LET equal == {i \in DOMAIN table_.cases : table_.cases[i][1] = selector}
      first == {i \in equal : \A j \in equal : i <= j}
  IN  IF table_.hashed /\ ~ Keyed(selector) THEN {}
      ELSE {table_.cases[i][2] : i \in first}

(* The node an undeclared name leads to, and by what.                      *)
RulesFor(o, name) == {i \in DOMAIN o[3] : MatchString(o[3][i][1], name) # "NoMatch"}
Decided(o, name) == {i \in DOMAIN o[3] : MatchString(o[3][i][1], name) = "Match"}

MemberOk(t, o, name, x) ==
  LET at == {i \in DOMAIN o[2] : o[2][i].name = name}
  IN  IF at # {}
      THEN \A i \in at : (o[2][i].nullable /\ KindOf(x) = "null") \/ Ok(t, o[2][i].inner, x)
      ELSE /\ \A i \in Decided(o, name) : Ok(t, o[3][i][2], x)
           /\ RulesFor(o, name) # {} \/ o[4] = Nil \/ Ok(t, o[4], x)

(* The walk counts the members and notes the declared ones as it checks.   *)
ObjectOk(t, o, v) ==
  /\ \A n \in DOMAIN v[2] : MemberOk(t, o, n, v[2][n])
  /\ {i \in DOMAIN o[2] : o[2][i].required} \subseteq
       PresenceOf([i \in DOMAIN o[2] |-> o[2][i].name], DOMAIN v[2])
  /\ BoundsOk(o[5], Cardinality(DOMAIN v[2]))

ArrayOk(t, a, v) ==
  /\ \A i \in DOMAIN v[2] :
       CASE i <= Len(a[2]) -> Ok(t, a[2][i], v[2][i])
         [] i > Len(a[2]) /\ a[3] # Nil -> Ok(t, a[3], v[2][i])
         [] OTHER -> FALSE
  /\ BoundsOk(a[4], Len(v[2]))

ContainsOk(t, n, v) ==
  LET count == Cardinality({i \in DOMAIN v[2] : Ok(t, n[2], v[2][i])})
  IN  count >= n[3] /\ (n[4] # <<>> => count <= n[4][1])

DependentOk(n, v) ==
  LET seen == PresenceOf(n[2], DOMAIN v[2])
  IN  n[3] \subseteq seen => n[4] \subseteq seen

(* The bytes propertyNames hands its node for a name: the name in Go       *)
(* quotes.  Of a control character, or another that does not print, that   *)
(* may be an escape JSON has not (\x01, \a, \U000e0001).  The bytes still   *)
(* begin with a quote, so their kind is string, but decode to nothing:     *)
(* they equal no literal, and a pattern lets them pass.                    *)
Unreadable == <<"string">>
Quoted(name) == IF name \in Garbled THEN Unreadable ELSE <<"string", name>>

(* The leaves: of their own kind they test, of others they let all pass.   *)
ScalarOk(n, v) ==
  CASE n[1] = "pattern"    -> KindOf(v) = "string" /\ v # Unreadable => MatchString(n[2], v[2]) # "NoMatch"
    [] n[1] = "minimum"    -> KindOf(v) = "number" => v[2] >= n[2]
    [] n[1] = "multipleOf" -> KindOf(v) = "number" => v[2] % n[2] = 0
    [] n[1] = "domain"     -> KindOf(v) = "number" => InDomain(n[2], v)

ArrayTestOk(t, n, v) ==
  KindOf(v) = "array" =>
    CASE n[1] = "minItems"    -> Len(v[2]) >= n[2]
      [] n[1] = "maxItems"    -> Len(v[2]) <= n[2]
      [] n[1] = "uniqueItems" -> IsInjective(v[2])
      [] n[1] = "contains"    -> ContainsOk(t, n, v)

ObjectTestOk(t, n, v) ==
  KindOf(v) = "object" =>
    CASE n[1] = "required"          -> n[3] \subseteq PresenceOf(n[2], DOMAIN v[2])
      [] n[1] = "minProperties"     -> Cardinality(DOMAIN v[2]) >= n[2]
      [] n[1] = "maxProperties"     -> Cardinality(DOMAIN v[2]) <= n[2]
      [] n[1] = "dependentRequired" -> DependentOk(n, v)
      [] n[1] = "propertyNames"     -> \A p \in DOMAIN v[2] : Ok(t, n[2], Quoted(p))

DispatchOk(t, n, v) ==
  LET Case(S) == S # {} /\ \A m \in S : Ok(t, m, v)
      isObject == KindOf(v) = "object"
      has == isObject /\ n[2] \in DOMAIN v[2]
  IN  CASE n[1] = "kindDispatch"     -> KindOf(v) \in DOMAIN n[2] /\ Ok(t, n[2][KindOf(v)], v)
        [] n[1] = "literalDispatch"  -> Case(Selected(n[2], v))
        [] n[1] = "propertyDispatch" -> has /\ Case(Selected(n[3], v[2][n[2]]))
        [] n[1] = "presenceDispatch" -> isObject => Ok(t, IF has THEN n[3] ELSE n[4], v)
        [] n[1] = "countDispatch"    ->
             Cardinality({i \in DOMAIN n[2] : Ok(t, n[2][i], v)}) \in n[3] .. n[4]

OkBy(t, n, v) ==
  LET isArray == KindOf(v) = "array"
      isObject == KindOf(v) = "object"
  IN  CASE n[1] = "always"          -> TRUE
        [] n[1] = "all"             -> \A i \in DOMAIN n[2] : Ok(t, n[2][i], v)
        [] n[1] = "guard"           -> KindOf(v) \in n[2] => Ok(t, n[3], v)
        [] n[1] = "assertKind"      -> KindOf(v) \in n[2] /\ (n[3] = Nil \/ Ok(t, n[3], v))
        [] n[1] = "negation"        -> ~ Ok(t, n[2], v)
        [] n[1] = "shape"           -> Ok(t, n[2], v)
        [] n[1] = "objectStructure" -> isObject => ObjectOk(t, n, v)
        [] n[1] = "arrayStructure"  -> isArray => ArrayOk(t, n, v)
        [] n[1] = "reference"       -> n[2] \notin DOMAIN t \/ t[n[2]] = Nil \/ Ok(t, t[n[2]], v)
        [] n[1] \in {"pattern", "minimum", "multipleOf", "domain"} -> ScalarOk(n, v)
        [] n[1] \in {"minItems", "maxItems", "uniqueItems", "contains"} -> ArrayTestOk(t, n, v)
        [] n[1] \in {"required", "minProperties", "maxProperties", "dependentRequired", "propertyNames"} ->
             ObjectTestOk(t, n, v)
        [] OTHER -> DispatchOk(t, n, v)

-----------------------------------------------------------------------------
(* errs: every reason, handed to a consumer that may stop pulling.  A      *)
(* report says how many errors were yielded, whether the consumer goes on, *)
(* and whether one was yielded after it had stopped.  It stops after       *)
(* `quota` errors.                                                         *)

Reports == [go : BOOLEAN, yielded : Nat, late : BOOLEAN]

Fresh == [go |-> TRUE, yielded |-> 0, late |-> FALSE]

Yield(y, quota) ==
  [go |-> y.yielded + 1 < quota, yielded |-> y.yielded + 1, late |-> y.late \/ ~ y.go]

(* One step after the other, as long as the consumer goes on.              *)
Each(step, n, y) ==
  LET upto[i \in 0 .. n] ==
        LET r == upto[i - 1]
        IN  IF i = 0 THEN y ELSE IF r.go THEN step[i][r] ELSE r
  IN  upto[n]

(* Mutant of CountErrs: only the lower bound is reported.                  *)
CountErrsLow(c, n, y, quota) == IF BoundsOk([c EXCEPT !.max = <<>>], n) THEN y ELSE Yield(y, quota)

CountErrs(c, n, y, quota) == IF BoundsOk(c, n) THEN y ELSE Yield(y, quota)

MemberErrs(t, o, name, x, y, quota) ==
  LET at == {i \in DOMAIN o[2] : o[2][i].name = name}
      f == o[2][CHOOSE i \in at : TRUE]
      rule == [i \in DOMAIN o[3] |->
                 [r \in Reports |-> IF i \in Decided(o, name) THEN Errs(t, o[3][i][2], x, r, quota) ELSE r]]
      ruled == Each(rule, Len(o[3]), y)
  IN  CASE at # {} -> IF f.nullable /\ KindOf(x) = "null" THEN y ELSE Errs(t, f.inner, x, y, quota)
        [] at = {} /\ (~ ruled.go \/ RulesFor(o, name) # {} \/ o[4] = Nil) -> ruled
        [] OTHER -> Errs(t, o[4], x, ruled, quota)

ObjectErrs(t, o, v, y, quota) ==
  LET names == NamesIn(v)
      member == [i \in DOMAIN names |->
                   [r \in Reports |-> MemberErrs(t, o, names[i], v[2][names[i]], r, quota)]]
      walked == Each(member, Len(names), y)
      present == PresenceOf([i \in DOMAIN o[2] |-> o[2][i].name], DOMAIN v[2])
      field == [i \in DOMAIN o[2] |->
                  [r \in Reports |-> IF o[2][i].required /\ i \notin present THEN Yield(r, quota) ELSE r]]
      fields == Each(field, Len(o[2]), walked)
  IN  IF fields.go THEN CountErrs(o[5], Len(names), fields, quota) ELSE fields

ItemErrs(t, a, v, y, quota) ==
  LET item == [i \in DOMAIN v[2] |->
                 [r \in Reports |-> CASE i <= Len(a[2]) -> Errs(t, a[2][i], v[2][i], r, quota)
                                     [] i > Len(a[2]) /\ a[3] = Nil -> Yield(r, quota)
                                     [] OTHER -> Errs(t, a[3], v[2][i], r, quota)]]
  IN  Each(item, Len(v[2]), y)

(* Mutant of ArrayErrs: the bounds are reported whether or not the         *)
(* consumer stopped among the elements.                                    *)
ArrayErrsPastStop(t, a, v, y, quota) == CountErrs(a[4], Len(v[2]), ItemErrs(t, a, v, y, quota), quota)

ArrayErrs(t, a, v, y, quota) ==
  LET walked == ItemErrs(t, a, v, y, quota)
  IN  IF walked.go THEN CountErrs(a[4], Len(v[2]), walked, quota) ELSE walked

(* requiredNode asks for every position of its list of names.              *)
RequiredErrs(n, v, y, quota) ==
  LET name == [i \in DOMAIN n[2] |->
                 [r \in Reports |-> IF i \in PresenceOf(n[2], DOMAIN v[2]) THEN r ELSE Yield(r, quota)]]
  IN  Each(name, Len(n[2]), y)

NameErrs(t, n, v, y, quota) ==
  LET names == NamesIn(v)
      name == [i \in DOMAIN names |->
                 [r \in Reports |-> IF Ok(t, n[2], Quoted(names[i])) THEN r ELSE Yield(r, quota)]]
  IN  Each(name, Len(names), y)

CaseErrs(t, S, v, y, quota) ==
  IF S = {} THEN Yield(y, quota) ELSE Errs(t, CHOOSE m \in S : TRUE, v, y, quota)

DispatchErrs(t, n, v, y, quota) ==
  LET isObject == KindOf(v) = "object"
      has == isObject /\ n[2] \in DOMAIN v[2]
  IN  CASE n[1] = "kindDispatch"     -> IF KindOf(v) \in DOMAIN n[2] THEN Errs(t, n[2][KindOf(v)], v, y, quota)
                                        ELSE Yield(y, quota)
        [] n[1] = "literalDispatch"  -> CaseErrs(t, Selected(n[2], v), v, y, quota)
        [] n[1] = "propertyDispatch" -> IF has THEN CaseErrs(t, Selected(n[3], v[2][n[2]]), v, y, quota)
                                        ELSE Yield(y, quota)
        [] n[1] = "presenceDispatch" -> IF isObject THEN Errs(t, IF has THEN n[3] ELSE n[4], v, y, quota) ELSE y
        [] n[1] = "countDispatch"    -> IF Ok(t, n, v) THEN y ELSE Yield(y, quota)

(* leaf, and report for a node that describes no errors of its own.        *)
LeafErrs(t, n, v, y, quota) == IF Ok(t, n, v) THEN y ELSE Yield(y, quota)

ErrsBy(t, n, v, y, quota) ==
  LET Object(errs) == IF KindOf(v) = "object" THEN errs ELSE y
      member == [i \in DOMAIN n[2] |-> [r \in Reports |-> Errs(t, n[2][i], v, r, quota)]]
  IN  CASE n[1] = "all"             -> Each(member, Len(n[2]), y)
        [] n[1] = "guard"           -> IF KindOf(v) \in n[2] THEN Errs(t, n[3], v, y, quota) ELSE y
        [] n[1] = "assertKind"      -> CASE KindOf(v) \notin n[2] -> Yield(y, quota)
                                         [] KindOf(v) \in n[2] /\ n[3] = Nil -> y
                                         [] OTHER -> Errs(t, n[3], v, y, quota)
        [] n[1] = "shape"           -> Errs(t, n[2], v, y, quota)
        [] n[1] = "reference"       -> IF n[2] \notin DOMAIN t \/ t[n[2]] = Nil THEN y
                                       ELSE Errs(t, t[n[2]], v, y, quota)
        [] n[1] = "required"        -> Object(RequiredErrs(n, v, y, quota))
        [] n[1] = "propertyNames"   -> Object(NameErrs(t, n, v, y, quota))
        [] n[1] = "objectStructure" -> Object(ObjectErrs(t, n, v, y, quota))
        [] n[1] = "arrayStructure"  -> IF KindOf(v) = "array" THEN ArrayErrs(t, n, v, y, quota) ELSE y
        [] n[1] \in {"kindDispatch", "literalDispatch", "propertyDispatch", "presenceDispatch", "countDispatch"} ->
             DispatchErrs(t, n, v, y, quota)
        [] OTHER                    -> LeafErrs(t, n, v, y, quota)

(* IterErrors with a consumer that takes at most quota, and Validate.      *)
IterErrors(v, quota) == Errs(table, root, v, Fresh, quota)
Validate(v) == IterErrors(v, 1)

-----------------------------------------------------------------------------

Unasked == <<"unasked">>

(* The definitions of a static reference graph.  A dynamic one has them    *)
(* too, and every reference to one of those accepts.                       *)
Collected(x) == IF x.root.dynamic THEN {} ELSE DOMAIN x.defs

Init ==
  /\ input \in Inputs
  /\ pending = Collected(input)
  /\ table = [d \in pending |-> Nil]
  /\ root = Nil
  /\ phase = "definitions"
  /\ instance = Unasked
  /\ answer = Unasked

(* collectDefs: one definition, in whatever order.                         *)
CompileDefinition ==
  /\ phase = "definitions"
  /\ \E d \in pending :
       LET n == CompilePlan(input.defs[d])
       IN  IF n = Unsupported
           THEN phase' = "failed" /\ UNCHANGED <<pending, table>>
           ELSE /\ table' = [table EXCEPT ![d] = n]
                /\ pending' = pending \ {d}
                /\ UNCHANGED phase
  /\ UNCHANGED <<input, root, instance, answer>>

CompileRoot ==
  /\ phase = "definitions" /\ pending = {}
  /\ root' = CompilePlan(input.root)
  /\ phase' = IF root' = Unsupported THEN "failed" ELSE "ready"
  /\ UNCHANGED <<input, pending, table, instance, answer>>

IsValid ==
  /\ phase = "ready"
  /\ instance' \in Instances
  /\ answer' = IF Ok(table, root, instance') THEN "accepted" ELSE "rejected"
  /\ UNCHANGED <<input, pending, table, root, phase>>

Next == CompileDefinition \/ CompileRoot \/ IsValid

Spec == Init /\ [][Next]_vars /\ WF_vars(CompileDefinition) /\ WF_vars(CompileRoot)

-----------------------------------------------------------------------------

Oracle == INSTANCE PlanOracle WITH plan <- input.root, definitions <- input.defs

(* "The differential test between the two is what keeps the trade honest"  *)
(* (nodetree.go:6-7): fused bounds and required names, hashed cases and    *)
(* definitions compiled in any order leave every verdict the interpreter   *)
(* reaches exactly as it is, and what the interpreter lets pass because it *)
(* could not check it, the validator lets pass.  A name that propertyNames *)
(* cannot hand on excepts the instance that has it.                        *)
ImplementsOracle == Oracle!Spec

(* "IsValid and Validate disagree" (errors_test.go:153): the reporting     *)
(* walk, a second traversal with code of its own, finds an error exactly   *)
(* where the fast one rejects.                                             *)
ReportsIffRejected ==
  instance # Unasked => (Validate(instance).yielded > 0 <=> answer = "rejected")

(* "Returning false means the consumer has stopped pulling, and every node *)
(* must propagate that immediately" (errors.go:121-122): whatever number   *)
(* of errors the consumer takes, none is yielded after the last.           *)
StopsWithConsumer ==
  instance # Unasked =>
    \A quota \in 1 .. 3 : LET y == IterErrors(instance, quota)
                          IN  ~ y.late /\ y.yielded <= quota
=============================================================================

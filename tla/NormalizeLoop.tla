---------------------------- MODULE NormalizeLoop ----------------------------
(***************************************************************************)
(* internal/norm: Normalize rewrites a compiled expression pass by pass    *)
(* until a pass changes nothing.  Distributing a conjunction over a union  *)
(* copies sub-expressions, so it is paid for out of a budget that all      *)
(* passes and all parts of the expression share.                           *)
(*                                                                         *)
(* normalizePredicate copies the pointer to a `contains` detail, not the   *)
(* detail: every expression of a run has the same cell, and rewriting what *)
(* `contains` holds writes into it.                                        *)
(*                                                                         *)
(* Left out: Annotated and the NonIntegerOnly domain, which Compile never  *)
(* produces, and the wording of a contradiction, of which `never` only     *)
(* says whether there is one.                                              *)
(*                                                                         *)
(* As in Denotation, an operator that recurses is a parameter, and what it *)
(* is to be is named ...By; what a schema compiles to, and what it means,  *)
(* is SchemaIR's.                                                          *)
(***************************************************************************)
EXTENDS RewriteRules

CONSTANTS
  MaxBudget,       (* the largest budget a run starts with                 *)
  Values,          (* the values a meaning is compared on                  *)
  Rewrite(_, _),   (* normalize                                            *)
  Compiled(_),     (* what a schema compiles to                            *)
  Meant(_, _, _)   (* a schema, the one under its `contains` and a value   *)

ASSUME BudgetAssumption == MaxBudget \in Nat

VARIABLES
  schema,    (* the schema given                                           *)
  inner,     (* the schema under its `contains`                            *)
  expr,      (* prev: the expression so far                                *)
  detail,    (* the cell every `contains` of expr points to                *)
  budget,    (* distributions still paid for                               *)
  passes,    (* turns of the loop                                          *)
  phase      (* "rewriting" | "fixpoint" | "gave up"                       *)

vars == <<schema, inner, expr, detail, budget, passes, phase>>

maxFixpointIters == 64

-----------------------------------------------------------------------------
(* One pass.  Rewrite returns the new expression and what is left of the   *)
(* budget and the cell, which are threaded through in the order the        *)
(* operands are met.                                                       *)

Appending(r, sub) == [out |-> Append(r.out, sub.out), st |-> sub.st]

(* What has become of the first n, for each n.                             *)
RewriteUpto(es, st) ==
  LET upto[n \in 0 .. Len(es)] ==
        LET before == upto[n - 1]
        IN  IF n = 0 THEN [out |-> <<>>, st |-> st] ELSE Appending(before, Rewrite(es[n], before.st))
  IN  upto

RewriteEach(es, st) == RewriteUpto(es, st)[Len(es)]

(* The branches are rewritten, and their union once more.                  *)
Rejoin(union, branches) == Rewrite(Rejoined(union, branches.out), branches.st)

(* The operand to distribute over, and what is left after paying for it.   *)
UnionAt(es) == CHOOSE i \in LoneUnion(es) : TRUE
Paid(st) == [st EXCEPT !.budget = @ - 1]
Distributes(es, st) == LoneUnion(es) # {} /\ Len(es) > 1 /\ st.budget > 0

(* Mutant of Distribute: copying is free.                                  *)
DistributeUnpaid(es, i, st) == Rejoin(es[i], RewriteEach(Branches(es, i), st))

Distribute(es, i, st) == Rejoin(es[i], RewriteEach(Branches(es, i), Paid(st)))

RewriteOperands(es, st) == [RewriteEach(es, st) EXCEPT !.out = SimplifyAll(FlattenAll(@))]

RewriteFlat(es, st) ==
  IF Distributes(es, st) THEN Distribute(es, UnionAt(es), st) ELSE RewriteOperands(es, st)

RewriteAll(es, st) == RewriteFlat(FlattenAll(es), st)

RewriteAnyOf(es, discriminator, st) ==
  [RewriteEach(es, st) EXCEPT !.out = SimplifyAnyOf(FlattenAnyOf(@), discriminator)]

(* A oneOf that became something else is rewritten in its turn.            *)
RewriteMore(e, st) == IF e.more THEN Rewrite(e.out, st) ELSE [out |-> e.out, st |-> st]

OneOfLive(alternatives, discriminator) ==
  ExactlyOneOf(Without(alternatives, Are(alternatives, "never")), discriminator)

SettleExactlyOne(each, discriminator) == RewriteMore(OneOfLive(each.out, discriminator), each.st)

RewriteExactlyOne(es, discriminator, st) == SettleExactlyOne(RewriteEach(es, st), discriminator)

RewriteNot(e, st) == [Rewrite(e[2], st) EXCEPT !.out = SimplifyNot(@)]

(* The members are put back where they were met.                           *)
Reshape(e, members) ==
  LET n == Len(e[2])
      m == n + Len(e[3])
  IN  IF e[1] = "items" THEN <<"items", SubSeq(members, 1, n), SubSeq(members, n + 1, m)>>
      ELSE <<"shape", [i \in DOMAIN e[2] |-> <<e[2][i][1], members[i]>>],
             [i \in DOMAIN e[3] |-> <<e[3][i][1], members[n + i]>>], SubSeq(members, m + 1, Len(members))>>

RewriteMembers(e, st) == [RewriteEach(Members(e), st) EXCEPT !.out = Reshape(e, @)]

(* normalizePredicate: nd := d copies the pointer, so the new schema goes  *)
(* into the one cell.                                                      *)
StoreDetail(e, held) == [out |-> e, st |-> [held.st EXCEPT !.detail = held.out]]

RewriteContains(e, st) == StoreDetail(e, Rewrite(st.detail, st))

RewriteBy(e, st) ==
  LET unchanged == [out |-> e, st |-> st]
  IN  CASE e[1] = "all"        -> RewriteAll(e[2], st)
        [] e[1] = "anyOf"      -> RewriteAnyOf(e[2], e[3], st)
        [] e[1] = "exactlyOne" -> RewriteExactlyOne(e[2], e[3], st)
        [] e[1] = "not"        -> RewriteNot(e, st)
        [] e[1] \in {"shape", "items"} -> RewriteMembers(e, st)
        [] e[1] = "contains"   -> RewriteContains(e, st)
        [] OTHER               -> unchanged

-----------------------------------------------------------------------------

Init ==
  /\ expr = Compiled(schema)
  /\ detail = Compiled(inner)
  /\ budget \in 0 .. MaxBudget
  /\ passes = 0
  /\ phase = "rewriting"

Advance(r) ==
  /\ expr' = r.out
  /\ detail' = r.st.detail
  /\ budget' = r.st.budget
  /\ phase' = CASE r.out = expr -> "fixpoint"
                [] r.out # expr /\ passes + 1 = maxFixpointIters -> "gave up"
                [] OTHER -> "rewriting"

Pass ==
  /\ phase = "rewriting"
  /\ Advance(Rewrite(expr, [budget |-> budget, detail |-> detail]))
  /\ passes' = passes + 1
  /\ UNCHANGED <<schema, inner>>

Next == Pass

Spec == Init /\ [][Next]_vars /\ WF_vars(Next)

-----------------------------------------------------------------------------

(* The package's contract (normalize.go:4-8): compiling a schema and every *)
(* rewrite of every pass keep the set of accepted values, wherever in the  *)
(* expression the budget happens to run out, and although the passes write *)
(* into the cell that all copies of a `contains` share.                    *)
KeepsMeaning == \A v \in Values : Accepts(expr, detail, v) <=> Meant(schema, inner, v)

(* Kinds is what disjointness, and with it every oneOf that becomes a      *)
(* union, is proved from: at each pass it covers the kinds of the values   *)
(* accepted, and it never grows beyond that of the expression Compile      *)
(* made, although operands are dropped and complements appear.             *)
KindsBracket ==
  /\ Kinds(expr) \subseteq Kinds(Compiled(schema))
  /\ {KindOf(v) : v \in {w \in Values : Meant(schema, inner, w)}} \subseteq Kinds(expr)
=============================================================================

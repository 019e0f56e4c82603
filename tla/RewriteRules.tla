---------------------------- MODULE RewriteRules ----------------------------
(***************************************************************************)
(* internal/norm: the rules a pass of Normalize applies, as functions of   *)
(* operands that are rewritten already.  As in Denotation, an operator     *)
(* that recurses is a parameter, and what it is to be is named ...By.      *)
(***************************************************************************)
EXTENDS Denotation, SequencesExt

CONSTANTS
  AsKinds(_),
  Subsumes(_, _),
  Disjoint(_, _),
  FlattenAll(_),
  FlattenAnyOf(_)

Anything == <<"any">>
Never(why) == <<"never", why>>

-----------------------------------------------------------------------------
(* Lists of operands.                                                      *)

Without(es, drop) ==
  LET kept == DOMAIN es \ drop
      At(n) == CHOOSE i \in kept : Cardinality({j \in kept : j <= i}) = n
  IN  [n \in 1 .. Cardinality(kept) |-> es[At(n)]]

Are(es, op) == {i \in DOMAIN es : es[i][1] = op}

Repeated(es) == {i \in DOMAIN es : \E j \in 1 .. i - 1 : es[j] = es[i]}

FlattenAllBy(es) ==
  LET Spliced(e) == IF e[1] = "all" THEN FlattenAll(e[2]) ELSE <<e>>
  IN  FlattenSeq([i \in DOMAIN es |-> Spliced(es[i])])

(* A union with a discriminator of its own stays whole.                    *)
FlattenAnyOfBy(es) ==
  LET Spliced(e) == IF e[1] = "anyOf" /\ e[3] = <<>> THEN FlattenAnyOf(e[2]) ELSE <<e>>
  IN  FlattenSeq([i \in DOMAIN es |-> Spliced(es[i])])

-----------------------------------------------------------------------------
(* What the rules can prove of two expressions.                            *)

(* The set of at most one Kinds that e amounts to.                         *)
AsKindsBy(e) ==
  LET alone == Len(e[2]) = 1
  IN  CASE e[1] = "kinds" -> {e}
        [] e[1] = "any"   -> {<<"kinds", AllKinds, "AnyNumber">>}
        [] e[1] = "never" -> {<<"kinds", {}, "AnyNumber">>}
        [] e[1] = "all"   -> IF alone THEN AsKinds(e[2][1]) ELSE {}
        [] OTHER          -> {}

(* Mutant of KindsSubsume: the numeric domain is forgotten.                *)
KindsSubsumeAnyDomain(a, b) == a[2] \subseteq b[2]

KindsSubsume(a, b) ==
  /\ a[2] \subseteq b[2]
  /\ "number" \in a[2] => b[3] \in {a[3], "AnyNumber"}

(* a accepts no value that b does not.                                     *)
SubsumesBy(a, b) ==
  LET bare == AsKinds(a) # {} /\ AsKinds(b) # {}
  IN  \/ a = b
      \/ a[1] = "never"
      \/ b[1] = "any"
      \/ \E x \in AsKinds(a), y \in AsKinds(b) : KindsSubsume(x, y)
      \/ /\ ~ bare
         /\ \/ a[1] = "minimum" /\ b[1] = "minimum" /\ a[2] >= b[2]
            \/ a[1] = "all" /\ \E i \in DOMAIN a[2] : Subsumes(a[2][i], b)
            \/ b[1] = "all" /\ \A i \in DOMAIN b[2] : Subsumes(a, b[2][i])
            \/ b[1] = "anyOf" /\ \E i \in DOMAIN b[2] : Subsumes(a, b[2][i])

DisjointBy(a, b) ==
  LET apart == Kinds(a) \cap Kinds(b) = {}
  IN  \/ apart
      \/ a[1] = "literal" /\ b[1] = "literal" /\ a # b
      \/ a[1] = "anyOf" /\ \A i \in DOMAIN a[2] : Disjoint(a[2][i], b)
      \/ a[1] # "anyOf" /\ b[1] = "anyOf" /\ \A i \in DOMAIN b[2] : Disjoint(a, b[2][i])

PairwiseDisjoint(es) == \A i, j \in DOMAIN es : i < j => Disjoint(es[i], es[j])

(* removeSubsumedAll and removeSubsumedAnyOf: pairs are met in order, a    *)
(* conjunction loses the weaker of two, a union the stronger.              *)
DropOne(es, union, i, j, drop) ==
  IF i >= j \/ i \in drop \/ j \in drop THEN drop
  ELSE IF Subsumes(es[i], es[j]) THEN drop \cup {IF union THEN i ELSE j}
  ELSE IF Subsumes(es[j], es[i]) THEN drop \cup {IF union THEN j ELSE i}
  ELSE drop

DropRow(es, union, i, drop) ==
  LET after[j \in 0 .. Len(es)] ==
        IF j = 0 THEN drop ELSE DropOne(es, union, i, j, after[j - 1])
  IN  after[Len(es)]

Subsumed(es, union) ==
  LET after[i \in 0 .. Len(es)] ==
        IF i = 0 THEN {} ELSE DropRow(es, union, i, after[i - 1])
  IN  after[Len(es)]

-----------------------------------------------------------------------------
(* Simplifying the operands of a conjunction, once they are normalized.    *)

(* contradictionOf gives a reason: an operand brings one, or two operands  *)
(* restrict the kinds.                                                     *)
Explained(es) ==
  \/ \E i \in DOMAIN es : es[i] = Never(TRUE)
  \/ Cardinality({i \in DOMAIN es : Kinds(es[i]) \notin {{}, AllKinds}}) >= 2

(* What the Kinds of a conjunction come to.                                *)
KindsTogether(es) ==
  LET at == Are(es, "kinds")
  IN  <<"kinds", Common({es[i][2] : i \in at}),
        IF \E i \in at : es[i][3] = "IntegerOnly" THEN "IntegerOnly" ELSE "AnyNumber">>

(* The predicates that guard against every kind of a set.                  *)
GuardVacuous(es, set) == {i \in DOMAIN es : IsPredicate(es[i]) /\ Guard(es[i]) \cap set = {}}

(* Mutant of FoldKinds: the other operands come out in reverse.            *)
FoldKindsReversing(es) ==
  LET at == Are(es, "kinds")
      all == KindsTogether(es)
  IN  IF at = {} THEN es ELSE <<all>> \o Reverse(Without(es, at \cup GuardVacuous(es, all[2])))

(* foldKindsAll and dropGuardVacuousPredicates.                            *)
FoldKinds(es) ==
  LET at == Are(es, "kinds")
      all == KindsTogether(es)
  IN  IF at = {} THEN es ELSE <<all>> \o Without(es, at \cup GuardVacuous(es, all[2]))

Conjoin(es) ==
  CASE es = <<>> -> Anything
    [] Len(es) = 1 -> es[1]
    [] OTHER -> <<"all", es>>

(* dedupe and removeSubsumed, of operands none of which is trivial.        *)
Thinned(es, union) == Without(es, Subsumed(es, union))
Deduped(es) == Without(es, Repeated(es))

SimplifyFolded(es, folded) ==
  LET nevers == Are(folded, "never")
  IN  IF Kinds(<<"all", es>>) = {} THEN Never(Explained(es))
      ELSE IF nevers # {} THEN folded[CHOOSE i \in nevers : \A j \in nevers : i <= j]
      ELSE Conjoin(Thinned(Deduped(Without(folded, Are(folded, "any"))), FALSE))

SimplifyAll(es) == SimplifyFolded(es, FoldKinds(es))

-----------------------------------------------------------------------------
(* Simplifying unions and complements.                                     *)

UnionOf(kept, discriminator) ==
  CASE kept = <<>> -> Never(TRUE)
    [] Len(kept) = 1 -> kept[1]
    [] OTHER -> <<"anyOf", kept, discriminator>>

SimplifyAnyOf(es, discriminator) ==
  UnionOf(Thinned(Deduped(Without(es, Are(es, "never"))), TRUE), discriminator)

(* Mutant of SimplifyNot: a double negation stays.                         *)
SimplifyNotOnce(e) ==
  CASE e[1] = "any"   -> Never(FALSE)
    [] e[1] = "never" -> Anything
    [] OTHER          -> <<"not", e>>

SimplifyNot(e) ==
  CASE e[1] = "any"   -> Never(FALSE)
    [] e[1] = "never" -> Anything
    [] e[1] = "not"   -> e[2]
    [] OTHER          -> <<"not", e>>

(* What a oneOf of flat, rewritten alternatives is; More says whether that *)
(* is rewritten in its turn.                                               *)
ExactlyOneOf(flat, discriminator) ==
  LET Done(e) == [out |-> e, more |-> FALSE]
      More(e) == [out |-> e, more |-> TRUE]
      copies == {i \in DOMAIN flat : \E j \in DOMAIN flat \ {i} : flat[j] = flat[i]}
      dup == flat[CHOOSE i \in copies : \A j \in copies : i <= j]
      rest == Without(flat, {i \in DOMAIN flat : flat[i] = dup})
  IN  CASE copies # {} /\ rest = <<>> -> Done(Never(TRUE))
        [] copies # {} /\ rest # <<>> ->
             More(<<"all", <<<<"not", dup>>, <<"exactlyOne", rest, <<>>>>>>>>)
        [] flat = <<>> -> Done(Never(TRUE))
        [] Len(flat) = 1 -> Done(flat[1])
        [] copies = {} /\ Len(flat) = 2 /\ Subsumes(flat[1], flat[2]) ->
             More(<<"all", <<flat[2], <<"not", flat[1]>>>>>>)
        [] copies = {} /\ Len(flat) = 2 /\ ~ Subsumes(flat[1], flat[2])
             /\ Subsumes(flat[2], flat[1]) ->
             More(<<"all", <<flat[1], <<"not", flat[2]>>>>>>)
        [] OTHER -> IF PairwiseDisjoint(flat) THEN More(<<"anyOf", flat, discriminator>>)
                    ELSE Done(<<"exactlyOne", flat, discriminator>>)

-----------------------------------------------------------------------------
(* Distributing a conjunction over one of its operands.                    *)

(* The only combinator a conjunction may be distributed over: a lone       *)
(* ExactlyOne, or a lone AnyOf where there is no ExactlyOne.               *)
LoneUnion(es) ==
  LET one == Are(es, "exactlyOne")
      any == Are(es, "anyOf")
  IN  CASE Cardinality(one) = 1 -> one
        [] one = {} /\ Cardinality(any) = 1 -> any
        [] OTHER -> {}

(* distributeBranches: every branch takes the other operands.              *)
Branches(es, i) ==
  LET others == Without(es, {i})
  IN  [b \in DOMAIN es[i][2] |-> <<"all", Append(others, es[i][2][b])>>]

(* The union of what is left of the branches.                              *)
Rejoined(union, branches) ==
  LET live == Without(branches, Are(branches, "never"))
  IN  IF live = <<>> THEN Never(TRUE) ELSE <<union[1], live, union[3]>>
=============================================================================

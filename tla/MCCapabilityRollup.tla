------------------------- MODULE MCCapabilityRollup -------------------------
(***************************************************************************)
(* Three plans, one name that has no plan, a ladder of three rungs.  A     *)
(* plan holds at most two references, so that chains, diamonds, self       *)
(* references, cycles and dangling names all occur.  Only a and b may      *)
(* dangle.                                                                 *)
(***************************************************************************)
EXTENDS CapabilityRollup, FiniteSets

CONSTANTS a, b, c, x

MCNames == {a, b, c, x}

AtMostTwo == {S \in SUBSET MCNames : Cardinality(S) <= 2}

MCInit ==
  /\ ids = {a, b, c}
  /\ refs \in [ids -> AtMostTwo]
  /\ x \notin refs[c]
  /\ Init

MCSpec == MCInit /\ [][Next]_vars /\ Fairness
=============================================================================

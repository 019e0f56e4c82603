------------------------- MODULE MCDocumentAssembly -------------------------
(***************************************************************************)
(* Three nodes, two dangling names and a ladder of three rungs.  The name  *)
(* x is spelled like no pointer, the other one like the pointer of d.  In  *)
(* OneDocument the nodes lie in one document, so their pointers differ.  In*)
(* TwoDocuments the root r and the node e are the roots of two documents.  *)
(***************************************************************************)
EXTENDS DocumentAssembly, TLC

CONSTANTS r, d, e, x, pRoot, pComp, pDef, pExt

MCNodes == {r, d, e}
MCPointers == {pRoot, pComp, pDef, pExt}
MCRawRefs == {x, pDef}

AtMostTwo == {S \in SUBSET {r, d, e, x, pDef} : Cardinality(S) <= 2}

(* Init on the chosen inputs: a root, or at most two components.  The node *)
(* e, which is no entry, has at most one reference.                        *)
OneDocumentInit ==
  /\ mode \in {"schema", "document"}
  /\ entries \in {{r}, {r, d}}
  /\ pointer = (r :> IF mode = "schema" THEN pRoot ELSE pComp)
                 @@ (d :> pDef) @@ (e :> pExt)
  /\ level \in [MCNodes -> {0, 1}]
  /\ leaves \in [MCNodes -> AtMostTwo]
  /\ Cardinality(leaves[e]) <= 1
  /\ Init
OneDocument == OneDocumentInit /\ [][Next]_vars

(* The root's own references all resolve, and every plan is fully          *)
(* supported until the roll-up meets a dangling reference.                 *)
TwoDocumentsInit ==
  /\ mode = "schema"
  /\ entries = {r}
  /\ pointer = (r :> pRoot) @@ (d :> pDef) @@ (e :> pRoot)
  /\ level = [n \in MCNodes |-> 0]
  /\ leaves \in [MCNodes -> {S \in AtMostTwo : pDef \notin S}]
  /\ leaves[r] \subseteq MCNodes
  /\ Init
TwoDocuments == TwoDocumentsInit /\ [][Next]_vars
=============================================================================

---------------------------- MODULE MCRefLoader ----------------------------
(* Worlds of the given document and two that may be loaded.  "home" is the *)
(* given document's URI, "a" and "b" are fetched, "x" is only ever an $id. *)
EXTENDS RefLoader

CONSTANTS home, a, b, x

Res(u) == <<u, "resource", <<>>>>
Ptr(u) == <<u, "pointer", <<"d">>>>

Node(ptr, id, ref) == [ptr |-> ptr, id |-> id, anchor |-> None, ref |-> ref]

Small == {Malformed, Res(a), Ptr(a), Res(b), Ptr(x), <<x, "anchor", <<"n">>>>,
          <<None, "pointer", <<"e">>>>}

GivenDocs ==
  {<<Node(<<>>, None, p), Node(<<"d">>, None, q)>> :
     p \in Small, q \in {None, Res(b)}}

(* Document a: a child with an $id of its own, an anchor and a grandchild. *)
ADocs(ids) ==
  {<<Node(<<>>, None, p),
     [ptr |-> <<"d">>, id |-> i, anchor |-> "n", ref |-> None],
     Node(<<"d", "d">>, None, q)>> :
       p \in {None, Res(b), Ptr(b)}, i \in ids, q \in {None, Ptr(x), Ptr(None)}}

BDocs(ids) ==
  {<<>>} \cup {<<Node(<<>>, i, p), Node(<<"d">>, None, None)>> :
                 i \in ids, p \in {None, Ptr(a), Ptr(None), Res(x)}}

Make(given, da, db, dr, broken, boolean, seeded, loader) ==
  [docs |-> Given :> given @@ a :> da @@ b :> db @@ home :> dr @@ x :> <<>>,
   broken |-> [d \in Documents |-> IF d = a THEN broken ELSE 0],
   boolean |-> boolean, seeded |-> seeded, loader |-> loader]

(* Every order of loading matters, some documents break half way.          *)
MixedWorlds ==
  {Make(g, da, db, <<>>, k, {}, s, TRUE) :
     g \in GivenDocs, da \in ADocs({None, x}), db \in BDocs({None, x}),
     k \in {0, 2}, s \in BOOLEAN}
  \cup {Make(g, da, <<Node(<<>>, None, None)>>, <<>>, 0, {b}, TRUE, l) :
          g \in GivenDocs, da \in ADocs({b, x}), l \in BOOLEAN}
=============================================================================

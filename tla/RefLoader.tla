------------------------------ MODULE RefLoader ------------------------------
(***************************************************************************)
(* internal/frontend: conversion of schema documents into the registry     *)
(* (convert.go), the worklist that resolves `$ref`s and fetches the        *)
(* documents they need (resolve.go, loader.go), over documents that are    *)
(* unreachable, malformed, boolean, or break in the middle of conversion.  *)
(*                                                                         *)
(* A node is <<d, k>>: the k-th node of document d, in the order conversion *)
(* meets them.  A URI is a value, resolved already (RFC 3986 resolution is *)
(* not modelled); the registry's maps resources, pointers and anchors are  *)
(* one map, index, over addresses <<base, kind, path>>.                    *)
(***************************************************************************)
EXTENDS SequencesExt

CONSTANTS
  Bases,      (* absolute URIs of documents and resources                  *)
  Root,       (* the retrieval URI of the document given to the compiler   *)
  Given,      (* that document                                             *)
  None,       (* an absent keyword                                         *)
  Malformed,  (* a `$ref` that is not a URI reference                      *)
  Worlds      (* the documents there may be: see WorldsAssumption          *)

Documents == Bases \cup {Given}

(* Where a reference may point: lookup takes an empty fragment for the     *)
(* resource, `/...` for a JSON Pointer and any other for an anchor.        *)
Locations ==
  ((Bases \cup {None}) \X {"resource"} \X {<<>>})
  \cup ((Bases \cup {None}) \X {"pointer", "anchor"} \X (Seq(STRING) \ {<<>>}))

SchemaNodes ==
  [ptr : Seq(STRING), id : Bases \cup {None}, anchor : STRING \cup {None},
   ref : Locations \cup {None, Malformed}]

BooleanNode == [ptr |-> <<>>, id |-> None, anchor |-> None, ref |-> None]

(* docs[b] is what the loader returns for b, <<>> when it fails; Given is  *)
(* what the caller holds.  broken[d] is the node whose keywords fail to    *)
(* convert, 0 when none does.  A ref to base None is relative.  Conversion *)
(* meets a node before the nodes under it.                                 *)
WorldsAssumption ==
  /\ Root \in Bases /\ Given \notin Bases
  /\ None \notin Bases \cup STRING \cup Locations /\ Malformed \notin Locations
  /\ \A w \in Worlds :
       /\ DOMAIN w.docs = Documents /\ w.docs[Given] # <<>>
       /\ \A d \in Documents : w.docs[d] \in Seq(SchemaNodes)
       /\ \A d \in Documents : \A j, k \in 1 .. Len(w.docs[d]) :
            IsPrefix(w.docs[d][j].ptr, w.docs[d][k].ptr) => j <= k
       /\ \A d \in Documents : w.broken[d] \in 0 .. Len(w.docs[d])
       /\ w.broken[Given] = 0
       /\ w.boolean \subseteq Bases       (* documents `true` and `false`  *)
       /\ \A d \in w.boolean : w.docs[d] \in {<<>>, <<BooleanNode>>}
       /\ {w.seeded, w.loader} \subseteq BOOLEAN
ASSUME WorldsAssumption

VARIABLES
  world,       (* the documents of this run                                *)
  index,       (* Registry.resources, pointers, anchors                    *)
  recorded,    (* DOMAIN refBaseURI: the nodes met that carry a `$ref`     *)
  resolved,    (* Node.Resolved                                            *)
  missing,     (* what the round has left to load                          *)
  loaded,      (* bases attempted                                          *)
  loadErrs,    (* bases whose attempt left an error                        *)
  loadedAny,   (* the round loaded a document                              *)
  cancelled,   (* the caller's context is cancelled                        *)
  phase,       (* "resolve" | "load" | "finalize" | "done"                 *)
  unresolved,  (* the refs reported, with the parts of their Reason        *)
  fetched      (* history: the bases asked of the loader, in order         *)

vars == <<world, index, recorded, resolved, missing, loaded, loadErrs,
          loadedAny, cancelled, phase, unresolved, fetched>>

-----------------------------------------------------------------------------
(* Addresses.                                                              *)

Nodes(d) == {d} \X (1 .. Len(world.docs[d]))
At(n) == world.docs[n[1]][n[2]]
Retrieval(d) == IF d = Given THEN Root ELSE d
ResourceOf(b) == <<b, "resource", <<>>>>

(* The nodes from the document's root down to n that declare an `$id`.     *)
Enclosing(n) ==
  {m \in Nodes(n[1]) :
     m[2] <= n[2] /\ At(m).id # None /\ IsPrefix(At(m).ptr, At(n).ptr)}

(* The base URI in effect at n, its own `$id` included (nodeBaseURI).      *)
BaseURI(n) ==
  IF Enclosing(n) = {} THEN Retrieval(n[1])
  ELSE At(<<n[1], Max({m[2] : m \in Enclosing(n)})>>).id

(* Mutant of Registered: the pointer is not cut at the enclosing resource. *)
RegisteredUncut(n) ==
  {<<b, "pointer", At(n).ptr>> :
     b \in {Retrieval(n[1])} \cup {At(m).id : m \in Enclosing(n) \ {n}}}
  \cup {<<BaseURI(n), "anchor", <<a>>>> : a \in {At(n).anchor} \ {None}}

(* What register files n under: its pointer within every enclosing frame,  *)
(* and its anchor within the nearest one.                                  *)
Registered(n) ==
  {<<Retrieval(n[1]), "pointer", At(n).ptr>>}
  \cup {<<At(m).id, "pointer",
          SubSeq(At(n).ptr, Len(At(m).ptr) + 1, Len(At(n).ptr))>> :
            m \in Enclosing(n) \ {n}}
  \cup {<<BaseURI(n), "anchor", <<a>>>> : a \in {At(n).anchor} \ {None}}

(* What converting n writes; conversion stops inside a broken node, after  *)
(* its `$id` and `$ref` are recorded and before it is registered.          *)
Writes(n) ==
  {ResourceOf(b) : b \in {At(n).id} \ {None}}
  \cup (IF n[2] = world.broken[n[1]] THEN {} ELSE Registered(n))

Met(d) == {n \in Nodes(d) : world.broken[d] = 0 \/ n[2] <= world.broken[d]}

(* Converting document d: a later node takes an address over.  The root is *)
(* filed under the retrieval URI when nothing is; a boolean document takes *)
(* that address over (loadInto, convertRoot).                              *)
Convert(d, idx) ==
  LET root == ResourceOf(Retrieval(d))
      boolean == d \in world.boolean
      seeds == ~ boolean /\ world.broken[d] = 0 /\ (d # Given \/ world.seeded)
      written == IF boolean THEN {root} ELSE UNION {Writes(n) : n \in Met(d)}
      writers(a) == {n[2] : n \in {m \in Met(d) : a \in Writes(m)}}
  IN  [a \in written \cup DOMAIN idx \cup {r \in {root} : seeds} |->
         IF a \in written THEN <<d, IF boolean THEN 1 ELSE Max(writers(a))>>
         ELSE IF a \in DOMAIN idx THEN idx[a]
         ELSE <<d, 1>>]

(* refLocation.                                                            *)
Target(n) ==
  LET r == At(n).ref
  IN  IF r[1] = None THEN <<BaseURI(n), r[2], r[3]>> ELSE r

Refs(d) == {n \in Met(d) : At(n).ref # None}

-----------------------------------------------------------------------------

(* Components are not filed under the document's URI (seeded is FALSE:     *)
(* FromLibOpenAPIDocument); a standalone schema is (convertRoot).          *)
Init ==
  /\ world \in Worlds
  /\ index = Convert(Given, <<>>)
  /\ recorded = Refs(Given)
  /\ resolved = <<>>
  /\ missing = {}
  /\ loaded = {}
  /\ loadErrs = {}
  /\ loadedAny = FALSE
  /\ cancelled = FALSE
  /\ phase = "resolve"
  /\ unresolved = <<>>
  /\ fetched = <<>>

Pending == {n \in recorded \ DOMAIN resolved : At(n).ref # Malformed}

(* Mutant of Wanted: what was attempted is wanted again.                   *)
WantedAgain ==
  {Target(n)[1] : n \in {m \in Pending :
     /\ Target(m) \notin DOMAIN index
     /\ ResourceOf(Target(m)[1]) \notin DOMAIN index}}

(* The documents worth loading: those of the refs that do not resolve and  *)
(* whose resource is absent and was not attempted.                         *)
Wanted ==
  {Target(n)[1] : n \in {m \in Pending :
     /\ Target(m) \notin DOMAIN index
     /\ ResourceOf(Target(m)[1]) \notin DOMAIN index}} \ loaded

ResolvePass ==
  /\ phase = "resolve"
  /\ LET found == {n \in Pending : Target(n) \in DOMAIN index}
     IN  resolved' = [n \in found \cup DOMAIN resolved |->
                        IF n \in found THEN index[Target(n)] ELSE resolved[n]]
  /\ missing' = Wanted
  /\ phase' = IF Wanted = {} THEN "finalize" ELSE "load"
  /\ loadedAny' = FALSE
  /\ UNCHANGED <<world, index, recorded, loaded, loadErrs, cancelled, unresolved, fetched>>

(* tryLoad: the attempt is on record whatever comes of it.  The bases of a *)
(* round are distinct and were not attempted, so its first early return is *)
(* never taken.                                                            *)
TryLoad(b) ==
  /\ phase = "load"
  /\ b \in missing
  /\ missing' = missing \ {b}
  /\ loaded' = loaded \cup {b}
  /\ \/ /\ ~ world.loader
        /\ UNCHANGED <<index, recorded, loadErrs, loadedAny, fetched>>
     \/ /\ world.loader /\ cancelled
        /\ loadErrs' = loadErrs \cup {b}
        /\ UNCHANGED <<index, recorded, loadedAny, fetched>>
     \/ /\ world.loader /\ ~ cancelled
        /\ fetched' = Append(fetched, b)
        /\ IF world.docs[b] = <<>>
           THEN /\ loadErrs' = loadErrs \cup {b}
                /\ UNCHANGED <<index, recorded, loadedAny>>
           ELSE /\ index' = Convert(b, index)
                /\ recorded' = recorded \cup Refs(b)
                /\ IF world.broken[b] = 0
                   THEN loadedAny' = TRUE /\ UNCHANGED loadErrs
                   ELSE loadErrs' = loadErrs \cup {b} /\ UNCHANGED loadedAny
  /\ UNCHANGED <<world, resolved, cancelled, phase, unresolved>>

(* Mutant of EndRound: no pass follows the last load.                      *)
EndRoundForGood ==
  /\ phase = "load"
  /\ missing = {}
  /\ phase' = "finalize"
  /\ UNCHANGED <<world, index, recorded, resolved, missing, loaded, loadErrs,
                 loadedAny, cancelled, unresolved, fetched>>

(* Mutant of EndRound: a round that loads nothing does not end the loop.   *)
EndRoundOnProgress ==
  /\ phase = "load"
  /\ missing = {}
  /\ loadedAny
  /\ phase' = "resolve"
  /\ UNCHANGED <<world, index, recorded, resolved, missing, loaded, loadErrs,
                 loadedAny, cancelled, unresolved, fetched>>

EndRound ==
  /\ phase = "load"
  /\ missing = {}
  /\ phase' = IF loadedAny THEN "resolve" ELSE "finalize"
  /\ UNCHANGED <<world, index, recorded, resolved, missing, loaded, loadErrs,
                 loadedAny, cancelled, unresolved, fetched>>

(* Why finalizeUnresolved looks the ref up again.                          *)
Reason(n) ==
  IF At(n).ref = Malformed THEN {"malformed"}
  ELSE IF Target(n) \in DOMAIN index THEN {}
  ELSE {"not found"} \cup {"load error" : b \in {Target(n)[1]} \cap loadErrs}

FinalizeUnresolved ==
  /\ phase = "finalize"
  /\ unresolved' = [n \in recorded \ DOMAIN resolved |-> Reason(n)]
  /\ phase' = "done"
  /\ UNCHANGED <<world, index, recorded, resolved, missing, loaded, loadErrs,
                 loadedAny, cancelled, fetched>>

Cancel ==
  /\ ~ cancelled
  /\ phase # "done"
  /\ cancelled' = TRUE
  /\ UNCHANGED <<world, index, recorded, resolved, missing, loaded, loadErrs,
                 loadedAny, phase, unresolved, fetched>>

Step == ResolvePass \/ (\E b \in Bases : TryLoad(b)) \/ EndRound \/ FinalizeUnresolved
Next == Step \/ Cancel

Spec == Init /\ [][Next]_vars
FairSpec == Spec /\ WF_vars(Step)

-----------------------------------------------------------------------------

AllNodes == UNION {Nodes(d) : d \in Documents}

(* Each base is fetched at most once (doc comment of tryLoad), however     *)
(* documents refer to one another.                                         *)
FetchedAtMostOnce == IsInjective(fetched)

(* What an address means: the resource a URI identifies, the node found by  *)
(* navigating a resource along a pointer, the node carrying an anchor.     *)
Denotes(a, n) ==
  \/ a = ResourceOf(At(n).id)
  \/ a = ResourceOf(Retrieval(n[1])) /\ n[2] = 1 /\ (n[1] # Given \/ world.seeded)
  \/ a = <<Retrieval(n[1]), "pointer", At(n).ptr>>
  \/ /\ a[2] = "pointer"
     /\ \E m \in Nodes(n[1]) : At(m).id = a[1] /\ At(n).ptr = At(m).ptr \o a[3]
  \/ a = <<BaseURI(n), "anchor", <<At(n).anchor>>>>

Holders(a, D) == {n \in UNION {Nodes(d) : d \in D} : Denotes(a, n)}

(* The documents a run should end up with: the least set that holds the    *)
(* given document and every loadable document a dangling ref of the set    *)
(* names.                                                                  *)
Closed(D) ==
  /\ Given \in D
  /\ \A n \in UNION {Refs(d) : d \in D} :
       /\ At(n).ref # Malformed
       /\ Holders(Target(n), D) = {}
       /\ Holders(ResourceOf(Target(n)[1]), D) = {}
       /\ world.loader
       /\ world.docs[Target(n)[1]] # <<>>
       => Target(n)[1] \in D

Needed ==
  LET closed == {D \in SUBSET Documents : Closed(D)}
  IN  {d \in Documents : \A D \in closed : d \in D}

(* Nothing fails half way, and no `$id` is the URI of a document that can  *)
(* be loaded.                                                              *)
Undisturbed ==
  /\ \A d \in Documents : world.broken[d] = 0
  /\ \A n \in AllNodes : At(n).id \in Bases => world.docs[At(n).id] = <<>>

(* Whatever overwrites what in the registry, a resolved ref leads to a node *)
(* its target denotes.  Whatever order the documents of a round load in,   *)
(* the refs that end up resolved are those whose target some needed        *)
(* document holds, however many nodes of one `$id` or anchor there are.    *)
ResolvesWhatLoads ==
  /\ \A n \in DOMAIN resolved : resolved[n] \in Holders(Target(n), {Given} \cup Range(fetched))
  /\ phase = "done" /\ ~ cancelled /\ Undisturbed =>
       LET needed == Needed IN
       /\ recorded = UNION {Refs(d) : d \in needed}
       /\ DOMAIN resolved =
            {n \in recorded : At(n).ref # Malformed /\ Holders(Target(n), needed) # {}}

(* Unless a document broke half way, no reported ref could have been       *)
(* resolved: the last load was followed by another pass.                   *)
DanglingHasReason ==
  (\A d \in Documents : world.broken[d] = 0) =>
    \A n \in DOMAIN unresolved : unresolved[n] # {}

(* The worklist ends however the documents refer to one another.           *)
Termination == <>(phase = "done")
=============================================================================

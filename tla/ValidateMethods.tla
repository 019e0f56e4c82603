--------------------------- MODULE ValidateMethods ---------------------------
(***************************************************************************)
(* gogen/validate.go, validators: which declared types get a Validate      *)
(* method, and which calls to one stay.  A type needs a method when it     *)
(* has a check of its own, or when it calls a type that needs one: "a      *)
(* least fixpoint, and must be".                                           *)
(*                                                                         *)
(* The check trees are reduced to what the loops read of them: whether     *)
(* they test anything themselves and which types they call.                *)
(***************************************************************************)
VARIABLES
  declared,    (* the types handed in                                      *)
  own,         (* those with a check of their own (hasOwnCheck)            *)
  methodable,  (* those Go lets have a method                              *)
  deps,        (* deps[n]: the types n's tree calls, collected once        *)
  calls,       (* calls[n]: those it calls now                             *)
  needs,       (* those that are to have a method                          *)
  blocked,     (* those that check something, and can have none            *)
  todo,        (* the types the running pass has not come to               *)
  changed,     (* the loop variable of the fixpoint                        *)
  phase        (* "checked" | "generated": before and after pruning        *)

given == <<declared, own, methodable, deps>>
vars == <<given, calls, needs, blocked, todo, changed, phase>>

-----------------------------------------------------------------------------

(* After the first loop.                                                   *)
Init ==
  /\ own \in SUBSET declared
  /\ methodable \in SUBSET declared
  /\ deps \in [declared -> SUBSET declared]
  /\ calls = deps
  /\ needs = own \cap methodable
  /\ blocked = own \ methodable
  /\ todo = {}
  /\ changed = TRUE
  /\ phase = "checked"

(* The head of `for changed := true; changed;`.                            *)
BeginPass ==
  /\ phase = "checked" /\ todo = {} /\ changed
  /\ changed' = FALSE
  /\ todo' = declared
  /\ UNCHANGED <<given, calls, needs, blocked, phase>>

Calling(id) == id \notin needs \cup blocked /\ deps[id] \cap needs # {}

(* One turn of a pass: the types before it in the pass are seen with what  *)
(* the pass found of them.                                                 *)
Visit(id) ==
  /\ phase = "checked" /\ id \in todo
  /\ needs' = needs \cup {n \in {id} : Calling(n)}
  /\ changed' = (changed \/ Calling(id))
  /\ todo' = todo \ {id}
  /\ UNCHANGED <<given, calls, blocked, phase>>

(* The last loop drops the calls to types without a method.                *)
PruneCalls ==
  /\ phase = "checked" /\ todo = {} /\ ~ changed
  /\ calls' = [id \in declared |-> calls[id] \cap needs]
  /\ phase' = "generated"
  /\ UNCHANGED <<given, needs, blocked, todo, changed>>

Next == BeginPass \/ (\E id \in declared : Visit(id)) \/ PruneCalls

Spec == Init /\ [][Next]_vars

-----------------------------------------------------------------------------

Reachable(id, edges) ==
  {m \in declared : \A S \in SUBSET declared :
     id \in S /\ (\A n \in S : edges[n] \subseteq S) => m \in S}

(* The checks that some method can make, the calls that lead to methods,   *)
(* and the calls that methods are left with.                               *)
Checks == own \ blocked
Made == [id \in declared |-> IF id \in blocked THEN {} ELSE deps[id] \ blocked]
Left == [id \in declared |-> IF id \in needs THEN calls[id] ELSE {}]

(* "it reaches a type that does and the call to it stays" (validate.go):   *)
(* the calls that are left lead from every type to the checks that all of  *)
(* them led to, but for those that no method can make, and to no other     *)
(* method; and each method reaches a check.                                *)
CallsReachChecks ==
  phase = "generated" =>
    /\ Checks \subseteq needs
    /\ \A id \in declared : calls[id] \subseteq needs
    /\ \A id \in declared \ blocked :
         Reachable(id, Left) \cap Checks = Reachable(id, Made) \cap Checks
    /\ \A id \in needs : Reachable(id, Left) \cap Checks # {}
=============================================================================

----------------------------- MODULE PlanOracle -----------------------------
(***************************************************************************)
(* What a validator of plans promises, whatever it is built from: each     *)
(* instance it is asked about gets the interpreter's verdict.  Where the   *)
(* interpreter could not check a constraint and still rejected, it may     *)
(* have met another one only by chance of the order, so either answer      *)
(* will do; an acceptance it had to approximate stays an acceptance        *)
(* (docs/integration.md:308-312).  Of an instance with a name that cannot  *)
(* be quoted nothing is promised: a validator that reads bytes asks        *)
(* propertyNames about other bytes than the name's.                        *)
(***************************************************************************)
EXTENDS PlanInterpreter

CONSTANTS Instances, Names, Quotable

VARIABLES plan, definitions, instance, answer

Unasked == <<"unasked">>

Answers(v) ==
  LET r == Interpret(plan, v, {}, [defs |-> definitions, order |-> Names])
  IN  CASE v \in Quotable /\ r.verdict = "accepted" -> {"accepted"}
        [] v \in Quotable /\ r.verdict = "rejected" /\ ~ r.approximated -> {"rejected"}
        [] OTHER -> {"accepted", "rejected"}

Init == instance = Unasked /\ answer = Unasked

Answer ==
  /\ instance' \in Instances
  /\ answer' \in Answers(instance')
  /\ UNCHANGED <<plan, definitions>>

Spec == Init /\ [][Answer]_<<plan, definitions, instance, answer>>
=============================================================================

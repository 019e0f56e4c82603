--------------------------- MODULE MCInhabitation ---------------------------
(***************************************************************************)
(* Three nodes, two property names, p and q.  The shapes cover boolean     *)
(* schemas, references, combinators and objects whose required property    *)
(* leads anywhere: enough for cycles of length one to three, through       *)
(* references and through properties, and for chains that need three       *)
(* passes to be proven inhabited.                                          *)
(***************************************************************************)
EXTENDS Inhabitation

CONSTANTS p, q

MCNames == {p, q}

Nothing == [always |-> "unset", ref |-> 0, combinator |-> 0, objectOnly |-> FALSE,
            required |-> {}, property |-> [x \in Names |-> 0],
            pattern |-> [x \in Names |-> 0], additional |-> 0]

Booleans == {[Nothing EXCEPT !.always = b] : b \in {"true", "false"}}
References == {[Nothing EXCEPT !.ref = t, !.combinator = c] :
                 t \in SubSchema, c \in {0, 1}}

Objects(required, property, pattern, additional) ==
  {[Nothing EXCEPT !.objectOnly = TRUE, !.required = r, !.property = f,
                   !.pattern = m, !.additional = a] :
     r \in required, f \in property, m \in pattern, a \in additional}

PropertyMaps == {[x \in Names |-> IF x = p THEN t ELSE 1] : t \in SubSchema}
PlainShapes ==
  Booleans \cup References \cup
  Objects({{p}, {p, q}}, PropertyMaps, {[x \in Names |-> IF x = p THEN t ELSE 0] :
                                          t \in {0, 1}}, {0, 3})

PlainInit == schema \in [Nodes -> PlainShapes] /\ RequiredNamesDeclared /\ Init
PlainSpec == PlainInit /\ [][Next]_vars /\ WF_vars(Next)

=============================================================================

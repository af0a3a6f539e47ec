--------------------------- MODULE MCQueryService ---------------------------
(* Two facilities of one name, a unit and an equipment model; questions    *)
(* that spell out one or two UUIDs, use the name, or name nothing.         *)
EXTENDS QueryService

CONSTANTS f1, f2, u1, m1, north

MCIds == {f1, f2, u1, m1}

MCKindOf == [id \in MCIds |-> IF id = u1 THEN "unit" ELSE IF id = m1 THEN "model" ELSE "facility"]

MCNamesOf == [id \in MCIds |-> IF id \in {f1, f2} THEN {north} ELSE {}]

Question(text, mentions) == [text |-> text, mentions |-> mentions]

MCQuestions == {Question({}, {}), Question({north}, {}), Question({u1, m1}, {u1, m1}),
                Question({f1, f2}, {f1, f2})}

\* Two questions at once: one spells out two records of different kinds.
MCFewIds == {f1, m1}

MCFewKinds == [id \in MCFewIds |-> MCKindOf[id]]

MCFewNames == [id \in MCFewIds |-> {}]

MCFewQuestions == {Question({}, {}), Question({f1, m1}, {f1, m1})}
=============================================================================

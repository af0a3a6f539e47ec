--------------------------- MODULE MCAnswerService --------------------------
(* Two plans, one of which needs a confirmation, and pages of at most two  *)
(* records, of which one is not the first and one does not fit.            *)
EXTENDS AnswerService

Page(total, offset, limit, fits) ==
  LET page == [total |-> total, offset |-> offset, limit |-> limit, rows |-> 0, fits |-> fits]
  IN  [page EXCEPT !.rows = Room(page)]

MCEvidence == {Page(0, 0, 2, TRUE), Page(1, 0, 2, TRUE), Page(2, 0, 2, FALSE),
               Page(2, 1, 2, TRUE), Page(1, 1, 1, TRUE)}

MCOperationOf == [p \in Plans |-> IF p \in Spanning THEN "incidents" ELSE "overdue_work"]
=============================================================================

----------------------------- MODULE MCEvidence -----------------------------
\* Small workspaces in five families, each asked what varies in it.
EXTENDS Evidence

Open(operation) ==
  [operation |-> operation, facility |-> None, type |-> None, unit |-> None, model |-> None,
   component |-> None, incident |-> None, statuses |-> None, incident_statuses |-> None,
   fault |-> None, occurred |-> None, as_of |-> 5, overdue |-> None, quantity |-> None,
   below |-> None]

MCTypeOf == <<"habitat", "lab">>

MCPages == {[offset |-> 0, limit |-> 1], [offset |-> 1, limit |-> 1],
            [offset |-> 0, limit |-> 2], [offset |-> 2, limit |-> 2]}

Empty == [units |-> <<>>, incidents |-> <<>>, orders |-> <<>>, items |-> <<>>, links |-> {}]

Unit(f, m, s) == [facility |-> f, model |-> m, status |-> s]

Two == <<Unit(1, 1, "up"), Unit(2, 2, "up")>>

Incident(u, fault, at, s) ==
  [unit |-> u, facility |-> IF u = None THEN 1 ELSE u, status |-> s, fault |-> fault, at |-> at]

\* Orders due before, at and after the time asked about, or without a due date.
Orders ==
  LET Order1(s, d, by) == [facility |-> 1, status |-> s, due |-> d, incident |-> by[1], target |-> by[2]]
      worlds == {[Empty EXCEPT !.units = Two, !.incidents = <<Incident(1, None, 3, "open")>>,
                   !.orders = <<Order1(s, d, by), [facility |-> 2, status |-> "blocked", due |-> e,
                                                    incident |-> None, target |-> 2]>>] :
                   s \in {"open", "completed"}, d \in {None, 4, 5}, e \in {None, 4},
                   by \in {<<None, None>>, <<1, 1>>, <<None, 1>>}}
      open == Open("work_orders")
  IN  [tables : worlds,
       plans : {{open, [open EXCEPT !.overdue = TRUE], [open EXCEPT !.overdue = FALSE],
                 [open EXCEPT !.statuses = {"open"}], [open EXCEPT !.incident = 1],
                 [open EXCEPT !.incident = 9], [open EXCEPT !.unit = 1],
                 [open EXCEPT !.type = "lab"], [open EXCEPT !.facility = 2]}}]

Incidents ==
  LET some == {Incident(u, fault, at, "open") : u \in {None, 1, 2}, fault \in {None, "F"}, at \in {3, 5}}
      worlds == {[Empty EXCEPT !.units = Two, !.incidents = <<Incident(1, "F", 3, "resolved"), i, j>>] :
                   i \in some, j \in {k \in some : k.fault = "F"}}
      open == Open("incidents")
      fault == [open EXCEPT !.fault = "F", !.occurred = [start |-> 3, end |-> 6]]
  IN  [tables : worlds,
       plans : {{open, fault, [open EXCEPT !.fault = "F"], [fault EXCEPT !.occurred.start = 5],
                 [fault EXCEPT !.unit = 1], [fault EXCEPT !.model = 2],
                 [open EXCEPT !.statuses = {"open"}], [open EXCEPT !.model = 9]}}]

Equipments ==
  LET worlds == {[Empty EXCEPT !.units = <<Unit(1, 1, s), Unit(1, 2, "down"), Unit(2, 1, "up")>>,
                   !.incidents = [i \in 1..2 |-> [at[i] EXCEPT !.facility = IF @ = 3 THEN 2 ELSE 1]]] :
                   s \in {"up", "down"},
                   at \in [1..2 -> {Incident(u, None, 3, t) : u \in 1..3, t \in {"open", "resolved"}}]}
      open == Open("facility_equipment")
  IN  [tables : worlds,
       plans : {{open, [open EXCEPT !.statuses = {"down"}], [open EXCEPT !.incident_statuses = {"open"}],
                 [open EXCEPT !.model = 1], [open EXCEPT !.facility = 9]}}]

Stocks ==
  LET worlds == {[Empty EXCEPT !.units = Two, !.links = links,
                   !.incidents = [i \in 1..n |-> Incident(1, None, 3, IF i = 1 THEN "resolved" ELSE "open")],
                   !.items = items] :
                   links \in {{<<2, 1>>}, {<<1, 2>>}, {<<1, 1>>, <<1, 2>>}}, n \in 0..5,
                   items \in {<<>>, <<[facility |-> 1, component |-> 1, quantity |-> 0, reorder |-> 1]>>,
                              <<[facility |-> 2, component |-> 2, quantity |-> 2, reorder |-> 1]>>}}
      open == [Open("compatible_stock") EXCEPT !.unit = 1]
  IN  [tables : worlds,
       plans : {{open, [open EXCEPT !.incident_statuses = {"open"}], [open EXCEPT !.unit = 9]}}]

Inventories ==
  LET worlds == {[Empty EXCEPT !.links = {<<1, 2>>},
                   !.items = [i \in 1..2 |-> [facility |-> 1, component |-> i, quantity |-> q[i], reorder |-> r[i]]]] :
                   q \in [1..2 -> 0..2], r \in [1..2 -> 0..2]}
      open == Open("inventory")
  IN  [tables : worlds,
       plans : {{open, [open EXCEPT !.component = 2], [open EXCEPT !.component = 9], [open EXCEPT !.model = 1]}
                  \cup {[open EXCEPT !.below = b] : b \in BOOLEAN}
                  \cup {[open EXCEPT !.quantity = [operator |-> o, value |-> 1]] :
                          o \in {"lt", "lte", "eq", "gte", "gt"}}}]

MCCases == Orders \cup Incidents \cup Equipments \cup Stocks \cup Inventories
=============================================================================

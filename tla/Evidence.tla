------------------------------ MODULE Evidence ------------------------------
(***************************************************************************)
(* What the five executors compute over one snapshot (app/queries/         *)
(* operations.py and equipment.py), what the contracts demand of it        *)
(* (app/queries/contracts.py) and what an answer says of it (app/answers/  *)
(* rendering.py and validation.py).                                        *)
(*                                                                         *)
(* The snapshot is of one workspace whose catalog is the pinned release.   *)
(* Ids are numbers in the order of the codes by which rows are sorted, SQL *)
(* NULL is None, and a condition over NULL is NULL until a WHERE or an IS  *)
(* decides it.  Of a sentence only the records it names are kept, of the   *)
(* summary only its claims.                                                *)
(***************************************************************************)
EXTENDS Integers, Sequences, FiniteSets, SequencesExt

CONSTANTS Facilities, TypeOf, \* of the workspace
          Models, Components, \* of the release
          Cases,       \* [tables, plans]: snapshots and what is asked of each
          Pages,       \* [offset, limit]
          MaxEvidence, MaxReferences, MaxSelection,
          None

\* What the schema's types, constraints and the catalog trigger guarantee.
CaseAssumption(t) ==
  /\ \A ids \in {DOMAIN t.units, DOMAIN t.incidents, DOMAIN t.orders, DOMAIN t.items} :
       IsFiniteSet(ids) /\ ids \subseteq Nat
  /\ \A u \in DOMAIN t.units : t.units[u].facility \in Facilities /\ t.units[u].model \in Models
  /\ \A i \in DOMAIN t.incidents :
       LET incident == t.incidents[i]
       IN  /\ incident.facility \in Facilities /\ incident.at \in Nat
           /\ incident.unit # None => /\ incident.unit \in DOMAIN t.units
                                     /\ t.units[incident.unit].facility = incident.facility
  /\ \A o \in DOMAIN t.orders :
       LET order == t.orders[o]
       IN  /\ order.facility \in Facilities /\ order.due \in Nat \cup {None}
           /\ order.incident # None => /\ order.incident \in DOMAIN t.incidents
                                      /\ t.incidents[order.incident].facility = order.facility
  /\ \A i \in DOMAIN t.items :
       LET item == t.items[i]
       IN  /\ item.facility \in Facilities /\ item.component \in Components
           /\ item.quantity \in Nat /\ item.reorder \in Nat
  /\ \A i, j \in DOMAIN t.items : i # j =>
       \/ t.items[i].facility # t.items[j].facility
       \/ t.items[i].component # t.items[j].component

\* What the plan contracts admit; a plan has None for the fields its operation has not.
PlanAssumption(p) ==
  /\ DOMAIN p = {"operation", "facility", "type", "unit", "model", "component", "incident",
                 "statuses", "incident_statuses", "fault", "occurred", "as_of", "overdue",
                 "quantity", "below"}
  /\ p.operation \in {"work_orders", "incidents", "inventory", "facility_equipment", "compatible_stock"}
  /\ p.operation = "compatible_stock" => p.unit # None
  /\ p.operation = "work_orders" => p.as_of \in Nat
  /\ {p.overdue, p.below} \subseteq {TRUE, FALSE, None}
  /\ p.occurred # None => /\ DOMAIN p.occurred = {"start", "end"}
                          /\ p.occurred.start \in Nat /\ p.occurred.end \in Nat
                          /\ p.occurred.start < p.occurred.end

ASSUME DataAssumption ==
  /\ Facilities \cup Models \cup Components \subseteq Nat
  /\ IsFiniteSet(Facilities) /\ IsFiniteSet(Components)
  /\ None \notin Nat \cup BOOLEAN \cup [start : Nat, end : Nat]
  /\ MaxEvidence \in Nat \ {0} /\ MaxReferences \in Nat /\ MaxSelection \in Nat
  /\ Pages \subseteq [offset : Nat, limit : Nat \ {0}]
  /\ \A case \in Cases : CaseAssumption(case.tables) /\ \A p \in case.plans : PlanAssumption(p)

VARIABLES tables, plan, page,
          result, \* what the executor returned or raised
          answer  \* what was rendered from it

vars == <<tables, plan, page, result, answer>>

NoResult == [status |-> "none"]

NoAnswer == [status |-> "none"]

Refused(kind) == [status |-> "failed", kind |-> kind]

Init ==
  /\ \E case \in Cases : tables = case.tables /\ plan \in case.plans
  /\ page \in Pages
  /\ result = NoResult
  /\ answer = NoAnswer

-----------------------------------------------------------------------------
\* Optional filters: a value, or a selection of values.
Equals(filter, value) == filter = None \/ value = filter

In(selection, value) == selection = None \/ value \in selection

\* The clauses on a row's facility; a location is filtered as a type is.
AtFacility(p, f) == Equals(p.facility, f) /\ Equals(p.type, TypeOf[f])

\* SQL conditions of three values.
Less(a, b) == IF None \in {a, b} THEN None ELSE a < b

And(a, b) == IF FALSE \in {a, b} THEN FALSE ELSE IF None \in {a, b} THEN None ELSE TRUE

Active == {"open", "in_progress", "blocked"}

\* Variant for mutation: IS NOT NULL is left out of the overdue condition.
OverdueOfNull(order, as_of) == And(order.status \in Active, Less(order.due, as_of))

Overdue(order, as_of) ==
  And(order.status \in Active, And(order.due # None, Less(order.due, as_of)))

Below(item) == item.quantity < item.reorder

Shortfall(item) == Max({0, item.reorder - item.quantity})

Compares(filter, quantity) ==
  filter = None \/ CASE filter.operator = "lt"  -> quantity < filter.value
                     [] filter.operator = "lte" -> quantity <= filter.value
                     [] filter.operator = "eq"  -> quantity = filter.value
                     [] filter.operator = "gte" -> quantity >= filter.value
                     [] filter.operator = "gt"  -> quantity > filter.value

During(window, time) == window = None \/ (window.start <= time /\ time < window.end)

\* ORDER BY code, id.
Sorted(ids) ==
  CHOOSE rows \in [1..Cardinality(ids) -> ids] :
    \A m, n \in 1..Cardinality(ids) : m < n => rows[m] < rows[n]

Limited(rows, n) == SubSeq(rows, 1, Min({Len(rows), n}))

\* Variant for mutation: the offset counts pages, where the code counts rows.
WindowOfPages(rows, w) ==
  SubSeq(rows, w.offset * w.limit + 1, Min({Len(rows), w.offset * w.limit + w.limit}))

Window(rows, w) == SubSeq(rows, w.offset + 1, Min({Len(rows), w.offset + w.limit}))

\* Explicit references are looked up before anything is selected.
Unknown(t, p) ==
  \E named \in {<<p.facility, Facilities>>, <<p.unit, DOMAIN t.units>>, <<p.model, Models>>,
                <<p.component, Components>>, <<p.incident, DOMAIN t.incidents>>} :
    named[1] # None /\ named[1] \notin named[2]

-----------------------------------------------------------------------------
\* The rows a plan selects, of the table its operation is about.
OrdersOf(t, p) ==
  {o \in DOMAIN t.orders :
     LET order == t.orders[o]
     IN  /\ AtFacility(p, order.facility) /\ In(p.statuses, order.status)
         /\ Equals(p.unit, order.target) /\ Equals(p.incident, order.incident)
         /\ Equals(p.overdue, Overdue(order, p.as_of))}

IncidentsOf(t, p) ==
  {i \in DOMAIN t.incidents :
     LET incident == t.incidents[i]
     IN  /\ AtFacility(p, incident.facility) /\ In(p.statuses, incident.status)
         /\ Equals(p.unit, incident.unit) /\ Equals(p.fault, incident.fault)
         /\ p.model # None => incident.unit # None /\ t.units[incident.unit].model = p.model
         /\ During(p.occurred, incident.at)}

ItemsOf(t, p) ==
  {i \in DOMAIN t.items :
     LET item == t.items[i]
     IN  /\ AtFacility(p, item.facility) /\ Equals(p.component, item.component)
         /\ p.model # None => <<p.model, item.component>> \in t.links
         /\ Compares(p.quantity, item.quantity)
         /\ Equals(p.below, Below(item))}

Supporting(t, p, units) ==
  {i \in DOMAIN t.incidents :
     t.incidents[i].unit \in units /\ In(p.incident_statuses, t.incidents[i].status)}

UnitsOf(t, p) ==
  {u \in DOMAIN t.units :
     /\ Equals(p.model, t.units[u].model) /\ In(p.statuses, t.units[u].status)
     /\ p.incident_statuses # None => Supporting(t, p, {u}) # {}}

FacilitiesOf(t, p) ==
  {f \in Facilities : AtFacility(p, f) /\ \E u \in UnitsOf(t, p) : t.units[u].facility = f}

\* An incident condition that no incident meets selects no component.
ComponentsOf(t, p) ==
  IF p.incident_statuses # None /\ Supporting(t, p, {p.unit}) = {} THEN {}
  ELSE {c \in Components : <<t.units[p.unit].model, c>> \in t.links}

Matches(t, p) ==
  CASE p.operation = "work_orders"        -> OrdersOf(t, p)
    [] p.operation = "incidents"          -> IncidentsOf(t, p)
    [] p.operation = "inventory"          -> ItemsOf(t, p)
    [] p.operation = "facility_equipment" -> FacilitiesOf(t, p)
    [] p.operation = "compatible_stock"   -> ComponentsOf(t, p)

-----------------------------------------------------------------------------
Each(Op(_), s) == [i \in DOMAIN s |-> Op(s[i])]

\* Evidence rows, under the names that the walk over identities goes by.
OrderEvidence(t, p, o) ==
  LET order == t.orders[o]
  IN  [work_order_id |-> o, facility_id |-> order.facility, status |-> order.status,
       due_at |-> order.due, overdue |-> Overdue(order, p.as_of),
       blocked |-> order.status = "blocked", originating_incident_id |-> order.incident,
       incident_equipment_unit_id |->
         IF order.incident = None THEN None ELSE t.incidents[order.incident].unit,
       target_equipment_unit_id |-> order.target]

IncidentEvidence(t, p, i) ==
  LET incident == t.incidents[i]
  IN  [incident_id |-> i, facility_id |-> incident.facility, unit_id |-> incident.unit,
       fault_code |-> incident.fault, occurred_at |-> incident.at]

ItemEvidence(t, p, i) ==
  LET item == t.items[i]
  IN  [inventory_id |-> i, facility_id |-> item.facility, component_id |-> item.component,
       quantity_on_hand |-> item.quantity, reorder_point |-> item.reorder,
       shortfall |-> Shortfall(item)]

FacilityEvidence(t, f, units, incidents) ==
  LET Unit(u) == [unit_id |-> u]
      Incident(i) == [incident_id |-> i, equipment_unit_id |-> t.incidents[i].unit]
      InUnits == {u \in ToSet(units) : t.units[u].facility = f}
      InIncidents == {i \in ToSet(incidents) : t.incidents[i].facility = f}
  IN  [facility_id |-> f, units |-> Each(Unit, Sorted(InUnits)),
       incidents |-> Each(Incident, Sorted(InIncidents))]

\* Outer join of a compatible component with the item at the unit's facility.
StockEvidence(t, p, c) ==
  LET unit == t.units[p.unit]
      items == {i \in DOMAIN t.items :
                  t.items[i].component = c /\ t.items[i].facility = unit.facility}
      item == IF items = {} THEN None ELSE CHOOSE i \in items : TRUE
  IN  [model_id |-> unit.model, component_id |-> c, inventory_id |-> item,
       quantity_on_hand |-> IF item = None THEN None ELSE t.items[item].quantity]

-----------------------------------------------------------------------------
Done(total, incident_ids, status, rows) ==
  [status |-> "done", total |-> total, incident_ids |-> incident_ids, verdict |-> status, rows |-> rows]

\* Variant for mutation: reads no more rows than the budget, so that none can exceed it.
NoSentinel == 0

Sentinel == 1

\* OperationsQueryExecutor: one table, counted and paged.
Listing(t, p, w) ==
  LET ids == Sorted(Matches(t, p))
      Row(id) == CASE p.operation = "work_orders" -> OrderEvidence(t, p, id)
                   [] p.operation = "incidents"   -> IncidentEvidence(t, p, id)
                   [] p.operation = "inventory"   -> ItemEvidence(t, p, id)
  IN  Done(Len(ids), <<>>, "matched", Each(Row, Window(ids, w)))

\* EquipmentQueryExecutor._facilities
Equipment(t, p, w) ==
  LET ids == Sorted(FacilitiesOf(t, p))
      selected == Window(ids, w)
      units == Limited(Sorted({u \in UnitsOf(t, p) : t.units[u].facility \in ToSet(selected)}),
                       MaxEvidence + Sentinel)
      incidents == Limited(Sorted(Supporting(t, p, ToSet(units))),
                           MaxEvidence - Len(units) + Sentinel)
      Row(f) == FacilityEvidence(t, f, units, incidents)
  IN  IF Len(units) > MaxEvidence \/ Len(units) + Len(incidents) > MaxEvidence
      THEN Refused("resource_limit")
      ELSE Done(Len(ids), <<>>, "matched", Each(Row, selected))

\* Variant for mutation: the verdict is taken from the page, where the code counts.
VerdictOfPage(total, rows) == IF rows # <<>> THEN "matched" ELSE "no_compatibility"

Verdict(total, rows) == IF total > 0 THEN "matched" ELSE "no_compatibility"

\* EquipmentQueryExecutor._stock
Stock(t, p, w) ==
  LET incident_ids == IF p.incident_statuses = None THEN <<>>
                      ELSE Limited(Sorted(Supporting(t, p, {p.unit})), MaxEvidence + Sentinel)
      ids == Sorted(ComponentsOf(t, p))
      Row(c) == StockEvidence(t, p, c)
      rows == Each(Row, Window(ids, w))
  IN  IF Len(incident_ids) > MaxEvidence THEN Refused("resource_limit")
      ELSE IF p.incident_statuses # None /\ incident_ids = <<>>
      THEN Done(0, <<>>, "no_incident_match", <<>>)
      ELSE IF Len(incident_ids) + Len(rows) > MaxEvidence THEN Refused("resource_limit")
      ELSE Done(Len(ids), incident_ids, Verdict(Len(ids), rows), rows)

\* The validators of the evidence contracts.
ValidRow(row) ==
  CASE plan.operation = "work_orders" ->
         /\ row.overdue \in BOOLEAN /\ row.blocked = (row.status = "blocked")
         /\ row.overdue => row.due_at # None /\ row.status \notin {"completed", "cancelled"}
         /\ row.originating_incident_id = None => row.incident_equipment_unit_id = None
    [] plan.operation = "incidents" -> TRUE
    [] plan.operation = "inventory" ->
         row.shortfall = Max({0, row.reorder_point - row.quantity_on_hand})
    [] plan.operation = "facility_equipment" ->
         LET units == {row.units[i].unit_id : i \in DOMAIN row.units}
             incidents == {row.incidents[i].incident_id : i \in DOMAIN row.incidents}
         IN  /\ row.units # <<>> /\ Cardinality(units) = Len(row.units)
             /\ \A i \in DOMAIN row.incidents : row.incidents[i].equipment_unit_id \in units
             /\ Cardinality(incidents) = Len(row.incidents)
    [] plan.operation = "compatible_stock" ->
         (row.inventory_id = None) = (row.quantity_on_hand = None)

Valid(r) ==
  /\ Len(r.rows) <= Min({page.limit, Max({0, r.total - page.offset})})
  /\ \A i \in DOMAIN r.rows : ValidRow(r.rows[i])
  /\ plan.operation = "incidents" =>
       \A i, j \in DOMAIN r.rows : i # j => r.rows[i].incident_id # r.rows[j].incident_id
  /\ plan.operation = "compatible_stock" =>
       /\ Cardinality(ToSet(r.incident_ids)) = Len(r.incident_ids)
       /\ r.verdict = "no_incident_match" => r.incident_ids = <<>>
       /\ (r.verdict = "matched") = (r.total > 0)

\* What the executor of the plan's operation computes.
Computed(t, p, w) ==
  CASE p.operation = "facility_equipment" -> Equipment(t, p, w)
    [] p.operation = "compatible_stock"   -> Stock(t, p, w)
    [] OTHER                              -> Listing(t, p, w)

\* execute of either executor: a result that is not valid raises.
Execute ==
  /\ result = NoResult
  /\ LET r == Computed(tables, plan, page)
     IN  result' = IF Unknown(tables, plan) THEN Refused("not_found")
                   ELSE IF r.status = "done" /\ ~Valid(r) THEN Refused("validation_error")
                   ELSE r
  /\ UNCHANGED <<tables, plan, page, answer>>

-----------------------------------------------------------------------------
Whole == page.offset = 0 /\ Len(result.rows) = result.total

\* Variant for mutation: a match is said to recur.
EnoughOfOne == 1

Enough == 2

\* What the summary says; the count and the interval are the plan's and the result's own.
Summary ==
  LET consistent == \A i \in DOMAIN result.rows :
        /\ plan.unit # None => result.rows[i].unit_id = plan.unit
        /\ result.rows[i].fault_code = plan.fault
        /\ plan.occurred.start <= result.rows[i].occurred_at
        /\ result.rows[i].occurred_at < plan.occurred.end
      said == [all |-> Whole, partial |-> ~Whole,
               supported |-> result.incident_ids # <<>>,
               unsupported |-> plan.operation = "compatible_stock" /\ result.incident_ids = <<>>,
               unrequired |-> /\ plan.operation \in {"facility_equipment", "compatible_stock"}
                              /\ plan.incident_statuses = None,
               interval |-> /\ plan.operation = "incidents" /\ plan.fault # None
                            /\ plan.occurred # None /\ consistent /\ Whole]
      counted == IF said.interval THEN {IF result.total >= Enough THEN "recurrence" ELSE "single"} ELSE {}
  IN  {claim \in DOMAIN said \ {"interval"} : said[claim]} \cup counted

\* The records a sentence names.
Named(row) ==
  CASE plan.operation = "work_orders" ->
         {<<"work_order", row.work_order_id>>, <<"facility", row.facility_id>>,
          <<"incident", row.originating_incident_id>>,
          <<"equipment_unit", row.incident_equipment_unit_id>>,
          <<"equipment_unit", row.target_equipment_unit_id>>}
    [] plan.operation = "incidents" ->
         {<<"incident", row.incident_id>>, <<"facility", row.facility_id>>,
          <<"equipment_unit", row.unit_id>>}
    [] plan.operation = "inventory" ->
         {<<"inventory", row.inventory_id>>, <<"facility", row.facility_id>>,
          <<"component", row.component_id>>}
    [] plan.operation = "facility_equipment" ->
         {<<"facility", row.facility_id>>}
           \cup {<<"equipment_unit", unit.unit_id>> : unit \in ToSet(row.units)}
           \cup {<<"incident", i.incident_id>> : i \in ToSet(row.incidents)}
           \cup {<<"equipment_unit", i.equipment_unit_id>> : i \in ToSet(row.incidents)}
    [] plan.operation = "compatible_stock" ->
         {<<"component", row.component_id>>, <<"equipment_model", row.model_id>>,
          <<"inventory", row.inventory_id>>}

Text == {name \in (UNION {Named(row) : row \in ToSet(result.rows)})
                    \cup {<<"incident", i>> : i \in ToSet(result.incident_ids)} :
           name[2] # None}

\* _IDENTITIES, but for the list of incident_ids.
Identities ==
  [facility_id |-> "facility", unit_id |-> "equipment_unit", equipment_unit_id |-> "equipment_unit",
   model_id |-> "equipment_model", component_id |-> "component", inventory_id |-> "inventory",
   incident_id |-> "incident", work_order_id |-> "work_order",
   originating_incident_id |-> "incident", incident_equipment_unit_id |-> "equipment_unit",
   target_equipment_unit_id |-> "equipment_unit"]

IdentitiesIn(record) ==
  {<<Identities[key], record[key]>> :
     key \in {k \in DOMAIN record \cap DOMAIN Identities : record[k] # None}}

\* Variant for mutation: the walk does not enter lists of records.
NestedNot(row) == {}

Nested(row) ==
  UNION {ToSet(row[key]) : key \in DOMAIN row \cap {"units", "incidents"}}

\* evidence_references
References ==
  (UNION {IdentitiesIn(record) :
            record \in ToSet(result.rows) \cup UNION {Nested(row) : row \in ToSet(result.rows)}})
    \cup {<<"incident", i>> : i \in ToSet(result.incident_ids)}

\* A preference is a list of facts: positions on this page, and 0 for a fact of another request.
Selections == BoundedSeq(0..Len(result.rows), MaxSelection)

Acceptable(selection) ==
  Cardinality(ToSet(selection)) = Len(selection) /\ ToSet(selection) \subseteq DOMAIN result.rows

\* The preferred facts first, then the others in their order.
Order(selection) == selection \o Sorted(DOMAIN result.rows \ ToSet(selection))

Cautious(reason) == [status |-> "cautious", reason |-> reason]

\* render_answer of a turn that was executed.  The three texts without records have one
\* reason in the code, no_results; here their words are the reason.  The text may be too long for the contract.
Rendered(selection, long) ==
  IF result.total = 0
  THEN Cautious(IF plan.operation = "compatible_stock" THEN result.verdict ELSE "no_results")
  ELSE IF result.rows = <<>> THEN Cautious("insufficient_evidence")
  ELSE IF ~Acceptable(selection) \/ long \/ Cardinality(References) > MaxReferences
  THEN Cautious("invalid_answer")
  ELSE [status |-> "answered", order |-> Order(selection), claims |-> Summary,
        text |-> Text, references |-> References,
        coverage |-> IF Whole THEN "complete" ELSE "partial"]

Render ==
  /\ result.status = "done" /\ answer = NoAnswer
  /\ \E selection \in Selections, long \in BOOLEAN : answer' = Rendered(selection, long)
  /\ UNCHANGED <<tables, plan, page, result>>

Next == Execute \/ Render

Spec == Init /\ [][Next]_vars

-----------------------------------------------------------------------------
\* No plan over any snapshot fails on the contract of its own result, and what failed
\* failed for one of the two reasons the executors give: the rows the SQL computes, NULLs
\* included, are what the validators of contracts.py demand.
ResultsValid ==
  /\ result.status \in {"none", "done", "failed"}
  /\ result.status = "failed" => result.kind \in {"not_found", "resource_limit"}

\* Filters that ask for a condition and for its opposite split the rows that match without
\* them: overdue, below its reorder point, and the two halves of a time window.  Nothing
\* with an unknown due date, and no stock at a boundary, falls between them or into both.
FiltersSplit ==
  LET Splits(one, other) ==
        /\ Matches(tables, one) \cap Matches(tables, other) = {}
        /\ Matches(tables, one) \cup Matches(tables, other) = Matches(tables, plan)
  IN  /\ plan.operation = "work_orders" /\ plan.overdue = None =>
           Splits([plan EXCEPT !.overdue = TRUE], [plan EXCEPT !.overdue = FALSE])
      /\ plan.operation = "inventory" /\ plan.below = None =>
           Splits([plan EXCEPT !.below = TRUE], [plan EXCEPT !.below = FALSE])
      /\ plan.operation = "incidents" /\ plan.occurred # None =>
           \A middle \in plan.occurred.start + 1 .. plan.occurred.end - 1 :
             Splits([plan EXCEPT !.occurred.end = middle], [plan EXCEPT !.occurred.start = middle])
      /\ plan.operation = "inventory" /\ result.status = "done" /\ plan.below # None =>
           \A row \in ToSet(result.rows) : (row.shortfall > 0) = plan.below

IdOf(row) ==
  CASE plan.operation = "work_orders"        -> row.work_order_id
    [] plan.operation = "incidents"          -> row.incident_id
    [] plan.operation = "inventory"          -> row.inventory_id
    [] plan.operation = "facility_equipment" -> row.facility_id
    [] plan.operation = "compatible_stock"   -> row.component_id

Before(id) == Cardinality({other \in Matches(tables, plan) : other < id})

OnPage ==
  {id \in Matches(tables, plan) :
     page.offset <= Before(id) /\ Before(id) < page.offset + page.limit}

\* Pages laid end to end hold every match once, in the order of the codes: the row at
\* each place of a page is the match with that many before it, and the total counts all.
PagesTile ==
  result.status = "done" =>
    /\ result.total = Cardinality(Matches(tables, plan))
    /\ Len(result.rows) = Cardinality(OnPage)
    /\ \A i \in DOMAIN result.rows :
         /\ IdOf(result.rows[i]) \in OnPage
         /\ Before(IdOf(result.rows[i])) = page.offset + i - 1

\* The units, or the unit, whose incidents are evidence of the page.
UnitsOnPage ==
  IF plan.operation = "compatible_stock" THEN {plan.unit}
  ELSE {u \in UnitsOf(tables, plan) : tables.units[u].facility \in OnPage}

\* Evidence is whole or refused, never cut: an equipment query is refused exactly when the
\* records it would have to read are more than the budget, and otherwise lists every
\* unit and every supporting incident of the facilities, or of the unit, on its page.
EvidenceWhole ==
  LET incidents == Supporting(tables, plan, UnitsOnPage)
      required == plan.incident_statuses # None
      records == CASE plan.operation = "facility_equipment" -> Cardinality(UnitsOnPage) + Cardinality(incidents)
                   [] plan.operation = "compatible_stock" ->
                        Cardinality(OnPage) + (IF required THEN Cardinality(incidents) ELSE 0)
                   [] OTHER -> 0
  IN  /\ result.status # "none" /\ ~Unknown(tables, plan) =>
           (result = Refused("resource_limit")) = (records > MaxEvidence)
      /\ result.status = "done" /\ plan.operation = "facility_equipment" =>
           \A row \in ToSet(result.rows) :
             LET Here(u) == tables.units[u].facility = row.facility_id
             IN  /\ {unit.unit_id : unit \in ToSet(row.units)} = {u \in UnitsOnPage : Here(u)}
                 /\ {i.incident_id : i \in ToSet(row.incidents)} = {i \in incidents : Here(tables.incidents[i].unit)}
      /\ result.status = "done" /\ plan.operation = "compatible_stock" /\ required =>
           ToSet(result.incident_ids) = incidents

\* Incidents that bear out a recurrence, whatever page or order they came in.
SameFault ==
  {i \in DOMAIN tables.incidents :
     LET incident == tables.incidents[i]
     IN  i \in Matches(tables, plan) /\ incident.fault = plan.fault /\ incident.fault # None
           /\ plan.occurred.start <= incident.at /\ incident.at < plan.occurred.end}

\* What an answer claims beyond its rows is so in the tables: that they are all there is,
\* that a fault recurs or was seen once, that a unit has supporting incidents or none, and
\* that nothing matched; and coverage is complete exactly when no match is missing.
ClaimsAreTrue ==
  LET rows == {IdOf(row) : row \in ToSet(result.rows)}
      supporting == Supporting(tables, plan, {plan.unit})
  IN  /\ answer.status = "answered" =>
           /\ ("all" \in answer.claims) = (rows = Matches(tables, plan))
           /\ ("partial" \in answer.claims) = (rows # Matches(tables, plan))
           /\ (answer.coverage = "complete") = (rows = Matches(tables, plan))
           /\ "recurrence" \in answer.claims => Cardinality(SameFault) > 1
           /\ "single" \in answer.claims => Cardinality(SameFault) = 1
           /\ "supported" \in answer.claims => supporting # {}
           /\ "unsupported" \in answer.claims => plan.incident_statuses = None
      /\ answer \in {Cautious("no_results"), Cautious("no_compatibility")} =>
           Matches(tables, plan) = {}
      /\ answer = Cautious("no_incident_match") => supporting = {}
      /\ answer = Cautious("insufficient_evidence") => Matches(tables, plan) # {} /\ OnPage = {}

\* The references of an answer are exactly the records its text names, those of nested and
\* supporting evidence included, although one comes from a walk over keys and the other
\* from five sentences; and a preference among the facts leaves none out and repeats none.
TextIsReferenced ==
  answer.status = "answered" =>
    /\ answer.text = answer.references
    /\ Len(answer.order) = Len(result.rows) /\ ToSet(answer.order) = DOMAIN result.rows
=============================================================================

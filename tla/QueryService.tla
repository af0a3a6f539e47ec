---------------------------- MODULE QueryService ----------------------------
(***************************************************************************)
(* A question's way to an answer: QueryService.ask and confirm_scope       *)
(* (app/queries/service.py), the grounding and resolution of references    *)
(* (resolution.py), the parser's acceptance of a plan (planning.py) and    *)
(* the sessions and checks of the executors (execution.py, equipment.py,   *)
(* operations.py), while the workspace changes under way.                  *)
(*                                                                         *)
(* An entity is known by its id and its names.  A question is what it      *)
(* literally contains; a plan is its operation and its references, first   *)
(* as the model wrote them, then as ids.  Filters that name no record      *)
(* never affect the control and are left out.  ModelService.generate is    *)
(* the one step its promise (ModelCall) allows it to be.                   *)
(***************************************************************************)
EXTENDS Naturals, Sequences, FiniteSets

CONSTANTS Asks, Confirms, \* calls of ask and of confirm_scope, a thread each
          Contexts,    \* trusted QueryContexts, of one workspace
          Ids,         \* entities that may be visible in the workspace
          Names,       \* codes, tags and names
          KindOf,      \* of each id
          NamesOf,     \* of each id, a set of names
          Questions,   \* [text, mentions]: references it contains, UUIDs it spells out
          Operations,  \* the operations a model proposes
          MaxGrounded, \* MAX_GROUNDED_REFERENCES
          None

Calls == Asks \cup Confirms

Kinds == {"facility", "unit", "incident", "model", "component"}

References == Ids \cup Names

ASSUME EntityAssumption ==
  /\ KindOf \in [Ids -> Kinds] /\ NamesOf \in [Ids -> SUBSET Names]
  /\ None \notin References \cup Calls /\ Asks \cap Confirms = {} /\ Ids \cap Names = {}
  /\ (\A S \in SUBSET Ids : S # None) /\ IsFiniteSet(Ids) /\ MaxGrounded \in Nat

ASSUME QuestionAssumption ==
  /\ Questions \subseteq [text : SUBSET References, mentions : SUBSET Ids]
  /\ None \notin Questions

\* The reference fields of an operation, in the order of reference_slots.
SlotsOf == [facility_equipment |-> <<"model", "facility">>,
            compatible_stock |-> <<"unit">>,
            work_orders |-> <<"unit", "incident", "facility">>,
            incidents |-> <<"model", "unit", "facility">>,
            inventory |-> <<"model", "component", "facility">>]

ASSUME OperationAssumption == Operations \subseteq DOMAIN SlotsOf

VARIABLES visible,  \* entities committed in the workspace and its catalog
          pinned,   \* the workspace has a catalog release
          pc,       \* where each call is
          args,     \* what the caller passed
          types,    \* reference_types, once grounded
          plan,     \* the proposal, then the resolved plan
          snap,     \* the snapshot of the open query_session
          outcome,  \* what the call returned or raised
          trace     \* the call's events, oldest first

vars == <<visible, pinned, pc, args, types, plan, snap, outcome, trace>>

-----------------------------------------------------------------------------
\* A plan gives each kind of reference at most one value; a stock plan needs its unit.
Slots(operation) == {SlotsOf[operation][i] : i \in DOMAIN SlotsOf[operation]}

Plans ==
  {p \in UNION {[operation : {o}, refs : [Slots(o) -> References \cup {None}]] : o \in Operations} :
     p.operation = "compatible_stock" => p.refs["unit"] # None}

Named(p) == {k \in DOMAIN p.refs : p.refs[k] # None}

Declined == [operation |-> "declined"]

NoPlan == [operation |-> "none"]

HasReferences(p) == IF p = Declined THEN FALSE ELSE Named(p) # {}

\* The kinds a mention may be, as far as the session sees: a kind for a visible
\* id, none for another.
Candidates(mentions, seen) == mentions \cap seen

\* parse_plan: a reference must be in the question.
Literal(p, question) == \A k \in Named(p) : p.refs[k] \in question.text

\* Variant for mutation: the guard against several candidates is left out.
SeveralUnguarded(candidates) == FALSE

\* has_multiple_reference_candidates: two visible mentions of one kind.
Several(candidates) ==
  \E id1, id2 \in candidates : id1 # id2 /\ KindOf[id1] = KindOf[id2]

Matches(kind, ref, seen) ==
  {id \in seen : KindOf[id] = kind /\ ref \in NamesOf[id] \cup {id}}

\* The i-th slot of the operation of p.
SlotAt(p, i) == SlotsOf[p.operation][i]

MatchesAt(p, i, seen) == Matches(SlotAt(p, i), p.refs[SlotAt(p, i)], seen)

\* Variant for mutation: the statement stops at its first match.
AmbiguousAtFirst(matches) == FALSE

\* More than one match, of the at most two that are read.
Ambiguous(matches) == \E id1, id2 \in matches : id1 # id2

\* The i-th slot is empty, or its matches let the resolution go on.
Clear(p, i, seen) ==
  p.refs[SlotAt(p, i)] # None =>
    MatchesAt(p, i, seen) # {} /\ ~Ambiguous(MatchesAt(p, i, seen))

\* The i-th slot is the first that is not clear: its matches decide.
FirstUnclear(p, i, seen) ==
  ~Clear(p, i, seen) /\ \A j \in 1 .. i - 1 : Clear(p, j, seen)

\* Every reference is replaced by its first match.
Resolved(p, seen) ==
  [p EXCEPT !.refs = [k \in DOMAIN p.refs |-> IF p.refs[k] = None THEN None
                                               ELSE CHOOSE id \in Matches(k, p.refs[k], seen) : TRUE]]

\* needs_scope_confirmation: no specific facility, unit or incident.
NeedsScopeConfirmation(p) ==
  /\ p.operation # "compatible_stock"
  /\ p.refs["facility"] = None
  /\ p.operation = "incidents" => p.refs["unit"] = None
  /\ p.operation = "work_orders" => (p.refs["unit"] = None /\ p.refs["incident"] = None)

-----------------------------------------------------------------------------
NoArgs == [kind |-> "none"]

NoResponse == [seen |-> None]

NoOutcome == [status |-> "none"]

FailureKinds == {"invalid_plan", "not_found", "model_failure", "database_unavailable",
                 "timeout", "resource_limit", "internal_error"}

Failure(kind) == [status |-> "failed", kind |-> kind]

\* A QueryOutcome; planning names the call whose planning_operation_id it has.
Outcome(context, planning, status, p, response) ==
  [status |-> status, context |-> context, planning |-> planning, plan |-> p,
   response |-> response]

\* QueryOutcomes the caller has been given.
Given == {outcome[c] : c \in {d \in Calls : pc[d] = "ended" /\ outcome[d].status # "failed"}}

EventOf == [grounding |-> "query_grounding", planning |-> "query_planning",
            resolution |-> "query_resolution", scope |-> "query_scope",
            execution |-> "query_execution", reading |-> "query_execution"]

Event(phase, word) == [event |-> EventOf[phase], outcome |-> word]

Init == /\ visible = {} /\ pinned = FALSE
        /\ pc = [c \in Calls |-> "idle"]
        /\ args = [c \in Calls |-> NoArgs]
        /\ types = [c \in Calls |-> {}]
        /\ plan = [c \in Calls |-> NoPlan]
        /\ snap = [c \in Calls |-> None]
        /\ outcome = [c \in Calls |-> NoOutcome]
        /\ trace = [c \in Calls |-> << >>]

world == <<visible, pinned>>

Goto(c, phase) == pc' = [pc EXCEPT ![c] = phase]

Record(c, events) == trace' = [trace EXCEPT ![c] = @ \o events]

CloseSession(c) == snap' = [snap EXCEPT ![c] = None]

End(c, o) == Goto(c, "ended") /\ outcome' = [outcome EXCEPT ![c] = o]

\* Variant for mutation: the traced block does not note the error.
ErrorWordLost(kind) == "completed"

ErrorWord(kind) == kind

\* A QueryError leaves the traced block that it was raised in.
Fail(c, kind) ==
  /\ End(c, Failure(kind))
  /\ Record(c, <<Event(pc[c], ErrorWord(kind))>>)
  /\ CloseSession(c)
  /\ UNCHANGED <<world, args, types, plan>>

-----------------------------------------------------------------------------
\* ask, or its refusal of an invalid question (None) before anything is traced.
Ask(c, context, question) ==
  /\ pc[c] = "idle"
  /\ args' = [args EXCEPT ![c] = [kind |-> "ask", context |-> context, question |-> question]]
  /\ IF question = None THEN End(c, Failure("invalid_plan"))
     ELSE Goto(c, "grounding") /\ UNCHANGED outcome
  /\ UNCHANGED <<world, types, plan, snap, trace>>

Mentions(c) == args[c].question.mentions

TooMany(c) == Cardinality(Mentions(c)) > MaxGrounded

\* The phases that read the database, and do not read it for nothing.
NeedsSession(c) ==
  \/ pc[c] = "grounding" /\ Mentions(c) # {} /\ ~TooMany(c)
  \/ pc[c] = "resolution" /\ HasReferences(plan[c])
  \/ pc[c] = "execution"

\* pinned_query_session: a REPEATABLE READ transaction in a pinned workspace.
OpenSession(c) ==
  /\ NeedsSession(c) /\ snap[c] = None
  /\ IF pinned THEN /\ snap' = [snap EXCEPT ![c] = visible]
                    /\ UNCHANGED <<world, pc, args, types, plan, outcome, trace>>
     ELSE Fail(c, "not_found")

\* A statement is cancelled, or the database fails, at any point of a session.
DatabaseFails(c) ==
  /\ NeedsSession(c) \/ pc[c] = "reading"
  /\ \E kind \in {"timeout", "database_unavailable"} : Fail(c, kind)

\* Variant for mutation: a READ COMMITTED session.
ViewCommitted(c) == visible

\* What a statement of the open session reads.
View(c) == snap[c]

Grounded(c, candidates) ==
  /\ types' = [types EXCEPT ![c] = candidates]
  /\ Record(c, <<Event("grounding", "completed")>>)
  /\ Goto(c, "planning") /\ CloseSession(c)
  /\ UNCHANGED <<world, args, plan, outcome>>

Ground(c) ==
  /\ pc[c] = "grounding"
  /\ \/ TooMany(c) /\ Fail(c, "invalid_plan")
     \/ Mentions(c) = {} /\ Grounded(c, {})
     \/ snap[c] # None /\ Grounded(c, Candidates(Mentions(c), View(c)))

-----------------------------------------------------------------------------
Planned(c, p) ==
  /\ plan' = [plan EXCEPT ![c] = p]
  /\ Record(c, <<Event("planning", IF p = Declined THEN "declined" ELSE "completed")>>)
  /\ Goto(c, "resolution")
  /\ UNCHANGED <<world, args, types, snap, outcome>>

\* generate failed or stopped at the token limit, its text is no plan, or it
\* raised something that is not a ModelCallError.
PlanningFails(c) ==
  /\ pc[c] = "planning"
  /\ \E kind \in {"model_failure", "invalid_plan", "internal_error"} : Fail(c, kind)

\* The model declines, or proposes a plan that parse_plan and the guard pass.
Propose(c, p) ==
  /\ pc[c] = "planning"
  /\ IF p = Declined THEN Planned(c, Declined)
     ELSE IF ~Literal(p, args[c].question) THEN Fail(c, "invalid_plan")
     ELSE Planned(c, IF Several(types[c]) THEN Declined ELSE p)

\* After the resolution: declined, put before the caller, or executed.
Settle(c, p) ==
  LET resolution == Event("resolution", IF p = Declined THEN "declined" ELSE "completed")
      ends(status) == End(c, Outcome(args[c].context, c, status, p, NoResponse))
  IN  /\ plan' = [plan EXCEPT ![c] = p]
      /\ CloseSession(c)
      /\ \/ p = Declined /\ ends("not_required") /\ Record(c, <<resolution>>)
         \/ /\ p # Declined /\ NeedsScopeConfirmation(p)
            /\ ends("awaiting_confirmation")
            /\ Record(c, <<resolution, Event("scope", "awaiting_confirmation")>>)
         \/ /\ p # Declined /\ ~NeedsScopeConfirmation(p)
            /\ Goto(c, "execution") /\ Record(c, <<resolution>>)
            /\ UNCHANGED outcome
      /\ UNCHANGED <<world, args, types>>

\* resolve_plan, of a proposal without references and of one with them.
Resolve(c) ==
  /\ pc[c] = "resolution"
  /\ IF ~HasReferences(plan[c]) THEN Settle(c, plan[c])
     ELSE /\ snap[c] # None
          /\ \/ \E i \in DOMAIN SlotsOf[plan[c].operation] :
                  LET matches == MatchesAt(plan[c], i, View(c))
                  IN  /\ FirstUnclear(plan[c], i, View(c))
                      /\ \/ matches = {} /\ Fail(c, "not_found")
                         \/ Ambiguous(matches) /\ Settle(c, Declined)
             \/ /\ \A i \in DOMAIN SlotsOf[plan[c].operation] : Clear(plan[c], i, View(c))
                /\ Settle(c, Resolved(plan[c], View(c)))

-----------------------------------------------------------------------------
\* Variant for mutation: the approved plan is not compared with the pending one.
ConfirmableAnyPlan(context, proposal, approved) ==
  /\ proposal.status = "awaiting_confirmation" /\ proposal.context = context
  /\ approved # Declined

\* An approval is of the pending plan, in the context it was proposed in.
Confirmable(context, proposal, approved) ==
  /\ proposal.status = "awaiting_confirmation" /\ proposal.context = context
  /\ proposal.response = NoResponse
  /\ approved # Declined /\ approved = proposal.plan

\* confirm_scope: nothing is traced when the approval is refused.
ConfirmScope(c, context, proposal, approved) ==
  /\ pc[c] = "idle"
  /\ args' = [args EXCEPT ![c] = [kind |-> "confirm", context |-> context,
                                  proposal |-> proposal, approved |-> approved]]
  /\ IF Confirmable(context, proposal, approved)
     THEN /\ Goto(c, "execution")
          /\ plan' = [plan EXCEPT ![c] = approved]
          /\ UNCHANGED outcome
     ELSE End(c, Failure("invalid_plan")) /\ UNCHANGED plan
  /\ UNCHANGED <<world, types, snap, trace>>

\* The executors look every explicit id of the plan up again.
StillVisible(p, seen) == \A k \in Named(p) : p.refs[k] \in seen

Check(c) ==
  /\ pc[c] = "execution" /\ snap[c] # None
  /\ IF StillVisible(plan[c], View(c))
     THEN /\ Goto(c, "reading")
          /\ UNCHANGED <<world, args, types, plan, snap, outcome, trace>>
     ELSE Fail(c, "not_found")

\* The evidence is read, and the outcome is the answer to the question or,
\* after a confirmation, the proposal's.
Read(c) ==
  LET response == [seen |-> View(c), plan |-> plan[c], context |-> args[c].context]
  IN  /\ pc[c] = "reading"
      /\ End(c, IF args[c].kind = "ask"
                THEN Outcome(args[c].context, c, "not_required", plan[c], response)
                ELSE [args[c].proposal EXCEPT !.status = "confirmed", !.response = response])
      /\ Record(c, <<Event("execution", "completed")>>)
      /\ CloseSession(c)
      /\ UNCHANGED <<world, args, types, plan>>

\* The equipment executor's evidence budget.
ReadTooMuch(c) ==
  /\ pc[c] = "reading" /\ plan[c].operation \in {"facility_equipment", "compatible_stock"}
  /\ Fail(c, "resource_limit")

-----------------------------------------------------------------------------
Catalog == {id \in Ids : KindOf[id] \in {"model", "component"}}

\* Records are created, and a refresh removes those the baseline has not.
Change(id) ==
  /\ id \notin Catalog
  /\ visible' = IF id \in visible THEN visible \ {id} ELSE visible \cup {id}
  /\ UNCHANGED <<pinned, pc, args, types, plan, snap, outcome, trace>>

\* The workspace is pinned to a release, once.
Pin(release) ==
  /\ ~pinned /\ pinned' = TRUE
  /\ visible' = visible \cup release
  /\ UNCHANGED <<pc, args, types, plan, snap, outcome, trace>>

AnyAsk(c) == \E context \in Contexts, question \in Questions \cup {None} :
               Ask(c, context, question)

AnyPropose(c) == \E p \in Plans \cup {Declined} : Propose(c, p)

\* Plans a caller may approve: those it was given, and those without their restrictions.
Widened(p) == [p EXCEPT !.refs = [k \in DOMAIN p.refs |-> None]]

Approvals == LET given == {o.plan : o \in Given}
             IN  given \cup ({Widened(p) : p \in given \ {Declined}} \cap Plans)

AnyConfirm(c) == \E context \in Contexts, proposal \in Given, approved \in Approvals :
                   ConfirmScope(c, context, proposal, approved)

Progress(c) == \/ OpenSession(c) \/ Ground(c) \/ AnyPropose(c) \/ PlanningFails(c)
               \/ Resolve(c) \/ Check(c) \/ Read(c)

Step(c) == Progress(c) \/ DatabaseFails(c) \/ ReadTooMuch(c)

Next == \/ \E c \in Asks : AnyAsk(c)
        \/ \E c \in Confirms : AnyConfirm(c)
        \/ \E c \in Calls : Step(c)
        \/ \E id \in Ids : Change(id)
        \/ \E release \in SUBSET Catalog : Pin(release)

Spec == Init /\ [][Next]_vars

-----------------------------------------------------------------------------
\* What callers may rely on: QueryPromise, with the plans that need a confirmation.
Promise == INSTANCE QueryPromise
             WITH Spanning <- {p \in Plans : NeedsScopeConfirmation(p)}, Evidence <- SUBSET Ids

KeepsPromise == Promise!Spec

-----------------------------------------------------------------------------
Phases == {"idle", "grounding", "planning", "resolution", "execution", "reading", "ended"}

AllPlans == Plans \cup {Declined}

Responses == [seen : SUBSET Ids, plan : Plans, context : Contexts]

Outcomes == [status : {"not_required", "awaiting_confirmation", "confirmed"},
             context : Contexts, planning : Calls, plan : AllPlans,
             response : Responses \cup {NoResponse}]

Args == [kind : {"ask"}, context : Contexts, question : Questions \cup {None}]
          \cup [kind : {"confirm"}, context : Contexts, proposal : Outcomes, approved : AllPlans]

Failures == [status : {"failed"}, kind : FailureKinds]

Events == [event : {EventOf[phase] : phase \in DOMAIN EventOf},
           outcome : {"completed", "declined", "awaiting_confirmation"} \cup FailureKinds]

\* Types, and the sessions: none is open outside of the phases that read, so a
\* call that waits for the model or has ended holds no connection.
TypeOK == /\ visible \subseteq Ids /\ pinned \in BOOLEAN
          /\ pc \in [Calls -> Phases]
          /\ args \in [Calls -> Args \cup {NoArgs}]
          /\ types \in [Calls -> SUBSET Ids]
          /\ plan \in [Calls -> AllPlans \cup {NoPlan}]
          /\ snap \in [Calls -> (SUBSET Ids) \cup {None}]
          /\ \A c \in Calls : snap[c] # None => (NeedsSession(c) \/ pc[c] = "reading")
          /\ outcome \in [Calls -> Outcomes \cup Failures \cup {NoOutcome}]
          /\ trace \in [Calls -> Seq(Events)]

Succeeded(c) == pc[c] = "ended" /\ outcome[c].status # "failed"

Answered(c) == Succeeded(c) /\ outcome[c].response # NoResponse

\* Facilities, units and incidents are each at one facility.
SpansFacilities(p) == \A k \in {"facility", "unit", "incident"} : k \notin Named(p)

(***************************************************************************)
(* No plan that ranges over several facilities is executed unless its      *)
(* caller approved exactly that plan, in the context in which an ask of    *)
(* its own proposed it; and the evidence is of the plan the outcome shows. *)
(* (confirm_scope, lines 181 to 190: the approval and the proposal are     *)
(* separate arguments, and a caller holds proposals of several questions.) *)
(***************************************************************************)
ScopeIsApproved ==
  \A c \in Calls : Answered(c) =>
    LET o == outcome[c]
    IN  /\ o.response.plan = o.plan /\ o.response.context = o.context
        /\ o.context = args[c].context
        /\ SpansFacilities(o.plan) =>
             /\ o.status = "confirmed" /\ args[c].kind = "confirm" /\ args[c].approved = o.plan
             /\ outcome[o.planning] = Outcome(o.context, o.planning, "awaiting_confirmation",
                                              o.plan, NoResponse)

(***************************************************************************)
(* A plan that reaches a caller or an executor names only records that the *)
(* question of its own ask names, and never one record of several of a     *)
(* kind that the question spells out: the model can neither invent nor     *)
(* choose a scope.  (parse_plan, lines 193 to 199; ask, 140 to 144.)       *)
(***************************************************************************)
PlanIsOfTheQuestion ==
  \A c \in Calls : (Succeeded(c) /\ outcome[c].plan # Declined) =>
    LET asking == outcome[c].planning
        p == outcome[c].plan
    IN  /\ ~\E id1, id2 \in types[asking] : id1 # id2 /\ KindOf[id1] = KindOf[id2]
        /\ \A k \in Named(p) :
             /\ p.refs[k] \in Ids /\ KindOf[p.refs[k]] = k
             /\ (NamesOf[p.refs[k]] \cup {p.refs[k]}) \cap args[asking].question.text # {}

(***************************************************************************)
(* Every record that an executed plan names is in the snapshot its         *)
(* evidence is read from, and the workspace is pinned, although records    *)
(* may have come and gone since the references were resolved, and between  *)
(* the check of the ids and the reading.  (execution.py, 35 to 45;         *)
(* query_session, database.py, 89: REPEATABLE READ.)                       *)
(***************************************************************************)
EvidenceOfOneMoment ==
  \A c \in Calls : Answered(c) =>
    /\ pinned
    /\ \A k \in Named(outcome[c].plan) : outcome[c].plan.refs[k] \in outcome[c].response.seen

(***************************************************************************)
(* A plan that goes on from its resolution, to be executed or confirmed,   *)
(* has for each reference of the proposal the one record of its kind that  *)
(* the reference matches, all of them in one snapshot, and has dropped no  *)
(* reference.  (resolve_plan, line 100: "never guess a match".)            *)
(***************************************************************************)
NeverGuesses ==
  [][\A c \in Calls :
       (pc[c] = "resolution" /\ (pc'[c] = "execution" \/ outcome'[c].status = "awaiting_confirmation"))
         => /\ Named(plan'[c]) = Named(plan[c])
            /\ \A k \in Named(plan[c]) :
                 Matches(k, plan[c].refs[k], snap[c]) = {plan'[c].refs[k]}]_vars

(***************************************************************************)
(* The trace tells how a call ended: its blocks in order, none but the     *)
(* last failed, and the last with the call's own verdict; only an invalid  *)
(* question or approval leaves no trace.  (_trace around each phase.)      *)
(***************************************************************************)
FullTrace == <<"query_grounding", "query_planning", "query_resolution">>

LastWord(o) ==
  IF o.status = "failed" THEN o.kind
  ELSE IF o.response # NoResponse THEN "completed"
  ELSE IF o.plan = Declined THEN "declined" ELSE "awaiting_confirmation"

TraceTellsTheCall ==
  \A c \in Calls :
    LET n == Len(trace[c])
        last == trace[c][n].outcome
    IN  /\ \A i \in 1 .. n : /\ c \in Asks /\ i <= 3 => trace[c][i].event = FullTrace[i]
                             /\ i < n => trace[c][i].outcome \in {"completed", "declined"}
        /\ pc[c] = "ended" => IF n = 0 THEN outcome[c] = Failure("invalid_plan")
                              ELSE last = LastWord(outcome[c])
=============================================================================

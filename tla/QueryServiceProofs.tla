------------------------- MODULE QueryServiceProofs -------------------------
(***************************************************************************)
(* Scope, evidence and trace of a question's way to an answer, for every   *)
(* number of calls, every set of entities, names and questions, and every  *)
(* legal choice of operations.                                             *)
(***************************************************************************)
EXTENDS QueryService, SequenceTheorems, TLAPS

(***************************************************************************)
(* The strengthening, call by call.  What a call holds in each phase; what *)
(* it has returned; that a confirmation is of an outcome that still is as  *)
(* it was returned; and its trace so far.                                  *)
(***************************************************************************)
\* What a plan may be of: the question of the call d, without a choice of the model's.
OfTheQuestion(p, d) ==
  /\ ~Several(types[d])
  /\ \A k \in Named(p) :
       /\ p.refs[k] \in Ids /\ KindOf[p.refs[k]] = k
       /\ (NamesOf[p.refs[k]] \cup {p.refs[k]}) \cap args[d].question.text # {}

Working(c) == pc[c] \in {"execution", "reading"}

Asking(c) == args[c].kind = "ask"

\* What a call has when it is in a phase.
CallOK(c) ==
  /\ pc[c] = "idle" => args[c] = NoArgs /\ trace[c] = << >>
  /\ pc[c] # "idle" => args[c].kind \in {"ask", "confirm"}
  /\ Asking(c) => c \in Asks
  /\ args[c].kind = "confirm" => c \in Confirms
  /\ pc[c] = "ended" <=> outcome[c] # NoOutcome
  /\ pc[c] \in {"grounding", "planning", "resolution"} => Asking(c) /\ args[c].question # None
  /\ pc[c] = "resolution" =>
       /\ plan[c] \in AllPlans
       /\ plan[c] # Declined => Literal(plan[c], args[c].question) /\ ~Several(types[c])
  /\ Working(c) =>
       /\ plan[c] \in Plans
       /\ Asking(c) => ~NeedsScopeConfirmation(plan[c]) /\ OfTheQuestion(plan[c], c)
       /\ ~Asking(c) => plan[c] = args[c].approved
  /\ pc[c] = "reading" => snap[c] # None /\ StillVisible(plan[c], snap[c])

\* What a call that has ended well has returned.
OutcomeOK(c) ==
  Succeeded(c) =>
    LET o == outcome[c]
    IN  /\ o.status = "awaiting_confirmation" => Asking(c) /\ o.response = NoResponse
        /\ Asking(c) => /\ o.planning = c /\ o.context = args[c].context /\ o.status # "confirmed"
                        /\ o.plan # Declined => OfTheQuestion(o.plan, c)
                        /\ o.plan # Declined /\ o.response = NoResponse =>
                             o.status = "awaiting_confirmation"
        /\ ~Asking(c) => /\ o.status = "confirmed" /\ o.response # NoResponse
                         /\ o.planning = args[c].proposal.planning
                         /\ o.context = args[c].context /\ o.plan = args[c].approved
        /\ o.response # NoResponse =>
             /\ o.plan # Declined /\ o.response.plan = o.plan /\ o.response.context = o.context
             /\ StillVisible(o.plan, o.response.seen)
             /\ Asking(c) => ~NeedsScopeConfirmation(o.plan)

\* A confirmation that was let through is of what an ask has returned, unchanged.
ProposalOK(c) ==
  (args[c].kind = "confirm" /\ (Working(c) \/ Succeeded(c))) =>
    LET o == args[c].proposal
    IN  /\ o.planning \in Asks /\ Succeeded(o.planning) /\ outcome[o.planning] = o
        /\ o = Outcome(args[c].context, o.planning, "awaiting_confirmation", args[c].approved, NoResponse)
        /\ args[c].approved # Declined

\* The first n blocks of an ask have ended well, and nothing else is traced.
Done(c, n) ==
  /\ Len(trace[c]) = n
  /\ \A i \in 1 .. n : /\ trace[c][i].event = FullTrace[i]
                       /\ trace[c][i].outcome \in {"completed", "declined"}

TraceOK(c) ==
  /\ pc[c] = "grounding" => Done(c, 0)
  /\ pc[c] = "planning" => Done(c, 1)
  /\ pc[c] = "resolution" => Done(c, 2)
  /\ Working(c) => IF Asking(c) THEN Done(c, 3) ELSE trace[c] = << >>
  /\ pc[c] = "ended" =>
       LET n == Len(trace[c])
       IN  /\ \A i \in 1 .. n : /\ c \in Asks /\ i <= 3 => trace[c][i].event = FullTrace[i]
                                /\ i < n => trace[c][i].outcome \in {"completed", "declined"}
           /\ IF n = 0 THEN outcome[c] = Failure("invalid_plan")
              ELSE trace[c][n].outcome = LastWord(outcome[c])

IInv == TypeOK /\ \A c \in Calls : CallOK(c) /\ OutcomeOK(c) /\ ProposalOK(c) /\ TraceOK(c)

-----------------------------------------------------------------------------
LEMMA PlanShape ==
  ASSUME NEW p \in Plans
  PROVE  /\ p.operation \in Operations /\ p.refs \in [Slots(p.operation) -> References \cup {None}]
         /\ p = [operation |-> p.operation, refs |-> p.refs]
         /\ p.operation = "compatible_stock" => p.refs["unit"] # None
         /\ p # Declined /\ p # NoPlan
<1>1. PICK o \in Operations : p \in [operation : {o}, refs : [Slots(o) -> References \cup {None}]]
  BY DEF Plans
<1>2. p.operation = o
  BY <1>1
<1>3. p.operation \in {"facility_equipment", "compatible_stock", "work_orders", "incidents", "inventory"}
  BY <1>2, OperationAssumption DEF SlotsOf
<1>4. p # Declined /\ p # NoPlan
  BY <1>3 DEF Declined, NoPlan
<1> QED
  BY <1>1, <1>2, <1>4 DEF Plans

LEMMA PlanMade ==
  ASSUME NEW o \in Operations, NEW refs \in [Slots(o) -> References \cup {None}],
         o = "compatible_stock" => refs["unit"] # None
  PROVE  [operation |-> o, refs |-> refs] \in Plans
<1> DEFINE p == [operation |-> o, refs |-> refs]
<1>1. p \in [operation : {o}, refs : [Slots(o) -> References \cup {None}]]
  OBVIOUS
<1>2. p.operation = "compatible_stock" => p.refs["unit"] # None
  OBVIOUS
<1> HIDE DEF p
<1> QED
  BY <1>1, <1>2 DEF Plans

\* The slots that matter: every plan but one for stock has a facility; which have a unit or
\* an incident.
LEMMA SlotsHave ==
  /\ "unit" \in Slots("compatible_stock")
  /\ \A o \in DOMAIN SlotsOf \ {"compatible_stock"} : "facility" \in Slots(o)
  /\ "unit" \in Slots("incidents")
  /\ "unit" \in Slots("work_orders") /\ "incident" \in Slots("work_orders")
<1>1. DOMAIN SlotsOf = {"facility_equipment", "compatible_stock", "work_orders", "incidents", "inventory"}
  BY DEF SlotsOf
<1>2. SlotsOf["compatible_stock"] = <<"unit">> /\ SlotsOf["incidents"] = <<"model", "unit", "facility">>
  BY DEF SlotsOf
<1>3. /\ SlotsOf["work_orders"] = <<"unit", "incident", "facility">>
      /\ SlotsOf["facility_equipment"] = <<"model", "facility">>
      /\ SlotsOf["inventory"] = <<"model", "component", "facility">>
  BY DEF SlotsOf
<1>4. \A o \in DOMAIN SlotsOf, i \in 1 .. 3 : i \in DOMAIN SlotsOf[o] => SlotsOf[o][i] \in Slots(o)
  BY DEF Slots
<1>5. "unit" \in Slots("compatible_stock")
  BY <1>2, <1>1 DEF Slots
<1>6. "unit" \in Slots("incidents") /\ "facility" \in Slots("incidents")
  <2>1. 2 \in DOMAIN SlotsOf["incidents"] /\ SlotsOf["incidents"][2] = "unit"
    BY <1>2
  <2>2. 3 \in DOMAIN SlotsOf["incidents"] /\ SlotsOf["incidents"][3] = "facility"
    BY <1>2
  <2> QED
    BY <2>1, <2>2 DEF Slots
<1>7. {"unit", "incident", "facility"} \subseteq Slots("work_orders")
  <2>1. 1 \in DOMAIN SlotsOf["work_orders"] /\ SlotsOf["work_orders"][1] = "unit"
    BY <1>3
  <2>2. 2 \in DOMAIN SlotsOf["work_orders"] /\ SlotsOf["work_orders"][2] = "incident"
    BY <1>3
  <2>3. 3 \in DOMAIN SlotsOf["work_orders"] /\ SlotsOf["work_orders"][3] = "facility"
    BY <1>3
  <2> QED
    BY <2>1, <2>2, <2>3 DEF Slots
<1>8. "facility" \in Slots("facility_equipment")
  <2>1. 2 \in DOMAIN SlotsOf["facility_equipment"] /\ SlotsOf["facility_equipment"][2] = "facility"
    BY <1>3
  <2> QED
    BY <2>1 DEF Slots
<1>9. "facility" \in Slots("inventory")
  <2>1. 3 \in DOMAIN SlotsOf["inventory"] /\ SlotsOf["inventory"][3] = "facility"
    BY <1>3
  <2> QED
    BY <2>1 DEF Slots
<1> QED
  BY <1>1, <1>5, <1>6, <1>7, <1>8, <1>9

\* The rule for a confirmation catches every plan that ranges over facilities.
LEMMA SpanningNeedsConfirmation ==
  ASSUME NEW p \in Plans, SpansFacilities(p) PROVE NeedsScopeConfirmation(p)
<1>1. /\ p.operation \in DOMAIN SlotsOf /\ DOMAIN p.refs = Slots(p.operation)
      /\ p.operation = "compatible_stock" => p.refs["unit"] # None
  BY PlanShape, OperationAssumption
<1>2. \A k \in {"facility", "unit", "incident"} : k \in Slots(p.operation) => p.refs[k] = None
  BY <1>1 DEF SpansFacilities, Named
<1>3. p.operation # "compatible_stock"
  BY <1>1, <1>2, SlotsHave
<1> QED
  BY <1>1, <1>2, <1>3, SlotsHave DEF NeedsScopeConfirmation

\* A plan whose references are all clear resolves to a plan of the same question.
LEMMA ResolvedPlan ==
  ASSUME NEW p \in Plans, NEW seen \in SUBSET Ids, \A i \in DOMAIN SlotsOf[p.operation] : Clear(p, i, seen)
  PROVE  /\ Resolved(p, seen) \in Plans /\ Named(Resolved(p, seen)) = Named(p)
         /\ \A k \in Named(p) : Matches(k, p.refs[k], seen) = {Resolved(p, seen).refs[k]}
<1> DEFINE found(k) == CHOOSE id \in Matches(k, p.refs[k], seen) : TRUE
           refs == [k \in DOMAIN p.refs |-> IF p.refs[k] = None THEN None ELSE found(k)]
<1>1. /\ p.operation \in Operations /\ DOMAIN p.refs = Slots(p.operation)
      /\ p = [operation |-> p.operation, refs |-> p.refs]
      /\ p.operation = "compatible_stock" => p.refs["unit"] # None
  BY PlanShape
<1>2. ASSUME NEW k \in DOMAIN p.refs, p.refs[k] # None
      PROVE  Matches(k, p.refs[k], seen) = {found(k)}
  <2>1. PICK i \in DOMAIN SlotsOf[p.operation] : k = SlotAt(p, i)
    BY <1>1, <1>2 DEF Slots, SlotAt
  <2>2. Matches(k, p.refs[k], seen) # {} /\ ~Ambiguous(Matches(k, p.refs[k], seen))
    BY <1>2, <2>1 DEF Clear, MatchesAt
  <2> QED
    BY <2>2 DEF Ambiguous
<1>3. Resolved(p, seen) = [operation |-> p.operation, refs |-> refs]
  <2>1. Resolved(p, seen) = [p EXCEPT !.refs = refs]
    BY DEF Resolved
  <2> HIDE DEF refs
  <2>2. [[operation |-> p.operation, refs |-> p.refs] EXCEPT !.refs = refs]
          = [operation |-> p.operation, refs |-> refs]
    OBVIOUS
  <2> QED
    BY <1>1, <2>1, <2>2
<1>4. \A k \in DOMAIN p.refs : p.refs[k] # None => refs[k] = found(k) /\ found(k) \in Ids
  <2>1. \A k, ref : Matches(k, ref, seen) \subseteq Ids
    BY DEF Matches
  <2>2. \A k \in DOMAIN p.refs : p.refs[k] # None => refs[k] = found(k)
    OBVIOUS
  <2>3. \A k \in DOMAIN p.refs : p.refs[k] # None => found(k) \in Ids
    BY <1>2, <2>1
  <2> QED
    BY <2>2, <2>3
<1>5. refs \in [Slots(p.operation) -> References \cup {None}]
  BY <1>1, <1>4 DEF References
<1>6. p.operation = "compatible_stock" => refs["unit"] # None
  BY <1>1, <1>4, SlotsHave, EntityAssumption DEF References
<1>7. Resolved(p, seen) \in Plans
  BY <1>1, <1>3, <1>5, <1>6, PlanMade
<1>8. \A k \in DOMAIN p.refs : refs[k] # None <=> p.refs[k] # None
  BY <1>4, EntityAssumption DEF References
<1>9. DOMAIN refs = DOMAIN p.refs /\ Resolved(p, seen).refs = refs
  BY <1>3
<1> HIDE DEF refs
<1> QED
  BY <1>2, <1>4, <1>7, <1>8, <1>9 DEF Named

-----------------------------------------------------------------------------
LEMMA InitIInv == Init => IInv
<1> SUFFICES ASSUME Init PROVE IInv
  OBVIOUS
<1>1. TypeOK
  <2>1. trace \in [Calls -> Seq(Events)] /\ snap \in [Calls -> (SUBSET Ids) \cup {None}]
    BY DEF Init
  <2>2. pc \in [Calls -> Phases] /\ types \in [Calls -> SUBSET Ids]
    BY DEF Init, Phases
  <2>3. args \in [Calls -> Args \cup {NoArgs}]
    BY DEF Init
  <2>4. plan \in [Calls -> AllPlans \cup {NoPlan}]
    BY DEF Init
  <2>5. outcome \in [Calls -> Outcomes \cup Failures \cup {NoOutcome}]
    BY DEF Init
  <2>6. \A c \in Calls : snap[c] = None /\ visible \subseteq Ids /\ pinned \in BOOLEAN
    BY DEF Init
  <2> QED
    BY <2>1, <2>2, <2>3, <2>4, <2>5, <2>6 DEF Init, TypeOK
<1>2. ASSUME NEW c \in Calls PROVE CallOK(c) /\ OutcomeOK(c) /\ ProposalOK(c) /\ TraceOK(c)
  BY <1>2 DEF Init, CallOK, OutcomeOK, ProposalOK, TraceOK, Succeeded, Asking, Working, NoArgs
<1> QED
  BY <1>1, <1>2 DEF IInv

\* What a step of one call leaves to the others: a call that has ended does not change, so
\* that nobody's proposal does.
Others(c) == \A d \in Calls \ {c} : /\ pc'[d] = pc[d] /\ args'[d] = args[d] /\ types'[d] = types[d]
                                    /\ plan'[d] = plan[d] /\ snap'[d] = snap[d]
                                    /\ outcome'[d] = outcome[d] /\ trace'[d] = trace[d]

LEMMA OneCall ==
  ASSUME IInv, NEW c \in Calls, pc[c] # "ended", Others(c), TypeOK',
         CallOK(c)', OutcomeOK(c)', ProposalOK(c)', TraceOK(c)'
  PROVE  IInv'
<1>1. ASSUME NEW d \in Calls, d # c PROVE CallOK(d)' /\ OutcomeOK(d)' /\ ProposalOK(d)' /\ TraceOK(d)'
  <2>1. /\ pc'[d] = pc[d] /\ args'[d] = args[d] /\ types'[d] = types[d] /\ plan'[d] = plan[d]
        /\ snap'[d] = snap[d] /\ outcome'[d] = outcome[d] /\ trace'[d] = trace[d]
    BY <1>1 DEF Others
  <2>2. /\ Working(d)' = Working(d) /\ Asking(d)' = Asking(d) /\ Succeeded(d)' = Succeeded(d)
        /\ \A p : OfTheQuestion(p, d)' = OfTheQuestion(p, d)
        /\ \A n : Done(d, n)' = Done(d, n)
    BY <2>1 DEF Working, Asking, Succeeded, OfTheQuestion, Done
  <2>3. CallOK(d)'
    BY <2>1, <2>2 DEF IInv, CallOK
  <2>4. OutcomeOK(d)'
    <3>1. OutcomeOK(d)
      BY DEF IInv
    <3> QED
      BY <2>1, <3>1 DEF OutcomeOK, Succeeded, Asking, OfTheQuestion, Several, Named, StillVisible,
                        NeedsScopeConfirmation, NoResponse, Declined
  <2>5. ProposalOK(d)'
    <3>1. \A e \in Asks : Succeeded(e) => Succeeded(e)' /\ outcome'[e] = outcome[e]
      BY DEF Others, Succeeded, Calls
    <3> QED
      BY <2>1, <2>2, <3>1 DEF IInv, ProposalOK
  <2>6. TraceOK(d)'
    BY <2>1, <2>2 DEF IInv, TraceOK
  <2> QED
    BY <2>3, <2>4, <2>5, <2>6
<1> QED
  BY <1>1 DEF IInv

\* A step of the world alone.
LEMMA WorldStep ==
  ASSUME IInv, UNCHANGED <<pc, args, types, plan, snap, outcome, trace>>,
         visible' \subseteq Ids, pinned' \in BOOLEAN
  PROVE  IInv'
<1>1. TypeOK'
  BY DEF IInv, TypeOK, NeedsSession, Mentions, TooMany
<1>2. ASSUME NEW c \in Calls PROVE CallOK(c)' /\ OutcomeOK(c)' /\ ProposalOK(c)' /\ TraceOK(c)'
  <2>1. CallOK(c)' /\ OutcomeOK(c)'
    BY DEF IInv, CallOK, OutcomeOK, Working, Asking, Succeeded, OfTheQuestion
  <2>2. ProposalOK(c)' /\ TraceOK(c)'
    BY DEF IInv, ProposalOK, TraceOK, Working, Asking, Succeeded, Done
  <2> QED
    BY <2>1, <2>2
<1> QED
  BY <1>1, <1>2 DEF IInv

-----------------------------------------------------------------------------
\* A trace grows by one event.
LEMMA Appended ==
  ASSUME NEW s \in Seq(Events), NEW e \in Events
  PROVE  LET t == s \o <<e>>
         IN  /\ t \in Seq(Events) /\ Len(t) = Len(s) + 1 /\ t[Len(s) + 1] = e
             /\ \A i \in 1 .. Len(s) : t[i] = s[i]
  OBVIOUS

LEMMA AppendedTwo ==
  ASSUME NEW s \in Seq(Events), NEW e \in Events, NEW f \in Events
  PROVE  LET t == s \o <<e, f>>
         IN  /\ t \in Seq(Events) /\ Len(t) = Len(s) + 2
             /\ t[Len(s) + 1] = e /\ t[Len(s) + 2] = f
             /\ \A i \in 1 .. Len(s) : t[i] = s[i]
  OBVIOUS

\* The end of a call by an error, from whichever phase.
LEMMA FailIInv ==
  ASSUME IInv, NEW c \in Calls, NEW kind \in FailureKinds, Fail(c, kind),
         pc[c] \in {"grounding", "planning", "resolution", "execution", "reading"}
  PROVE  IInv'
<1> DEFINE e == Event(pc[c], kind)
           s == trace[c]
           t == s \o <<e>>
<1>1. /\ pc' = [pc EXCEPT ![c] = "ended"] /\ outcome' = [outcome EXCEPT ![c] = Failure(kind)]
      /\ snap' = [snap EXCEPT ![c] = None] /\ trace' = [trace EXCEPT ![c] = @ \o <<e>>]
      /\ UNCHANGED <<visible, pinned, args, types, plan>>
  BY DEF Fail, End, Goto, Record, CloseSession, ErrorWord, world
<1>2. e \in Events /\ s \in Seq(Events)
  BY DEF Event, EventOf, Events, IInv, TypeOK
<1>3. t \in Seq(Events) /\ Len(t) = Len(s) + 1 /\ t[Len(s) + 1] = e /\ \A i \in 1 .. Len(s) : t[i] = s[i]
  BY <1>2, Appended
<1>4. pc'[c] = "ended" /\ outcome'[c] = Failure(kind) /\ snap'[c] = None /\ trace'[c] = t
  BY <1>1 DEF IInv, TypeOK
<1>5. Others(c)
  BY <1>1 DEF Others, IInv, TypeOK
<1>6. TypeOK'
  <2>1. Failure(kind) \in Failures
    BY DEF Failure, Failures
  <2>2. \A d \in Calls : snap'[d] # None => (NeedsSession(d) \/ pc[d] = "reading")'
    BY <1>1, <1>4, <1>5 DEF Others, IInv, TypeOK, NeedsSession, Mentions, TooMany
  <2> QED
    BY <1>1, <1>2, <1>3, <2>1, <2>2 DEF IInv, TypeOK, Phases
<1>7. CallOK(c)' /\ OutcomeOK(c)' /\ ProposalOK(c)'
  BY <1>1, <1>4 DEF IInv, CallOK, OutcomeOK, ProposalOK, Succeeded, Working, Asking, Failure, NoOutcome
<1>8. TraceOK(c)'
  <2>1. Len(s) \in Nat /\ LastWord(Failure(kind)) = kind /\ e.outcome = kind
    BY <1>2 DEF LastWord, Failure, Event
  <2>2. \/ s = << >> /\ (c \in Asks => e.event = FullTrace[1])
        \/ \E n \in 0 .. 3 : Done(c, n) /\ (n <= 2 => e.event = FullTrace[n + 1])
    <3>0. /\ FullTrace[1] = EventOf["grounding"] /\ FullTrace[2] = EventOf["planning"]
          /\ FullTrace[3] = EventOf["resolution"] /\ e.event = EventOf[pc[c]]
      BY DEF Event, EventOf, FullTrace
    <3>1. CASE pc[c] \in {"grounding", "planning", "resolution"}
      <4>1. CASE pc[c] = "grounding"
        BY <3>0, <4>1 DEF IInv, TraceOK
      <4>2. CASE pc[c] = "planning"
        BY <3>0, <4>2 DEF IInv, TraceOK
      <4>3. CASE pc[c] = "resolution"
        BY <3>0, <4>3 DEF IInv, TraceOK
      <4> QED
        BY <3>1, <4>1, <4>2, <4>3
    <3>2. CASE Working(c) /\ Asking(c)
      BY <3>2 DEF IInv, TraceOK
    <3>3. CASE Working(c) /\ ~Asking(c)
      <4>1. c \notin Asks
        BY <3>3, EntityAssumption DEF IInv, CallOK, Working, Asking
      <4> QED
        BY <3>3, <4>1 DEF IInv, TraceOK
    <3> QED
      BY <3>1, <3>2, <3>3 DEF Working
  <2>3. \A i \in 1 .. Len(s) : /\ c \in Asks /\ i <= 3 => s[i].event = FullTrace[i]
                               /\ s[i].outcome \in {"completed", "declined"}
    BY <2>1, <2>2 DEF Done
  <2>4. c \in Asks /\ Len(s) + 1 <= 3 => e.event = FullTrace[Len(s) + 1]
    <3>1. s = << >> => Len(s) = 0
      OBVIOUS
    <3>2. \A n : Done(c, n) => Len(s) = n
      BY DEF Done
    <3> HIDE DEF e, s
    <3> QED
      BY <2>1, <2>2, <3>1, <3>2
  <2> HIDE DEF e, s, t
  <2>5. /\ Len(t) = Len(s) + 1 /\ Len(t) # 0 /\ t[Len(t)] = e
        /\ \A i \in 1 .. Len(t) : (i = Len(t) /\ t[i] = e) \/ (i \in 1 .. Len(s) /\ t[i] = s[i])
    BY <1>3, <2>1
  <2>6. \A i \in 1 .. Len(t) : /\ c \in Asks /\ i <= 3 => t[i].event = FullTrace[i]
                               /\ i < Len(t) => t[i].outcome \in {"completed", "declined"}
    BY <2>1, <2>3, <2>4, <2>5
  <2>7. t[Len(t)].outcome = LastWord(outcome'[c])
    BY <1>4, <2>1, <2>5
  <2>8. pc'[c] = "ended" /\ ~Working(c)'
    BY <1>4 DEF Working
  <2> QED
    BY <1>4, <2>5, <2>6, <2>7, <2>8 DEF TraceOK
<1> QED
  BY <1>5, <1>6, <1>7, <1>8, OneCall

LEMMA TypesNow ==
  ASSUME TypeOK
  PROVE  /\ visible \subseteq Ids /\ pinned \in BOOLEAN /\ pc \in [Calls -> Phases]
         /\ args \in [Calls -> Args \cup {NoArgs}] /\ types \in [Calls -> SUBSET Ids]
         /\ plan \in [Calls -> AllPlans \cup {NoPlan}] /\ snap \in [Calls -> (SUBSET Ids) \cup {None}]
         /\ outcome \in [Calls -> Outcomes \cup Failures \cup {NoOutcome}]
         /\ trace \in [Calls -> Seq(Events)]
  BY DEF TypeOK

\* A step of one call keeps the types if what it changes has them.
LEMMA TypeStep ==
  ASSUME TypeOK, NEW c \in Calls, Others(c), visible' \subseteq Ids, pinned' \in BOOLEAN,
         pc' \in [Calls -> Phases], args' \in [Calls -> Args \cup {NoArgs}],
         types' \in [Calls -> SUBSET Ids], plan' \in [Calls -> AllPlans \cup {NoPlan}],
         snap' \in [Calls -> (SUBSET Ids) \cup {None}],
         outcome' \in [Calls -> Outcomes \cup Failures \cup {NoOutcome}],
         trace' \in [Calls -> Seq(Events)],
         snap'[c] # None => (NeedsSession(c) \/ pc[c] = "reading")'
  PROVE  TypeOK'
<1>1. \A d \in Calls \ {c} : snap'[d] # None => (NeedsSession(d) \/ pc[d] = "reading")'
  BY DEF Others, TypeOK, NeedsSession, Mentions, TooMany
<1> QED
  BY <1>1 DEF TypeOK

LEMMA AskIInv ==
  ASSUME IInv, NEW c \in Asks, NEW context \in Contexts, NEW question \in Questions \cup {None},
         Ask(c, context, question)
  PROVE  IInv'
<1> DEFINE a == [kind |-> "ask", context |-> context, question |-> question]
<1>1. /\ pc[c] = "idle" /\ c \in Calls /\ args' = [args EXCEPT ![c] = a]
      /\ UNCHANGED <<visible, pinned, types, plan, snap, trace>>
      /\ \/ /\ question = None /\ pc' = [pc EXCEPT ![c] = "ended"]
            /\ outcome' = [outcome EXCEPT ![c] = Failure("invalid_plan")]
         \/ question # None /\ pc' = [pc EXCEPT ![c] = "grounding"] /\ UNCHANGED outcome
  BY DEF Ask, End, Goto, world, Calls
<1>2. args[c] = NoArgs /\ trace[c] = << >> /\ outcome[c] = NoOutcome /\ snap[c] = None
  BY <1>1 DEF IInv, CallOK, TypeOK, NeedsSession
<1>3. /\ args'[c] = a /\ a.kind = "ask" /\ a.question = question /\ a.context = context
      /\ trace'[c] = << >> /\ snap'[c] = None
      /\ \/ question = None /\ pc'[c] = "ended" /\ outcome'[c] = Failure("invalid_plan")
         \/ question # None /\ pc'[c] = "grounding" /\ outcome'[c] = NoOutcome
  BY <1>1, <1>2 DEF IInv, TypeOK
<1>4. Others(c)
  BY <1>1 DEF Others, IInv, TypeOK
<1>5. TypeOK'
  <2>1. a \in Args /\ Failure("invalid_plan") \in Failures
    BY DEF Args, Failure, Failures, FailureKinds
  <2> HIDE DEF a
  <2>2. pc' \in [Calls -> Phases]
    BY <1>1, TypesNow DEF IInv, Phases
  <2>3. args' \in [Calls -> Args \cup {NoArgs}]
    BY <1>1, <2>1, TypesNow DEF IInv
  <2>4. outcome' \in [Calls -> Outcomes \cup Failures \cup {NoOutcome}]
    BY <1>1, <2>1, TypesNow DEF IInv
  <2> QED
    BY <1>1, <1>3, <1>4, <2>2, <2>3, <2>4, TypesNow, TypeStep DEF IInv
<1> HIDE DEF a
<1>6. CallOK(c)'
  BY <1>1, <1>3 DEF CallOK, Asking, Working, Failure, NoOutcome
<1>7. OutcomeOK(c)' /\ ProposalOK(c)'
  BY <1>3 DEF OutcomeOK, ProposalOK, Succeeded, Failure
<1>8. TraceOK(c)'
  BY <1>3 DEF TraceOK, Done, Working
<1> QED
  BY <1>1, <1>4, <1>5, <1>6, <1>7, <1>8, OneCall

LEMMA OpenSessionIInv ==
  ASSUME IInv, NEW c \in Calls, OpenSession(c) PROVE IInv'
<1>1. pc[c] \in {"grounding", "resolution", "execution"} /\ NeedsSession(c)
  BY DEF OpenSession, NeedsSession
<1>2. CASE ~pinned
  BY <1>1, <1>2, FailIInv DEF OpenSession, FailureKinds
<1>3. CASE pinned
  <2>1. /\ snap' = [snap EXCEPT ![c] = visible]
        /\ UNCHANGED <<visible, pinned, pc, args, types, plan, outcome, trace>>
    BY <1>3 DEF OpenSession, world
  <2>2. Others(c)
    BY <2>1 DEF Others, IInv, TypeOK
  <2>3. TypeOK'
    <3>1. NeedsSession(c)'
      BY <1>1, <2>1 DEF NeedsSession, Mentions, TooMany
    <3>2. snap' \in [Calls -> (SUBSET Ids) \cup {None}]
      BY <2>1 DEF IInv, TypeOK
    <3> QED
      BY <2>1, <2>2, <3>1, <3>2, TypesNow, TypeStep DEF IInv
  <2>4. CallOK(c)'
    BY <1>1, <2>1 DEF IInv, CallOK, Asking, Working, OfTheQuestion
  <2>5. OutcomeOK(c)' /\ ProposalOK(c)' /\ TraceOK(c)'
    BY <1>1, <2>1 DEF IInv, OutcomeOK, ProposalOK, TraceOK, Done, Succeeded, Asking, Working
  <2> QED
    BY <1>1, <2>2, <2>3, <2>4, <2>5, OneCall
<1> QED
  BY <1>2, <1>3

\* A block of an ask ends well: its trace is one event longer.
LEMMA DoneOneMore ==
  ASSUME IInv, NEW c \in Calls, NEW n \in 0 .. 2, Done(c, n), NEW m, m = n + 1,
         NEW e, e.event = FullTrace[m], e.outcome \in {"completed", "declined"},
         e = [event |-> e.event, outcome |-> e.outcome],
         trace' = [trace EXCEPT ![c] = @ \o <<e>>]
  PROVE  Done(c, m)' /\ trace' \in [Calls -> Seq(Events)]
<1>1. FullTrace[m] \in {"query_grounding", "query_planning", "query_resolution"}
  BY DEF FullTrace
<1>2. e \in Events /\ trace[c] \in Seq(Events)
  <2>1. e.event \in {EventOf[phase] : phase \in DOMAIN EventOf}
    BY <1>1 DEF EventOf
  <2> QED
    BY <2>1 DEF Events, IInv, TypeOK
<1>3. trace'[c] = trace[c] \o <<e>> /\ trace' \in [Calls -> Seq(Events)]
  <2>1. trace[c] \o <<e>> \in Seq(Events)
    BY <1>2, Appended
  <2> QED
    BY <2>1 DEF IInv, TypeOK
<1>4. /\ Len(trace'[c]) = m /\ trace'[c][m] = e
      /\ \A i \in 1 .. n : trace'[c][i] = trace[c][i]
  BY <1>2, <1>3, Appended DEF Done
<1>5. \A i \in 1 .. m : i \in 1 .. n \/ i = m
  OBVIOUS
<1>6. \A i \in 1 .. n : trace[c][i].event = FullTrace[i] /\ trace[c][i].outcome \in {"completed", "declined"}
  BY DEF Done
<1> QED
  BY <1>2, <1>3, <1>4, <1>5, <1>6 DEF Done

LEMMA GroundIInv ==
  ASSUME IInv, NEW c \in Calls, Ground(c) PROVE IInv'
<1>1. pc[c] = "grounding" /\ Asking(c) /\ args[c].question # None /\ outcome[c] = NoOutcome /\ Done(c, 0)
  BY DEF Ground, IInv, CallOK, TraceOK
<1>2. CASE TooMany(c) /\ Fail(c, "invalid_plan")
  BY <1>1, <1>2, FailIInv DEF FailureKinds
<1>3. ASSUME NEW candidates \in SUBSET Ids, Grounded(c, candidates) PROVE IInv'
  <2>1. /\ pc' = [pc EXCEPT ![c] = "planning"] /\ types' = [types EXCEPT ![c] = candidates]
        /\ snap' = [snap EXCEPT ![c] = None] /\ UNCHANGED <<visible, pinned, args, plan, outcome>>
        /\ trace' = [trace EXCEPT ![c] = @ \o <<[event |-> "query_grounding", outcome |-> "completed"]>>]
    BY <1>3 DEF Grounded, Goto, CloseSession, Record, Event, EventOf, world
  <2>2. Done(c, 1)' /\ trace' \in [Calls -> Seq(Events)]
    <3> DEFINE new == [event |-> "query_grounding", outcome |-> "completed"]
    <3>1. /\ new.event = FullTrace[1] /\ new.outcome \in {"completed", "declined"}
          /\ new = [event |-> new.event, outcome |-> new.outcome]
      BY DEF FullTrace
    <3>2. trace' = [trace EXCEPT ![c] = @ \o <<new>>]
      BY <2>1
    <3> HIDE DEF new
    <3>3. 0 \in 0 .. 2 /\ 1 = 0 + 1
      OBVIOUS
    <3> QED
      BY <1>1, <3>1, <3>2, <3>3, DoneOneMore
  <2>3. Others(c)
    BY <2>1 DEF Others, IInv, TypeOK
  <2>4. pc'[c] = "planning" /\ snap'[c] = None /\ args'[c] = args[c] /\ outcome'[c] = NoOutcome
    BY <1>1, <2>1 DEF IInv, TypeOK
  <2>5. TypeOK'
    BY <2>1, <2>2, <2>3, <2>4, TypesNow, TypeStep DEF IInv, Phases
  <2>6. CallOK(c)' /\ OutcomeOK(c)' /\ ProposalOK(c)' /\ TraceOK(c)'
    BY <1>1, <2>2, <2>4 DEF IInv, CallOK, OutcomeOK, ProposalOK, TraceOK, Working, Asking, Succeeded
  <2> QED
    BY <1>1, <2>3, <2>5, <2>6, OneCall
<1>4. snap[c] # None => Candidates(Mentions(c), View(c)) \subseteq Ids
  BY DEF Candidates, View, IInv, TypeOK
<1> QED
  BY <1>2, <1>3, <1>4 DEF Ground

LEMMA ProposeIInv ==
  ASSUME IInv, NEW c \in Calls, NEW p \in Plans \cup {Declined}, Propose(c, p) PROVE IInv'
<1>1. pc[c] = "planning" /\ Asking(c) /\ args[c].question # None /\ outcome[c] = NoOutcome /\ Done(c, 1)
  BY DEF Propose, IInv, CallOK, TraceOK
<1>2. CASE Fail(c, "invalid_plan")
  BY <1>1, <1>2, FailIInv DEF FailureKinds
<1>3. ASSUME NEW q \in AllPlans, Planned(c, q),
             q # Declined => Literal(q, args[c].question) /\ ~Several(types[c])
      PROVE  IInv'
  <2> DEFINE word == IF q = Declined THEN "declined" ELSE "completed"
  <2>1. /\ pc' = [pc EXCEPT ![c] = "resolution"] /\ plan' = [plan EXCEPT ![c] = q]
        /\ UNCHANGED <<visible, pinned, args, types, snap, outcome>>
        /\ trace' = [trace EXCEPT ![c] = @ \o <<[event |-> "query_planning", outcome |-> word]>>]
    BY <1>3 DEF Planned, Goto, Record, Event, EventOf, world
  <2>2. word \in {"completed", "declined"}
    OBVIOUS
  <2> HIDE DEF word
  <2>3. Done(c, 2)' /\ trace' \in [Calls -> Seq(Events)]
    <3> DEFINE new == [event |-> "query_planning", outcome |-> word]
    <3>1. /\ new.event = FullTrace[2] /\ new.outcome \in {"completed", "declined"}
          /\ new = [event |-> new.event, outcome |-> new.outcome]
      BY <2>2 DEF FullTrace
    <3>2. trace' = [trace EXCEPT ![c] = @ \o <<new>>]
      BY <2>1
    <3> HIDE DEF new
    <3>3. 1 \in 0 .. 2 /\ 2 = 1 + 1
      OBVIOUS
    <3> QED
      BY <1>1, <3>1, <3>2, <3>3, DoneOneMore
  <2>4. Others(c)
    BY <2>1 DEF Others, IInv, TypeOK
  <2>5. /\ pc'[c] = "resolution" /\ snap'[c] = snap[c] /\ args'[c] = args[c] /\ outcome'[c] = NoOutcome
        /\ plan'[c] = q /\ types'[c] = types[c] /\ snap[c] = None
    BY <1>1, <2>1 DEF IInv, TypeOK, NeedsSession
  <2>6. TypeOK'
    BY <2>1, <2>3, <2>4, <2>5, TypesNow, TypeStep DEF IInv, Phases
  <2>7. CallOK(c)' /\ OutcomeOK(c)' /\ ProposalOK(c)' /\ TraceOK(c)'
    BY <1>1, <1>3, <2>3, <2>5 DEF IInv, CallOK, OutcomeOK, ProposalOK, TraceOK, Working, Asking, Succeeded
  <2> QED
    BY <1>1, <2>4, <2>6, <2>7, OneCall
<1> QED
  BY <1>2, <1>3 DEF Propose, AllPlans

\* The end of the resolution with a plan that is of the question.
LEMMA SettleIInv ==
  ASSUME IInv, NEW c \in Calls, pc[c] = "resolution", NEW p \in AllPlans, Settle(c, p),
         p # Declined => OfTheQuestion(p, c)
  PROVE  IInv'
<1> DEFINE word == IF p = Declined THEN "declined" ELSE "completed"
           e == [event |-> "query_resolution", outcome |-> word]
           status == IF p = Declined THEN "not_required" ELSE "awaiting_confirmation"
           o == Outcome(args[c].context, c, status, p, NoResponse)
           scope == [event |-> "query_scope", outcome |-> "awaiting_confirmation"]
<1>1. /\ Asking(c) /\ args[c].question # None /\ outcome[c] = NoOutcome /\ Done(c, 2) /\ c \in Asks
      /\ trace[c] \in Seq(Events)
  BY DEF IInv, TypeOK, CallOK, TraceOK
<1>2. /\ plan' = [plan EXCEPT ![c] = p] /\ snap' = [snap EXCEPT ![c] = None]
      /\ UNCHANGED <<visible, pinned, args, types>>
  BY DEF Settle, CloseSession, world
<1>3. e \in Events /\ scope \in Events
  BY DEF Events, EventOf
<1>4. o \in Outcomes
  <2>1. args[c].context \in Contexts
    BY <1>1 DEF IInv, TypeOK, Args, NoArgs, Asking
  <2> QED
    BY <2>1 DEF Outcome, Outcomes
<1>5. CASE p = Declined \/ NeedsScopeConfirmation(p)
  <2>1. /\ pc' = [pc EXCEPT ![c] = "ended"] /\ outcome' = [outcome EXCEPT ![c] = o]
        /\ trace' = [trace EXCEPT ![c] = @ \o (IF p = Declined THEN <<e>> ELSE <<e, scope>>)]
    BY <1>5 DEF Settle, End, Goto, Record, Event, EventOf
  <2> HIDE DEF e
  <2>2. /\ trace'[c] \in Seq(Events) /\ trace'[c] = trace[c] \o (IF p = Declined THEN <<e>> ELSE <<e, scope>>)
        /\ Len(trace'[c]) = IF p = Declined THEN 3 ELSE 4
        /\ trace'[c][1] = trace[c][1] /\ trace'[c][2] = trace[c][2] /\ trace'[c][3] = e
        /\ p # Declined => trace'[c][4] = scope
    <3>0. Len(trace[c]) = 2 /\ trace'[c] = trace[c] \o (IF p = Declined THEN <<e>> ELSE <<e, scope>>)
      BY <1>1, <2>1 DEF Done, IInv, TypeOK
    <3>1. CASE p = Declined
      BY <1>1, <1>3, <3>0, <3>1, Appended
    <3>2. CASE p # Declined
      <4>1. trace'[c] = trace[c] \o <<e, scope>>
        BY <3>0, <3>2
      <4> HIDE DEF scope
      <4> DEFINE s == trace[c]
                 t == s \o <<e, scope>>
      <4>2. s \in Seq(Events) /\ Len(s) = 2
        BY <1>1, <3>0
      <4>3. /\ t \in Seq(Events) /\ Len(t) = Len(s) + 2
            /\ t[Len(s) + 1] = e /\ t[Len(s) + 2] = scope
            /\ \A i \in 1 .. Len(s) : t[i] = s[i]
        <5>1. e \in Events /\ scope \in Events /\ s \in Seq(Events)
          BY <1>3, <4>2
        <5> HIDE DEF s
        <5> QED
          BY ONLY <5>1, AppendedTwo
      <4>4. trace'[c] = t
        BY <4>1
      <4> HIDE DEF t
      <4>5. /\ trace'[c] \in Seq(Events) /\ Len(trace'[c]) = 4 /\ trace'[c][3] = e /\ trace'[c][4] = scope
            /\ trace'[c][1] = s[1] /\ trace'[c][2] = s[2]
        BY <4>2, <4>3, <4>4
      <4> QED
        BY <3>0, <3>2, <4>5
    <3> HIDE DEF scope
    <3> QED
      BY <3>1, <3>2
  <2>3. pc'[c] = "ended" /\ outcome'[c] = o /\ snap'[c] = None /\ args'[c] = args[c] /\ types'[c] = types[c]
    BY <1>2, <2>1 DEF IInv, TypeOK
  <2>4. Others(c)
    BY <1>2, <2>1 DEF Others, IInv, TypeOK
  <2>5. TypeOK'
    <3>1. trace' \in [Calls -> Seq(Events)]
      BY <2>1, <2>2 DEF IInv, TypeOK
    <3>2. outcome' \in [Calls -> Outcomes \cup Failures \cup {NoOutcome}]
      BY <1>4, <2>1 DEF IInv, TypeOK
    <3> HIDE DEF o
    <3>3. pc' \in [Calls -> Phases] /\ plan' \in [Calls -> AllPlans \cup {NoPlan}]
          /\ snap' \in [Calls -> (SUBSET Ids) \cup {None}]
      BY <1>2, <2>1 DEF IInv, TypeOK, Phases
    <3> QED
      BY <1>2, <2>3, <2>4, <3>1, <3>2, <3>3, TypesNow, TypeStep DEF IInv
  <2>6. /\ o.status = status /\ o.context = args[c].context /\ o.planning = c /\ o.plan = p
        /\ o.response = NoResponse /\ o # NoOutcome
    BY DEF Outcome, NoOutcome
  <2>7. CallOK(c)' /\ ProposalOK(c)'
    BY <1>1, <2>3, <2>6 DEF IInv, CallOK, ProposalOK, Working, Asking
  <2>8. OutcomeOK(c)'
    BY <1>1, <2>3, <2>6 DEF OutcomeOK, Succeeded, Asking, OfTheQuestion
  <2>9. TraceOK(c)'
    <3>1. LastWord(o) = IF p = Declined THEN "declined" ELSE "awaiting_confirmation"
      BY <2>6 DEF LastWord
    <3>2. e.event = FullTrace[3] /\ e.outcome = word /\ scope.outcome = "awaiting_confirmation"
      BY DEF e, FullTrace
    <3>3. \A i \in 1 .. 2 : /\ trace[c][i].event = FullTrace[i]
                            /\ trace[c][i].outcome \in {"completed", "declined"}
      BY <1>1 DEF Done
    <3>4. \A i \in 1 .. 2 : trace'[c][i] = trace[c][i]
      <4>1. \A i \in 1 .. 2 : i = 1 \/ i = 2
        OBVIOUS
      <4> QED
        BY <2>2, <4>1
    <3>5. \A i \in 1 .. 2 : /\ trace'[c][i].event = FullTrace[i]
                            /\ trace'[c][i].outcome \in {"completed", "declined"}
      BY <3>3, <3>4
    <3>6. trace'[c][3].event = FullTrace[3] /\ trace'[c][3].outcome = word
      BY <2>2, <3>2
    <3> HIDE DEF o, scope
    <3>7. CASE p = Declined
      <4>1. Len(trace'[c]) = 3 /\ trace'[c][3].outcome = LastWord(outcome'[c])
        BY <2>2, <2>3, <3>1, <3>6, <3>7
      <4>2. \A i \in 1 .. 3 : i \in 1 .. 2 \/ i = 3
        OBVIOUS
      <4> QED
        BY <2>3, <3>5, <3>6, <4>1, <4>2 DEF TraceOK, Working
    <3>8. CASE p # Declined
      <4>1. /\ Len(trace'[c]) = 4 /\ trace'[c][3].outcome = "completed"
            /\ trace'[c][4].outcome = LastWord(outcome'[c])
        BY <2>2, <2>3, <3>1, <3>2, <3>6, <3>8
      <4>2. \A i \in 1 .. 4 : i \in 1 .. 2 \/ i = 3 \/ i = 4
        OBVIOUS
      <4> QED
        BY <2>3, <3>5, <3>6, <4>1, <4>2 DEF TraceOK, Working
    <3> QED
      BY <3>7, <3>8
  <2> QED
    BY <1>1, <2>4, <2>5, <2>7, <2>8, <2>9, OneCall
<1>6. CASE p # Declined /\ ~NeedsScopeConfirmation(p)
  <2>1. /\ pc' = [pc EXCEPT ![c] = "execution"] /\ UNCHANGED outcome
        /\ trace' = [trace EXCEPT ![c] = @ \o <<e>>]
    BY <1>6 DEF Settle, Goto, Record, Event, EventOf
  <2>2. Done(c, 3)' /\ trace' \in [Calls -> Seq(Events)]
    <3> DEFINE new == [event |-> "query_resolution", outcome |-> word]
    <3>1. /\ new.event = FullTrace[3] /\ new.outcome \in {"completed", "declined"}
          /\ new = [event |-> new.event, outcome |-> new.outcome]
      BY DEF FullTrace
    <3>2. trace' = [trace EXCEPT ![c] = @ \o <<new>>]
      BY <2>1
    <3> HIDE DEF new
    <3>3. 2 \in 0 .. 2 /\ 3 = 2 + 1
      OBVIOUS
    <3> QED
      BY <1>1, <3>1, <3>2, <3>3, DoneOneMore
  <2>3. /\ pc'[c] = "execution" /\ outcome'[c] = NoOutcome /\ snap'[c] = None /\ args'[c] = args[c]
        /\ plan'[c] = p /\ types'[c] = types[c]
    BY <1>1, <1>2, <2>1 DEF IInv, TypeOK
  <2>4. Others(c)
    BY <1>2, <2>1 DEF Others, IInv, TypeOK
  <2>5. TypeOK'
    BY <1>2, <2>1, <2>2, <2>3, <2>4, TypesNow, TypeStep DEF IInv, Phases
  <2>6. CallOK(c)'
    BY <1>1, <1>6, <2>3 DEF IInv, CallOK, Working, Asking, OfTheQuestion, AllPlans
  <2>7. OutcomeOK(c)' /\ ProposalOK(c)' /\ TraceOK(c)'
    BY <1>1, <2>2, <2>3, EntityAssumption DEF OutcomeOK, ProposalOK, TraceOK, Working, Asking, Succeeded
  <2> QED
    BY <1>1, <2>4, <2>5, <2>6, <2>7, OneCall
<1> QED
  BY <1>5, <1>6

LEMMA ResolveIInv ==
  ASSUME IInv, NEW c \in Calls, Resolve(c) PROVE IInv'
<1>1. /\ pc[c] = "resolution" /\ plan[c] \in AllPlans
      /\ plan[c] # Declined => Literal(plan[c], args[c].question) /\ ~Several(types[c])
  BY DEF Resolve, IInv, CallOK
<1>2. CASE ~HasReferences(plan[c])
  <2>1. plan[c] # Declined => Named(plan[c]) = {}
    BY <1>2 DEF HasReferences
  <2>2. plan[c] # Declined => OfTheQuestion(plan[c], c)
    BY <1>1, <2>1 DEF OfTheQuestion
  <2> QED
    BY <1>1, <1>2, <2>2, SettleIInv DEF Resolve
<1>3. CASE HasReferences(plan[c])
  <2>1. plan[c] \in Plans /\ snap[c] # None /\ snap[c] \in SUBSET Ids
    BY <1>1, <1>3 DEF HasReferences, AllPlans, Resolve, IInv, TypeOK
  <2>2. CASE Fail(c, "not_found")
    BY <1>1, <2>2, FailIInv DEF FailureKinds
  <2>3. CASE Settle(c, Declined)
    BY <1>1, <2>3, SettleIInv DEF AllPlans
  <2>4. ASSUME \A i \in DOMAIN SlotsOf[plan[c].operation] : Clear(plan[c], i, snap[c]),
               Settle(c, Resolved(plan[c], snap[c]))
        PROVE  IInv'
    <3> DEFINE p == Resolved(plan[c], snap[c])
    <3>1. /\ p \in Plans
          /\ \A k \in Named(p) : k \in Named(plan[c]) /\ p.refs[k] \in Matches(k, plan[c].refs[k], snap[c])
      BY <2>1, <2>4, ResolvedPlan DEF Matches
    <3> HIDE DEF p
    <3>2. ASSUME NEW k \in Named(p)
          PROVE  /\ p.refs[k] \in Ids /\ KindOf[p.refs[k]] = k
                 /\ (NamesOf[p.refs[k]] \cup {p.refs[k]}) \cap args[c].question.text # {}
      <4>1. plan[c].refs[k] \in args[c].question.text
        BY <1>1, <2>1, <3>1, PlanShape DEF Literal
      <4> QED
        BY <2>1, <3>1, <4>1 DEF Matches
    <3>3. OfTheQuestion(p, c)
      BY <1>1, <2>1, <3>2, PlanShape DEF OfTheQuestion
    <3> QED
      BY <1>1, <2>4, <3>1, <3>3, SettleIInv DEF AllPlans, p
  <2> QED
    BY <1>3, <2>2, <2>3, <2>4 DEF Resolve, View
<1> QED
  BY <1>2, <1>3

-----------------------------------------------------------------------------
\* What a caller has been given has the type of an outcome.
LEMMA GivenOutcomes ==
  ASSUME IInv, NEW o \in Given
  PROVE  /\ o \in Outcomes /\ o = Outcome(o.context, o.planning, o.status, o.plan, o.response)
         /\ \E d \in Calls : Succeeded(d) /\ outcome[d] = o
<1>1. PICK d \in Calls : pc[d] = "ended" /\ outcome[d].status # "failed" /\ outcome[d] = o
  BY DEF Given
<1>2. outcome[d] # NoOutcome /\ outcome[d] \in Outcomes \cup Failures \cup {NoOutcome}
  BY <1>1 DEF IInv, TypeOK, CallOK
<1>3. outcome[d] \in Outcomes
  BY <1>1, <1>2 DEF Failures
<1>4. o = Outcome(o.context, o.planning, o.status, o.plan, o.response)
  BY <1>1, <1>3 DEF Outcomes, Outcome
<1> QED
  BY <1>1, <1>3, <1>4 DEF Succeeded

LEMMA ConfirmScopeIInv ==
  ASSUME IInv, NEW c \in Confirms, NEW context \in Contexts, NEW proposal \in Given,
         NEW approved \in Approvals, ConfirmScope(c, context, proposal, approved)
  PROVE  IInv'
<1> DEFINE a == [kind |-> "confirm", context |-> context, proposal |-> proposal, approved |-> approved]
<1>1. c \in Calls /\ c \notin Asks
  BY EntityAssumption DEF Calls
<1>2. /\ pc[c] = "idle" /\ args' = [args EXCEPT ![c] = a]
      /\ UNCHANGED <<visible, pinned, types, snap, trace>>
      /\ \/ /\ Confirmable(context, proposal, approved) /\ UNCHANGED outcome
            /\ pc' = [pc EXCEPT ![c] = "execution"] /\ plan' = [plan EXCEPT ![c] = approved]
         \/ /\ pc' = [pc EXCEPT ![c] = "ended"] /\ UNCHANGED plan
            /\ outcome' = [outcome EXCEPT ![c] = Failure("invalid_plan")]
  BY DEF ConfirmScope, End, Goto, world
<1>3. args[c] = NoArgs /\ trace[c] = << >> /\ outcome[c] = NoOutcome /\ snap[c] = None
  BY <1>1, <1>2 DEF IInv, CallOK, TypeOK, NeedsSession
<1>4. proposal \in Outcomes /\ approved \in AllPlans
  <2>1. \A o \in Given : o.plan \in AllPlans
    BY GivenOutcomes DEF Outcomes
  <2> QED
    BY <2>1, GivenOutcomes DEF Approvals, AllPlans
<1>5. a \in Args /\ Failure("invalid_plan") \in Failures
  BY <1>4 DEF Args, Failure, Failures, FailureKinds
<1>6. a.kind = "confirm" /\ a.context = context /\ a.proposal = proposal /\ a.approved = approved
  OBVIOUS
<1> HIDE DEF a
<1>7. /\ args'[c] = a /\ trace'[c] = << >> /\ snap'[c] = None
      /\ \/ /\ Confirmable(context, proposal, approved) /\ outcome'[c] = NoOutcome
            /\ pc'[c] = "execution" /\ plan'[c] = approved
         \/ pc'[c] = "ended" /\ outcome'[c] = Failure("invalid_plan")
  BY <1>1, <1>2, <1>3 DEF IInv, TypeOK
<1>8. Others(c)
  BY <1>2 DEF Others, IInv, TypeOK
<1>9. TypeOK'
  <2>1. pc' \in [Calls -> Phases]
    BY <1>2, TypesNow DEF IInv, Phases
  <2>2. args' \in [Calls -> Args \cup {NoArgs}]
    BY <1>2, <1>5, TypesNow DEF IInv
  <2>3. plan' \in [Calls -> AllPlans \cup {NoPlan}]
    BY <1>2, <1>4, TypesNow DEF IInv
  <2>4. outcome' \in [Calls -> Outcomes \cup Failures \cup {NoOutcome}]
    BY <1>2, <1>5, TypesNow DEF IInv
  <2> QED
    BY <1>1, <1>2, <1>7, <1>8, <2>1, <2>2, <2>3, <2>4, TypesNow, TypeStep DEF IInv
<1>10. CallOK(c)'
  <2>1. Confirmable(context, proposal, approved) => approved \in Plans
    BY <1>4 DEF Confirmable, AllPlans
  <2> QED
    BY <1>1, <1>6, <1>7, <2>1 DEF CallOK, Asking, Working, Failure, NoOutcome
<1>11. OutcomeOK(c)' /\ TraceOK(c)'
  BY <1>1, <1>6, <1>7 DEF OutcomeOK, TraceOK, Succeeded, Working, Asking, Failure
<1>12. ProposalOK(c)'
  <2>1. CASE pc'[c] = "ended" /\ outcome'[c] = Failure("invalid_plan")
    BY <2>1 DEF ProposalOK, Working, Succeeded, Failure
  <2>2. CASE Confirmable(context, proposal, approved) /\ pc'[c] = "execution"
    <3>1. PICK d \in Calls : Succeeded(d) /\ outcome[d] = proposal
      BY GivenOutcomes
    <3>2. /\ proposal.status = "awaiting_confirmation" /\ proposal.context = context
          /\ proposal.response = NoResponse /\ approved # Declined /\ approved = proposal.plan
      BY <2>2 DEF Confirmable
    <3>3. d \in Asks /\ proposal.planning = d
      BY <3>1, <3>2 DEF IInv, OutcomeOK, CallOK
    <3>4. d # c /\ Succeeded(d)' /\ outcome'[d] = proposal
      BY <1>1, <1>8, <3>1, <3>3 DEF Others, Succeeded
    <3>5. proposal = Outcome(context, d, "awaiting_confirmation", approved, NoResponse)
      BY <3>2, <3>3, GivenOutcomes
    <3> QED
      BY <1>6, <1>7, <3>2, <3>3, <3>4, <3>5 DEF ProposalOK
  <2> QED
    BY <1>7, <2>1, <2>2
<1> QED
  BY <1>1, <1>2, <1>8, <1>9, <1>10, <1>11, <1>12, OneCall

LEMMA CheckIInv ==
  ASSUME IInv, NEW c \in Calls, Check(c) PROVE IInv'
<1>1. pc[c] = "execution" /\ snap[c] # None
  BY DEF Check
<1>2. CASE ~StillVisible(plan[c], View(c))
  BY <1>1, <1>2, FailIInv DEF Check, FailureKinds
<1>3. CASE StillVisible(plan[c], View(c))
  <2>1. /\ pc' = [pc EXCEPT ![c] = "reading"]
        /\ UNCHANGED <<visible, pinned, args, types, plan, snap, outcome, trace>>
    BY <1>3 DEF Check, Goto, world
  <2>2. Others(c) /\ pc'[c] = "reading"
    BY <2>1 DEF Others, IInv, TypeOK
  <2>3. TypeOK'
    BY <2>1, <2>2, TypesNow, TypeStep DEF IInv, Phases
  <2>4. CallOK(c)'
    BY <1>1, <1>3, <2>1, <2>2 DEF IInv, CallOK, Asking, Working, OfTheQuestion, View
  <2>5. OutcomeOK(c)' /\ ProposalOK(c)' /\ TraceOK(c)'
    BY <1>1, <2>1, <2>2 DEF IInv, OutcomeOK, ProposalOK, TraceOK, Done, Succeeded, Asking, Working
  <2> QED
    BY <1>1, <2>2, <2>3, <2>4, <2>5, OneCall
<1> QED
  BY <1>2, <1>3

LEMMA ReadIInv ==
  ASSUME IInv, NEW c \in Calls, Read(c) PROVE IInv'
<1> DEFINE response == [seen |-> snap[c], plan |-> plan[c], context |-> args[c].context]
           asked == Outcome(args[c].context, c, "not_required", plan[c], response)
           confirmed == [args[c].proposal EXCEPT !.status = "confirmed", !.response = response]
           o == IF args[c].kind = "ask" THEN asked ELSE confirmed
           e == [event |-> "query_execution", outcome |-> "completed"]
<1>1. /\ pc[c] = "reading" /\ Working(c) /\ args[c].kind \in {"ask", "confirm"} /\ outcome[c] = NoOutcome
      /\ plan[c] \in Plans /\ snap[c] # None /\ snap[c] \subseteq Ids /\ trace[c] \in Seq(Events)
      /\ StillVisible(plan[c], snap[c])
      /\ args[c].kind = "ask" => /\ c \in Asks /\ ~NeedsScopeConfirmation(plan[c])
                                 /\ OfTheQuestion(plan[c], c) /\ Done(c, 3)
      /\ args[c].kind = "confirm" => plan[c] = args[c].approved /\ trace[c] = << >> /\ c \notin Asks
  BY EntityAssumption DEF Read, IInv, TypeOK, CallOK, TraceOK, Working, Asking
<1>2. /\ pc' = [pc EXCEPT ![c] = "ended"] /\ outcome' = [outcome EXCEPT ![c] = o]
      /\ snap' = [snap EXCEPT ![c] = None] /\ UNCHANGED <<visible, pinned, args, types, plan>>
      /\ trace' = [trace EXCEPT ![c] = @ \o <<e>>]
  BY <1>1 DEF Read, End, Goto, Record, Event, EventOf, CloseSession, View, world
<1>3. args[c].context \in Contexts
  BY <1>1 DEF IInv, TypeOK, Args, NoArgs
<1>4. response \in Responses /\ response # NoResponse
  <2>1. response.seen # NoResponse.seen
    BY <1>1 DEF NoResponse
  <2> QED
    BY <1>1, <1>3, <2>1 DEF Responses
<1>5. /\ response.seen = snap[c] /\ response.plan = plan[c] /\ response.context = args[c].context
  OBVIOUS
<1> HIDE DEF response
<1>6. /\ o \in Outcomes /\ o.response = response /\ o.plan = plan[c] /\ o.context = args[c].context
      /\ args[c].kind = "ask" => o.planning = c /\ o.status = "not_required"
      /\ args[c].kind = "confirm" => o.planning = args[c].proposal.planning /\ o.status = "confirmed"
  <2>1. CASE args[c].kind = "ask"
    <3>1. o = asked
      BY <2>1
    <3>2. /\ asked \in Outcomes /\ asked.response = response /\ asked.plan = plan[c]
          /\ asked.context = args[c].context /\ asked.planning = c /\ asked.status = "not_required"
      BY <1>1, <1>3, <1>4 DEF Outcome, Outcomes, AllPlans
    <3> HIDE DEF asked, o
    <3> QED
      BY <2>1, <3>1, <3>2
  <2>2. CASE args[c].kind = "confirm"
    <3> DEFINE q == args[c].proposal
    <3>1. q = Outcome(args[c].context, q.planning, "awaiting_confirmation", plan[c], NoResponse) /\ q.planning \in Asks
      BY <1>1, <2>2 DEF IInv, ProposalOK
    <3>2. o = [q EXCEPT !.status = "confirmed", !.response = response]
      BY <2>2
    <3> HIDE DEF q, o
    <3>3. /\ q \in Outcomes /\ q.context = args[c].context /\ q.plan = plan[c]
      BY <1>1, <1>3, <3>1 DEF Outcome, Outcomes, AllPlans, Calls
    <3>4. /\ o \in Outcomes /\ o.status = "confirmed" /\ o.response = response
          /\ o.context = q.context /\ o.planning = q.planning /\ o.plan = q.plan
      BY <1>4, <3>2, <3>3 DEF Outcomes
    <3> QED
      BY <2>2, <3>3, <3>4 DEF q
  <2> QED
    BY <1>1, <2>1, <2>2
<1> HIDE DEF o
<1>7. e \in Events
  BY DEF Events, EventOf
<1>8. e.outcome = "completed"
  OBVIOUS
<1> HIDE DEF e
<1>9. pc'[c] = "ended" /\ outcome'[c] = o /\ snap'[c] = None /\ trace'[c] = trace[c] \o <<e>>
  BY <1>2 DEF IInv, TypeOK
<1>10. /\ trace'[c] \in Seq(Events) /\ Len(trace'[c]) = Len(trace[c]) + 1
       /\ trace'[c][Len(trace[c]) + 1] = e /\ \A i \in 1 .. Len(trace[c]) : trace'[c][i] = trace[c][i]
  BY <1>1, <1>7, <1>9, Appended
<1>11. Others(c)
  BY <1>2 DEF Others, IInv, TypeOK
<1>12. TypeOK'
  <2>1. /\ pc' \in [Calls -> Phases] /\ outcome' \in [Calls -> Outcomes \cup Failures \cup {NoOutcome}]
        /\ snap' \in [Calls -> (SUBSET Ids) \cup {None}] /\ trace' \in [Calls -> Seq(Events)]
    BY <1>2, <1>6, <1>9, <1>10 DEF IInv, TypeOK, Phases
  <2> QED
    BY <1>2, <1>9, <1>11, <2>1, TypesNow, TypeStep DEF IInv
<1>13. plan[c] # Declined /\ o # NoOutcome
  BY <1>1, <1>6, PlanShape DEF Outcomes, NoOutcome
<1>14. CallOK(c)'
  BY <1>1, <1>2, <1>9, <1>13 DEF IInv, CallOK, Asking, Working
<1>15. OutcomeOK(c)'
  <2>1. args[c].kind = "confirm" => plan[c] = args[c].approved
    BY <1>1
  <2>2. response # NoResponse /\ args' = args /\ types' = types
    BY <1>2, <1>4
  <2>3. (Asking(c)' <=> Asking(c)) /\ (Asking(c) <=> args[c].kind = "ask")
    BY <2>2 DEF Asking
  <2>6. StillVisible(o.plan, o.response.seen)
    BY <1>1, <1>5, <1>6
  <2>4. CASE Asking(c)
    <3>1. ~NeedsScopeConfirmation(plan[c]) /\ OfTheQuestion(plan[c], c)
      BY <1>1, <2>3, <2>4
    <3>2. o.planning = c /\ o.status = "not_required"
      BY <1>6, <2>3, <2>4
    <3> QED
      BY <1>5, <1>6, <1>9, <1>13, <2>2, <2>3, <2>4, <2>6, <3>1, <3>2 DEF OutcomeOK, OfTheQuestion
  <2>5. CASE ~Asking(c)
    <3>1. args[c].kind = "confirm"
      BY <1>1, <2>3, <2>5
    <3> QED
      BY <1>5, <1>6, <1>9, <1>13, <2>1, <2>2, <2>3, <2>5, <2>6, <3>1 DEF OutcomeOK
  <2> QED
    BY <2>4, <2>5
<1>16. ProposalOK(c)'
  <2>1. CASE args[c].kind = "confirm"
    <3> DEFINE q == args[c].proposal
    <3>1. /\ q.planning \in Asks /\ Succeeded(q.planning) /\ outcome[q.planning] = q
          /\ q = Outcome(args[c].context, q.planning, "awaiting_confirmation", args[c].approved, NoResponse)
          /\ args[c].approved # Declined
      BY <1>1, <2>1 DEF IInv, ProposalOK
    <3>2. pc'[q.planning] = "ended" /\ outcome'[q.planning] = q /\ q.status # "failed"
      BY <1>1, <1>11, <3>1 DEF Others, Succeeded, Calls
    <3> QED
      BY <1>2, <3>1, <3>2 DEF ProposalOK, Succeeded
  <2>2. CASE args[c].kind = "ask"
    BY <1>2, <2>2 DEF ProposalOK
  <2> QED
    BY <1>1, <2>1, <2>2
<1>17. TraceOK(c)'
  <2>1. LastWord(o) = "completed"
    BY <1>1, <1>4, <1>6 DEF LastWord
  <2>2. CASE args[c].kind = "ask"
    <3>1. /\ Len(trace[c]) = 3
          /\ \A i \in 1 .. 3 : /\ trace[c][i].event = FullTrace[i]
                               /\ trace[c][i].outcome \in {"completed", "declined"}
      BY <1>1, <2>2 DEF Done
    <3>2. Len(trace'[c]) = 4 /\ trace'[c][4].outcome = LastWord(outcome'[c])
      BY <1>8, <1>9, <1>10, <2>1, <3>1
    <3>3. \A i \in 1 .. 3 : /\ trace'[c][i].event = FullTrace[i]
                            /\ trace'[c][i].outcome \in {"completed", "declined"}
      BY <1>10, <3>1
    <3>4. \A i \in 1 .. 4 : i \in 1 .. 3 \/ i = 4
      OBVIOUS
    <3> QED
      BY <1>9, <3>2, <3>3, <3>4 DEF TraceOK, Working
  <2>3. CASE args[c].kind = "confirm"
    <3>1. Len(trace'[c]) = 1 /\ trace'[c][1].outcome = LastWord(outcome'[c]) /\ c \notin Asks
      BY <1>1, <1>8, <1>9, <1>10, <2>1, <2>3
    <3> QED
      BY <1>9, <3>1 DEF TraceOK, Working
  <2> QED
    BY <1>1, <2>2, <2>3
<1> QED
  BY <1>1, <1>11, <1>12, <1>14, <1>15, <1>16, <1>17, OneCall

LEMMA StepIInv ==
  ASSUME IInv, NEW c \in Calls, Step(c) PROVE IInv'
<1>1. CASE PlanningFails(c)
  BY <1>1, FailIInv DEF PlanningFails, FailureKinds
<1>2. CASE AnyPropose(c)
  BY <1>2, ProposeIInv DEF AnyPropose
<1>3. CASE DatabaseFails(c)
  <2>1. pc[c] \in {"grounding", "resolution", "execution", "reading"}
    BY <1>3 DEF DatabaseFails, NeedsSession
  <2> QED
    BY <1>3, <2>1, FailIInv DEF DatabaseFails, FailureKinds
<1>4. CASE ReadTooMuch(c)
  BY <1>4, FailIInv DEF ReadTooMuch, FailureKinds
<1> QED
  BY <1>1, <1>2, <1>3, <1>4, OpenSessionIInv, GroundIInv, ResolveIInv, CheckIInv, ReadIInv
     DEF Step, Progress

LEMMA NextIInv == IInv /\ [Next]_vars => IInv'
<1> SUFFICES ASSUME IInv, [Next]_vars PROVE IInv'
  OBVIOUS
<1>1. ASSUME NEW c \in Asks, AnyAsk(c) PROVE IInv'
  BY <1>1, AskIInv DEF AnyAsk
<1>2. ASSUME NEW c \in Confirms, AnyConfirm(c) PROVE IInv'
  BY <1>2, ConfirmScopeIInv DEF AnyConfirm
<1>3. ASSUME NEW id \in Ids, Change(id) PROVE IInv'
  BY <1>3, WorldStep DEF Change, IInv, TypeOK
<1>4. ASSUME NEW release \in SUBSET Catalog, Pin(release) PROVE IInv'
  BY <1>4, WorldStep DEF Pin, Catalog, IInv, TypeOK
<1>5. CASE UNCHANGED vars
  BY <1>5, WorldStep DEF vars, IInv, TypeOK
<1> QED
  BY <1>1, <1>2, <1>3, <1>4, <1>5, StepIInv DEF Next

LEMMA IInvAlways == Spec => []IInv
<1>1. IInv /\ [Next]_vars => IInv'
  BY NextIInv
<1> QED
  BY <1>1, InitIInv, PTL DEF Spec

-----------------------------------------------------------------------------
\* The variables keep their types, and no call holds a session, and with it a connection of
\* the pool, while it waits for the model or after it has ended.
THEOREM TypeCorrect == Spec => []TypeOK
<1>1. IInv => TypeOK
  BY DEF IInv
<1> QED
  BY <1>1, IInvAlways, PTL

\* No plan that ranges over facilities is executed without its caller's approval of that
\* plan, in the context in which an ask of its own proposed it.
THEOREM ScopeCorrect == Spec => []ScopeIsApproved
<1>1. IInv => ScopeIsApproved
  <2> SUFFICES ASSUME IInv, NEW c \in Calls, Answered(c)
               PROVE  LET o == outcome[c]
                      IN  /\ o.response.plan = o.plan /\ o.response.context = o.context
                          /\ o.context = args[c].context
                          /\ SpansFacilities(o.plan) =>
                               /\ o.status = "confirmed" /\ args[c].kind = "confirm"
                               /\ args[c].approved = o.plan
                               /\ outcome[o.planning] = Outcome(o.context, o.planning,
                                     "awaiting_confirmation", o.plan, NoResponse)
    BY DEF ScopeIsApproved
  <2> DEFINE o == outcome[c]
  <2>1. Succeeded(c) /\ o.response # NoResponse /\ args[c].kind \in {"ask", "confirm"}
    BY DEF Answered, Succeeded, IInv, CallOK
  <2>2. /\ o.plan # Declined /\ o.response.plan = o.plan /\ o.response.context = o.context
        /\ o.context = args[c].context
        /\ Asking(c) => ~NeedsScopeConfirmation(o.plan)
    <3>1. OutcomeOK(c)
      BY DEF IInv
    <3>2. Asking(c) => o.context = args[c].context
      BY <2>1, <3>1 DEF OutcomeOK
    <3>3. ~Asking(c) => o.context = args[c].context
      BY <2>1, <3>1 DEF OutcomeOK
    <3> QED
      BY <2>1, <3>1, <3>2, <3>3 DEF OutcomeOK
  <2>3. o.plan \in Plans
    <3>1. o \in Given
      BY <2>1 DEF Given, Succeeded
    <3>2. o \in Outcomes
      BY <3>1, GivenOutcomes
    <3> QED
      BY <2>2, <3>2 DEF Outcomes, AllPlans
  <2> HIDE DEF o
  <2>4. SpansFacilities(o.plan) => args[c].kind = "confirm"
    BY <2>1, <2>2, <2>3, SpanningNeedsConfirmation DEF Asking
  <2>5. ASSUME args[c].kind = "confirm"
        PROVE  /\ o.status = "confirmed" /\ args[c].approved = o.plan
               /\ outcome[o.planning] = Outcome(o.context, o.planning, "awaiting_confirmation",
                                                o.plan, NoResponse)
    <3>1. /\ o.status = "confirmed" /\ o.plan = args[c].approved
          /\ o.planning = args[c].proposal.planning
      BY <2>1, <2>5 DEF IInv, OutcomeOK, Asking, o
    <3>2. /\ outcome[args[c].proposal.planning] = args[c].proposal
          /\ args[c].proposal = Outcome(args[c].context, args[c].proposal.planning,
                                        "awaiting_confirmation", args[c].approved, NoResponse)
      BY <2>1, <2>5 DEF IInv, ProposalOK
    <3> QED
      BY <2>2, <3>1, <3>2
  <2> QED
    BY <2>2, <2>4, <2>5 DEF o
<1> QED
  BY <1>1, IInvAlways, PTL

\* A plan that has reached a caller names only records that the question of its own ask
\* names, whatever the model proposed.
THEOREM PlanCorrect == Spec => []PlanIsOfTheQuestion
<1>1. IInv => PlanIsOfTheQuestion
  <2> SUFFICES ASSUME IInv, NEW c \in Calls, Succeeded(c), outcome[c].plan # Declined
               PROVE  OfTheQuestion(outcome[c].plan, outcome[c].planning)
    BY DEF PlanIsOfTheQuestion, OfTheQuestion, Several
  <2>1. CASE Asking(c)
    BY <2>1 DEF IInv, OutcomeOK
  <2>2. CASE ~Asking(c)
    <3> DEFINE d == args[c].proposal.planning
    <3>1. args[c].kind = "confirm"
      BY <2>2 DEF IInv, CallOK, Succeeded, Asking
    <3>2. outcome[c].planning = d /\ outcome[c].plan = args[c].approved
      BY <2>2 DEF IInv, OutcomeOK
    <3>0. /\ d \in Asks /\ Succeeded(d) /\ outcome[d] = args[c].proposal
          /\ args[c].proposal = Outcome(args[c].context, d, "awaiting_confirmation", args[c].approved,
                                        NoResponse)
      BY <3>1 DEF IInv, ProposalOK
    <3> HIDE DEF d
    <3>3. /\ d \in Asks /\ Succeeded(d) /\ outcome[d].status = "awaiting_confirmation"
          /\ outcome[d].plan = args[c].approved
      BY <3>0 DEF Outcome
    <3>4. Asking(d) /\ d \in Calls
      BY <3>3 DEF IInv, OutcomeOK, Calls
    <3> QED
      BY <3>2, <3>3, <3>4 DEF IInv, OutcomeOK
  <2> QED
    BY <2>1, <2>2
<1> QED
  BY <1>1, IInvAlways, PTL

\* The trace tells how a call ended, and in which block.
THEOREM TraceCorrect == Spec => []TraceTellsTheCall
<1>1. IInv => TraceTellsTheCall
  <2> SUFFICES ASSUME IInv, NEW c \in Calls
               PROVE  LET n == Len(trace[c])
                      IN  /\ \A i \in 1 .. n : /\ c \in Asks /\ i <= 3 => trace[c][i].event = FullTrace[i]
                                               /\ i < n => trace[c][i].outcome \in {"completed", "declined"}
                          /\ pc[c] = "ended" => IF n = 0 THEN outcome[c] = Failure("invalid_plan")
                                                ELSE trace[c][n].outcome = LastWord(outcome[c])
    BY DEF TraceTellsTheCall
  <2>1. CASE pc[c] = "ended"
    BY <2>1 DEF IInv, TraceOK
  <2>2. CASE pc[c] = "idle"
    BY <2>2 DEF IInv, CallOK
  <2>3. CASE pc[c] \in {"grounding", "planning", "resolution", "execution", "reading"}
    <3>1. trace[c] = << >> \/ \E n \in 0 .. 3 : Done(c, n)
      BY <2>3 DEF IInv, TraceOK, Working
    <3> QED
      BY <2>3, <3>1 DEF Done
  <2> QED
    BY <2>1, <2>2, <2>3 DEF IInv, TypeOK, Phases
<1> QED
  BY <1>1, IInvAlways, PTL

-----------------------------------------------------------------------------
(***************************************************************************)
(* How far a call has come: its phase, and whether its session is open.    *)
(***************************************************************************)
Stage(c) ==
  LET open == IF snap[c] = None THEN 0 ELSE 1
  IN  CASE pc[c] = "idle"       -> 0
        [] pc[c] = "grounding"  -> 1 + open
        [] pc[c] = "planning"   -> 3
        [] pc[c] = "resolution" -> 4 + open
        [] pc[c] = "execution"  -> 6 + open
        [] pc[c] = "reading"    -> 8
        [] pc[c] = "ended"      -> 9

CallState(c) == <<pc[c], args[c], types[c], plan[c], snap[c], outcome[c], trace[c]>>

OnlyForward == \A c \in Calls : CallState(c)' = CallState(c) \/ Stage(c)' > Stage(c)

\* Every phase is later than the one before it, with its session open or not.
LEMMA PhaseStep ==
  ASSUME NEW c \in Calls, <<pc[c], pc'[c]>> \in {<<"idle", "grounding">>, <<"idle", "execution">>,
           <<"grounding", "planning">>, <<"planning", "resolution">>, <<"resolution", "execution">>,
           <<"execution", "reading">>}
  PROVE  Stage(c)' > Stage(c)
<1> DEFINE open == IF snap[c] = None THEN 0 ELSE 1
<1>1. open \in {0, 1}
  OBVIOUS
<1>2. \/ pc[c] = "idle" /\ pc'[c] \in {"grounding", "execution"}
      \/ pc[c] = "grounding" /\ pc'[c] = "planning"
      \/ pc[c] = "planning" /\ pc'[c] = "resolution"
      \/ pc[c] = "resolution" /\ pc'[c] = "execution"
      \/ pc[c] = "execution" /\ pc'[c] = "reading"
  OBVIOUS
<1> QED
  BY <1>2 DEF Stage

LEMMA EndStep ==
  ASSUME NEW c \in Calls, pc[c] \in Phases \ {"ended"}, pc'[c] = "ended"
  PROVE  Stage(c)' > Stage(c)
BY DEF Stage, Phases

LEMMA FailForward ==
  ASSUME IInv, NEW c \in Calls, pc[c] # "ended", NEW kind, Fail(c, kind)
  PROVE  Stage(c)' > Stage(c) /\ Others(c)
<1>1. /\ pc' = [pc EXCEPT ![c] = "ended"] /\ outcome' = [outcome EXCEPT ![c] = Failure(kind)]
      /\ \E events : trace' = [trace EXCEPT ![c] = @ \o events]
      /\ snap' = [snap EXCEPT ![c] = None] /\ UNCHANGED <<args, types, plan>>
  BY DEF Fail, End, Goto, Record, CloseSession
<1>2. pc'[c] = "ended" /\ pc[c] \in Phases \ {"ended"}
  BY <1>1 DEF IInv, TypeOK
<1>3. Others(c)
  BY <1>1 DEF IInv, TypeOK, Others
<1> QED
  BY <1>2, <1>3, EndStep

LEMMA SettleForward ==
  ASSUME IInv, NEW c \in Calls, pc[c] = "resolution", NEW p, Settle(c, p)
  PROVE  Stage(c)' > Stage(c) /\ Others(c)
<1>1. /\ pc' = [pc EXCEPT ![c] = "ended"] \/ pc' = [pc EXCEPT ![c] = "execution"]
      /\ \/ UNCHANGED outcome
         \/ \E o : outcome' = [outcome EXCEPT ![c] = o]
      /\ \E events : trace' = [trace EXCEPT ![c] = @ \o events]
      /\ plan' = [plan EXCEPT ![c] = p] /\ snap' = [snap EXCEPT ![c] = None]
      /\ UNCHANGED <<args, types>>
  BY Zenon DEF Settle, End, Goto, Record, CloseSession
<1>2. Others(c)
  BY <1>1 DEF IInv, TypeOK, Others
<1>3. pc'[c] \in {"ended", "execution"}
  BY <1>1 DEF IInv, TypeOK
<1> QED
  BY <1>2, <1>3, EndStep, PhaseStep DEF Phases

LEMMA AskForward ==
  ASSUME IInv, NEW c \in Calls, AnyAsk(c) \/ AnyConfirm(c)
  PROVE  Stage(c)' > Stage(c) /\ Others(c)
<1>1. /\ pc[c] = "idle"
      /\ \E phase \in {"grounding", "execution", "ended"} : pc' = [pc EXCEPT ![c] = phase]
      /\ \/ UNCHANGED outcome
         \/ \E o : outcome' = [outcome EXCEPT ![c] = o]
      /\ \/ UNCHANGED plan
         \/ \E p : plan' = [plan EXCEPT ![c] = p]
      /\ \E a : args' = [args EXCEPT ![c] = a]
      /\ UNCHANGED <<types, snap, trace>>
  <2>1. CASE AnyAsk(c)
    BY <2>1 DEF AnyAsk, Ask, End, Goto
  <2>2. CASE AnyConfirm(c)
    BY <2>2 DEF AnyConfirm, ConfirmScope, End, Goto
  <2> QED
    BY <2>1, <2>2
<1>2. Others(c)
  BY <1>1 DEF IInv, TypeOK, Others
<1>3. pc'[c] \in {"grounding", "execution", "ended"}
  BY <1>1 DEF IInv, TypeOK
<1> QED
  BY <1>1, <1>2, <1>3, EndStep, PhaseStep DEF Phases

LEMMA StepForward ==
  ASSUME IInv, NEW c \in Calls, Step(c)
  PROVE  Stage(c)' > Stage(c) /\ Others(c)
<1>1. CASE OpenSession(c)
  <2>1. pc[c] \in {"grounding", "resolution", "execution"} /\ snap[c] = None
    BY <1>1 DEF OpenSession, NeedsSession
  <2>2. CASE pinned
    <3>1. snap' = [snap EXCEPT ![c] = visible] /\ UNCHANGED <<pc, args, types, plan, outcome, trace>>
      BY <1>1, <2>2 DEF OpenSession
    <3>2. snap'[c] # None /\ pc'[c] = pc[c]
      BY <3>1, EntityAssumption DEF IInv, TypeOK
    <3>3. Others(c)
      BY <3>1 DEF IInv, TypeOK, Others
    <3> QED
      BY <2>1, <3>2, <3>3 DEF Stage
  <2>3. CASE ~pinned
    BY <1>1, <2>1, <2>3, FailForward DEF OpenSession
  <2> QED
    BY <2>2, <2>3
<1>2. CASE Ground(c)
  <2>1. pc[c] = "grounding" /\ ((\E kind : Fail(c, kind)) \/ \E candidates : Grounded(c, candidates))
    BY <1>2 DEF Ground
  <2>2. ASSUME NEW candidates, Grounded(c, candidates) PROVE Stage(c)' > Stage(c) /\ Others(c)
    <3>1. /\ pc' = [pc EXCEPT ![c] = "planning"] /\ types' = [types EXCEPT ![c] = candidates]
          /\ \E events : trace' = [trace EXCEPT ![c] = @ \o events]
          /\ snap' = [snap EXCEPT ![c] = None] /\ UNCHANGED <<args, plan, outcome>>
      BY <2>2 DEF Grounded, Goto, Record, CloseSession
    <3>2. Others(c) /\ pc'[c] = "planning"
      BY <3>1 DEF IInv, TypeOK, Others
    <3> QED
      BY <2>1, <3>2, PhaseStep
  <2> QED
    BY <2>1, <2>2, FailForward
<1>3. CASE AnyPropose(c)
  <2>1. pc[c] = "planning" /\ ((\E kind : Fail(c, kind)) \/ \E p : Planned(c, p))
    BY <1>3 DEF AnyPropose, Propose
  <2>2. ASSUME NEW p, Planned(c, p) PROVE Stage(c)' > Stage(c) /\ Others(c)
    <3>1. /\ pc' = [pc EXCEPT ![c] = "resolution"] /\ plan' = [plan EXCEPT ![c] = p]
          /\ \E events : trace' = [trace EXCEPT ![c] = @ \o events]
          /\ UNCHANGED <<args, types, snap, outcome>>
      BY <2>2 DEF Planned, Goto, Record
    <3>2. Others(c) /\ pc'[c] = "resolution"
      BY <3>1 DEF IInv, TypeOK, Others
    <3> QED
      BY <2>1, <3>2, PhaseStep
  <2> QED
    BY <2>1, <2>2, FailForward
<1>4. CASE PlanningFails(c)
  BY <1>4, FailForward DEF PlanningFails
<1>5. CASE Resolve(c)
  <2>1. pc[c] = "resolution" /\ ((\E kind : Fail(c, kind)) \/ \E p : Settle(c, p))
    BY <1>5, Zenon DEF Resolve
  <2> QED
    BY <2>1, FailForward, SettleForward
<1>6. CASE Check(c)
  <2>1. pc[c] = "execution"
    BY <1>6 DEF Check
  <2>2. CASE StillVisible(plan[c], View(c))
    <3>1. pc' = [pc EXCEPT ![c] = "reading"] /\ UNCHANGED <<args, types, plan, snap, outcome, trace>>
      BY <1>6, <2>2 DEF Check, Goto
    <3>2. Others(c) /\ pc'[c] = "reading"
      BY <3>1 DEF IInv, TypeOK, Others
    <3> QED
      BY <2>1, <3>2, PhaseStep
  <2>3. CASE ~StillVisible(plan[c], View(c))
    BY <1>6, <2>1, <2>3, FailForward DEF Check
  <2> QED
    BY <2>2, <2>3
<1>7. CASE Read(c)
  <2>1. /\ pc[c] = "reading" /\ pc' = [pc EXCEPT ![c] = "ended"]
        /\ \E o : outcome' = [outcome EXCEPT ![c] = o]
        /\ \E events : trace' = [trace EXCEPT ![c] = @ \o events]
        /\ snap' = [snap EXCEPT ![c] = None] /\ UNCHANGED <<args, types, plan>>
    BY <1>7, Zenon DEF Read, End, Goto, Record, CloseSession
  <2>2. Others(c) /\ pc'[c] = "ended"
    BY <2>1 DEF IInv, TypeOK, Others
  <2> QED
    BY <2>1, <2>2, EndStep DEF Phases
<1>8. CASE DatabaseFails(c)
  <2>1. pc[c] # "ended"
    BY <1>8 DEF DatabaseFails, NeedsSession
  <2> QED
    BY <1>8, <2>1, FailForward DEF DatabaseFails
<1>9. CASE ReadTooMuch(c)
  BY <1>9, FailForward DEF ReadTooMuch
<1> QED
  BY <1>1, <1>2, <1>3, <1>4, <1>5, <1>6, <1>7, <1>8, <1>9 DEF Step, Progress

(***************************************************************************)
(* A call takes at most nine steps, whatever it meets: each takes it       *)
(* further, and once it has ended, its outcome and its trace stay as they  *)
(* are.  (That a call which has not ended goes on is the timeouts of its   *)
(* statements and of the model.)                                           *)
(***************************************************************************)
THEOREM ForwardCorrect ==
  Spec => /\ [](\A c \in Calls : Stage(c) \in 0 .. 9)
          /\ [][OnlyForward]_vars
<1>1. IInv => \A c \in Calls : Stage(c) \in 0 .. 9
  BY DEF IInv, TypeOK, Phases, Stage
<1>2. ASSUME NEW c \in Calls, Stage(c)' > Stage(c) /\ Others(c) PROVE OnlyForward
  BY <1>2 DEF OnlyForward, CallState, Others
<1>3. IInv /\ [Next]_vars => [OnlyForward]_vars
  <2> SUFFICES ASSUME IInv, Next PROVE OnlyForward
    OBVIOUS
  <2>1. ASSUME NEW c \in Calls, AnyAsk(c) \/ AnyConfirm(c) \/ Step(c) PROVE OnlyForward
    BY <1>2, <2>1, AskForward, StepForward
  <2>2. ASSUME UNCHANGED <<pc, args, types, plan, snap, outcome, trace>> PROVE OnlyForward
    BY <2>2 DEF OnlyForward, CallState
  <2>3. (\E id \in Ids : Change(id)) \/ (\E release \in SUBSET Catalog : Pin(release)) => OnlyForward
    BY <2>2, Zenon DEF Change, Pin
  <2> QED
    BY <2>1, <2>3 DEF Next, Calls
<1> QED
  BY <1>1, <1>3, IInvAlways, PTL DEF Spec

-----------------------------------------------------------------------------
(* Sessions are of a pinned workspace.                                     *)

PinnedOK == \A c \in Calls : (snap[c] # None \/ Answered(c)) => pinned

\* A step of a call keeps the sessions pinned, if it opens none and gives no evidence.
LEMMA PinnedCall ==
  ASSUME PinnedOK, NEW c \in Calls, Others(c), pinned' = pinned,
         snap'[c] # None \/ Answered(c)' => pinned
  PROVE  PinnedOK'
BY DEF PinnedOK, Others, Answered, Succeeded

LEMMA FailPinned ==
  ASSUME IInv, PinnedOK, NEW c \in Calls, pc[c] # "ended", NEW kind, Fail(c, kind) PROVE PinnedOK'
<1>1. /\ outcome' = [outcome EXCEPT ![c] = Failure(kind)] /\ snap' = [snap EXCEPT ![c] = None]
      /\ pinned' = pinned
  BY DEF Fail, End, CloseSession, world
<1>2. Others(c)
  BY FailForward
<1>3. snap'[c] = None /\ outcome'[c].status = "failed"
  BY <1>1 DEF IInv, TypeOK, Failure
<1> QED
  BY <1>1, <1>2, <1>3, PinnedCall DEF Answered, Succeeded

LEMMA StepPinned ==
  ASSUME IInv, PinnedOK, NEW c \in Calls, Step(c) PROVE PinnedOK'
<1>0. Others(c)
  BY StepForward
<1>1. CASE OpenSession(c)
  <2>1. pc[c] # "ended"
    BY <1>1 DEF OpenSession, NeedsSession
  <2>2. CASE pinned
    <3>1. pinned' = pinned /\ UNCHANGED <<pc, outcome>>
      BY <1>1, <2>2 DEF OpenSession, world
    <3> QED
      BY <1>0, <2>2, <3>1, PinnedCall
  <2>3. CASE ~pinned
    BY <1>1, <2>1, <2>3, FailPinned DEF OpenSession
  <2> QED
    BY <2>2, <2>3
<1>2. CASE pinned' = pinned /\ snap'[c] \in {snap[c], None} /\ pc'[c] # "ended"
  BY <1>0, <1>2, PinnedCall DEF PinnedOK, Answered, Succeeded
<1>3. CASE Ground(c)
  <2>1. pc[c] = "grounding" /\ ((\E kind : Fail(c, kind)) \/ \E candidates : Grounded(c, candidates))
    BY <1>3 DEF Ground
  <2>2. ASSUME NEW candidates, Grounded(c, candidates)
        PROVE  pinned' = pinned /\ snap'[c] = None /\ pc'[c] = "planning"
    BY <2>2 DEF Grounded, Goto, CloseSession, world, IInv, TypeOK
  <2> QED
    BY <1>2, <2>1, <2>2, FailPinned
<1>4. CASE AnyPropose(c)
  <2>1. pc[c] = "planning" /\ ((\E kind : Fail(c, kind)) \/ \E p : Planned(c, p))
    BY <1>4 DEF AnyPropose, Propose
  <2>2. ASSUME NEW p, Planned(c, p)
        PROVE  pinned' = pinned /\ snap'[c] = snap[c] /\ pc'[c] = "resolution"
    BY <2>2 DEF Planned, Goto, world, IInv, TypeOK
  <2> QED
    BY <1>2, <2>1, <2>2, FailPinned
<1>5. CASE PlanningFails(c)
  BY <1>5, FailPinned DEF PlanningFails
<1>6. CASE Resolve(c)
  <2>1. pc[c] = "resolution" /\ ((\E kind : Fail(c, kind)) \/ \E p : Settle(c, p))
    BY <1>6, Zenon DEF Resolve
  <2>2. ASSUME NEW p, Settle(c, p) PROVE PinnedOK'
    <3>1. /\ pinned' = pinned /\ snap' = [snap EXCEPT ![c] = None]
          /\ \/ pc' = [pc EXCEPT ![c] = "execution"]
             \/ \E status : outcome' = [outcome EXCEPT ![c] = Outcome(args[c].context, c, status, p, NoResponse)]
      BY <2>2, Zenon DEF Settle, End, Goto, CloseSession, world
    <3>2. snap'[c] = None /\ (pc'[c] = "execution" \/ outcome'[c].response = NoResponse)
      BY <3>1 DEF IInv, TypeOK, Outcome
    <3> QED
      BY <1>0, <3>1, <3>2, PinnedCall DEF Answered, Succeeded
  <2> QED
    BY <2>1, <2>2, FailPinned
<1>7. CASE Check(c)
  <2>1. pc[c] = "execution"
    BY <1>7 DEF Check
  <2>2. CASE StillVisible(plan[c], View(c))
    <3>1. pinned' = pinned /\ snap'[c] = snap[c] /\ pc'[c] = "reading"
      BY <1>7, <2>2 DEF Check, Goto, world, IInv, TypeOK
    <3> QED
      BY <1>2, <3>1
  <2>3. CASE ~StillVisible(plan[c], View(c))
    BY <1>7, <2>1, <2>3, FailPinned DEF Check
  <2> QED
    BY <2>2, <2>3
<1>8. CASE Read(c)
  <2>1. pinned' = pinned /\ pc[c] = "reading"
    BY <1>8 DEF Read, world
  <2>2. pinned
    BY <2>1 DEF IInv, CallOK, PinnedOK
  <2> QED
    BY <1>0, <2>1, <2>2, PinnedCall
<1>9. CASE DatabaseFails(c)
  <2>1. pc[c] # "ended"
    BY <1>9 DEF DatabaseFails, NeedsSession
  <2> QED
    BY <1>9, <2>1, FailPinned DEF DatabaseFails
<1>10. CASE ReadTooMuch(c)
  BY <1>10, FailPinned DEF ReadTooMuch
<1> QED
  BY <1>1, <1>3, <1>4, <1>5, <1>6, <1>7, <1>8, <1>9, <1>10 DEF Step, Progress

LEMMA NextPinned == IInv /\ PinnedOK /\ [Next]_vars => PinnedOK'
<1> SUFFICES ASSUME IInv, PinnedOK, [Next]_vars PROVE PinnedOK'
  OBVIOUS
<1>1. ASSUME NEW c \in Calls, AnyAsk(c) \/ AnyConfirm(c) PROVE PinnedOK'
  <2>1. Others(c)
    BY <1>1, AskForward
  <2>2. /\ pinned' = pinned /\ snap' = snap /\ pc[c] = "idle"
        /\ \/ outcome' = [outcome EXCEPT ![c] = Failure("invalid_plan")]
           \/ \E phase \in {"grounding", "execution"} : pc' = [pc EXCEPT ![c] = phase]
    BY <1>1, Zenon DEF AnyAsk, AnyConfirm, Ask, ConfirmScope, End, Goto, world
  <2>3. outcome'[c].status = "failed" \/ pc'[c] # "ended"
    BY <2>2 DEF IInv, TypeOK, Failure
  <2> QED
    BY <2>1, <2>2, <2>3, PinnedCall DEF PinnedOK, Answered, Succeeded
<1>2. CASE UNCHANGED <<pc, snap, outcome>> /\ (pinned => pinned')
  BY <1>2 DEF PinnedOK, Answered, Succeeded
<1>3. (\E id \in Ids : Change(id)) \/ (\E release \in SUBSET Catalog : Pin(release)) \/ UNCHANGED vars
        => UNCHANGED <<pc, snap, outcome>> /\ (pinned => pinned')
  <2>1. ASSUME NEW id \in Ids, Change(id) PROVE UNCHANGED <<pc, snap, outcome>> /\ (pinned => pinned')
    BY <2>1, Zenon DEF Change
  <2>2. ASSUME NEW release \in SUBSET Catalog, Pin(release)
        PROVE  UNCHANGED <<pc, snap, outcome>> /\ (pinned => pinned')
    BY <2>2, Zenon DEF Pin
  <2>3. ASSUME UNCHANGED vars PROVE UNCHANGED <<pc, snap, outcome>> /\ (pinned => pinned')
    BY <2>3, Zenon DEF vars
  <2> QED
    BY <2>1, <2>2, <2>3, Zenon
<1> QED
  BY <1>1, <1>2, <1>3, StepPinned DEF Next, Calls

\* Every record that an executed plan names is in the snapshot its evidence is read from, and
\* the workspace is pinned.
THEOREM EvidenceCorrect == Spec => []EvidenceOfOneMoment
<1>1. Init => PinnedOK
  BY DEF Init, PinnedOK, Answered, Succeeded
<1>2. IInv /\ PinnedOK => EvidenceOfOneMoment
  BY DEF IInv, OutcomeOK, PinnedOK, EvidenceOfOneMoment, Answered, StillVisible
<1> QED
  BY <1>1, <1>2, NextPinned, IInvAlways, PTL DEF Spec

(***************************************************************************)
(* A plan that goes on from its resolution has for each reference of the   *)
(* proposal its one match in one snapshot, and has dropped none.           *)
(***************************************************************************)
THEOREM GuessCorrect == Spec => NeverGuesses
<1> DEFINE Exact(c) == /\ Named(plan'[c]) = Named(plan[c])
                       /\ \A k \in Named(plan[c]) :
                            Matches(k, plan[c].refs[k], snap[c]) = {plan'[c].refs[k]}
           GoesOn(c) == /\ pc[c] = "resolution"
                        /\ pc'[c] = "execution" \/ outcome'[c].status = "awaiting_confirmation"
           NoGuess == \A c \in Calls : GoesOn(c) => Exact(c)
<1>1. ASSUME IInv, [Next]_vars PROVE [NoGuess]_vars
  <2> SUFFICES ASSUME Next, NEW c \in Calls, GoesOn(c) PROVE Exact(c)
    BY <1>1
  <2>1. outcome[c].status # "awaiting_confirmation"
    BY <1>1 DEF IInv, CallOK, NoOutcome
  <2>2. ~\E kind : Fail(c, kind)
    <3> SUFFICES ASSUME NEW kind, Fail(c, kind) PROVE FALSE
      OBVIOUS
    <3>1. pc' = [pc EXCEPT ![c] = "ended"] /\ outcome' = [outcome EXCEPT ![c] = Failure(kind)]
      BY DEF Fail, End, Goto
    <3>2. pc'[c] = "ended" /\ outcome'[c].status = "failed"
      BY <1>1, <3>1 DEF IInv, TypeOK, Failure
    <3> QED
      BY <3>2
  <2>3. ~(pc'[c] = pc[c] /\ outcome'[c] = outcome[c])
    BY <2>1
  <2>4. Step(c)
    <3>1. ASSUME NEW d \in Calls \ {c}, AnyAsk(d) \/ AnyConfirm(d) \/ Step(d) PROVE FALSE
      BY <1>1, <2>3, <3>1, AskForward, StepForward DEF Others
    <3>2. ~AnyAsk(c) /\ ~AnyConfirm(c)
      BY DEF AnyAsk, AnyConfirm, Ask, ConfirmScope
    <3>3. ~\E id \in Ids : Change(id)
      BY <2>3 DEF Change
    <3>4. ~\E release \in SUBSET Catalog : Pin(release)
      BY <2>3 DEF Pin
    <3> QED
      BY <3>1, <3>2, <3>3, <3>4 DEF Next, Calls
  <2>5. Resolve(c)
    <3>1. ~OpenSession(c)
      BY <2>2, <2>3, Zenon DEF OpenSession
    <3> QED
      BY <2>2, <2>4, <3>1 DEF Step, Progress, Ground, AnyPropose, Propose, PlanningFails, Check, Read,
                              DatabaseFails, ReadTooMuch
  <2>6. ASSUME NEW p, Settle(c, p) PROVE plan'[c] = p /\ p # Declined
    <3>1. plan' = [plan EXCEPT ![c] = p]
      BY <2>6 DEF Settle
    <3>2. CASE p = Declined
      <4>1. /\ pc' = [pc EXCEPT ![c] = "ended"]
            /\ outcome' = [outcome EXCEPT ![c] = Outcome(args[c].context, c, "not_required", p, NoResponse)]
        BY <2>6, <3>2 DEF Settle, End, Goto
      <4>2. pc'[c] = "ended" /\ outcome'[c].status = "not_required"
        BY <1>1, <4>1 DEF IInv, TypeOK, Outcome
      <4> QED
        BY <4>2
    <3> QED
      BY <1>1, <3>1, <3>2 DEF IInv, TypeOK
  <2>7. plan[c] \in AllPlans
    BY <1>1 DEF IInv, CallOK
  <2>8. CASE ~HasReferences(plan[c])
    <3>1. Settle(c, plan[c])
      BY <2>5, <2>8 DEF Resolve
    <3>2. Named(plan[c]) = {} /\ plan'[c] = plan[c]
      BY <2>6, <2>8, <3>1 DEF HasReferences
    <3> QED
      BY <3>2
  <2>9. CASE HasReferences(plan[c])
    <3>1. plan[c] \in Plans /\ snap[c] \in SUBSET Ids
      BY <1>1, <2>5, <2>7, <2>9 DEF HasReferences, AllPlans, Resolve, IInv, TypeOK
    <3>2. /\ \A i \in DOMAIN SlotsOf[plan[c].operation] : Clear(plan[c], i, snap[c])
          /\ Settle(c, Resolved(plan[c], snap[c]))
      BY <2>2, <2>5, <2>6, <2>9, Zenon DEF Resolve, View
    <3>3. plan'[c] = Resolved(plan[c], snap[c])
      BY <2>6, <3>2
    <3>4. /\ Named(Resolved(plan[c], snap[c])) = Named(plan[c])
          /\ \A k \in Named(plan[c]) :
               Matches(k, plan[c].refs[k], snap[c]) = {Resolved(plan[c], snap[c]).refs[k]}
      BY <3>1, <3>2, ResolvedPlan
    <3> QED
      BY <3>3, <3>4
  <2> QED
    BY <2>8, <2>9
<1>2. [NoGuess]_vars =>
        [\A c \in Calls :
           (pc[c] = "resolution" /\ (pc'[c] = "execution" \/ outcome'[c].status = "awaiting_confirmation"))
             => /\ Named(plan'[c]) = Named(plan[c])
                /\ \A k \in Named(plan[c]) :
                     Matches(k, plan[c].refs[k], snap[c]) = {plan'[c].refs[k]}]_vars
  OBVIOUS
<1> HIDE DEF NoGuess
<1> QED
  BY <1>1, <1>2, IInvAlways, PTL DEF Spec, NeverGuesses

-----------------------------------------------------------------------------
(***************************************************************************)
(* The promise.  A call comes to its end in one step of the promise, and   *)
(* all that it does before, and all that happens to the workspace, is a    *)
(* stutter.                                                                *)
(***************************************************************************)
LEMMA AnswerStep ==
  ASSUME IInv, NEW c \in Calls, pc[c] \notin {"idle", "ended"}, UNCHANGED args, NEW o,
         outcome' = [outcome EXCEPT ![c] = o],
         o \in Promise!Answers(c) \/ \E kind \in FailureKinds : o = Failure(kind)
  PROVE  Promise!Next
<1>1. args[c] # NoArgs /\ outcome[c] = NoOutcome
  BY DEF IInv, CallOK, NoArgs
<1>2. o \in Promise!Answers(c) \cup {Promise!Failure(kind) : kind \in Promise!FailureKinds}
  BY DEF Failure, Promise!Failure, FailureKinds, Promise!FailureKinds
<1>3. Promise!Answer(c)
  BY <1>1, <1>2 DEF Promise!Answer, Promise!End, NoArgs, Promise!NoArgs, NoOutcome, Promise!NoOutcome
<1> QED
  BY <1>3 DEF Promise!Next, Promise!Calls, Calls

LEMMA FailStep ==
  ASSUME IInv, NEW c \in Calls, pc[c] \notin {"idle", "ended"}, NEW kind \in FailureKinds, Fail(c, kind)
  PROVE  Promise!Next
<1>1. UNCHANGED args /\ outcome' = [outcome EXCEPT ![c] = Failure(kind)]
  BY DEF Fail, End
<1> QED
  BY <1>1, AnswerStep

LEMMA AskStep ==
  ASSUME IInv, NEW c \in Asks, AnyAsk(c) PROVE Promise!Next
<1>1. PICK context \in Contexts, question \in Questions \cup {None} : Ask(c, context, question)
  BY DEF AnyAsk
<1>2. args[c] = NoArgs
  BY <1>1 DEF Ask, IInv, CallOK, Calls
<1>3. Promise!Ask(c, context, question)
  BY <1>1, <1>2 DEF Ask, End, Promise!Ask, Promise!End, NoArgs, Promise!NoArgs, Failure, Promise!Failure
<1> QED
  BY <1>3 DEF Promise!Next, Promise!AnyAsk

LEMMA ConfirmStep ==
  ASSUME IInv, NEW c \in Confirms, AnyConfirm(c) PROVE Promise!Next
<1>1. PICK context \in Contexts, proposal \in Given, approved \in Approvals :
        ConfirmScope(c, context, proposal, approved)
  BY DEF AnyConfirm
<1>2. args[c] = NoArgs
  BY <1>1 DEF ConfirmScope, IInv, CallOK, Calls
<1>3. proposal \in Promise!Given
  <2>1. PICK d \in Calls : Succeeded(d) /\ outcome[d] = proposal
    BY GivenOutcomes
  <2>2. Promise!Delivered(d)
    BY <2>1 DEF Promise!Delivered, Promise!NoOutcome, NoOutcome, Succeeded, IInv, CallOK
  <2> QED
    BY <2>1, <2>2 DEF Promise!Given, Promise!Calls, Calls
<1>4. approved \in Plans \cup {Declined}
  <2>1. \A o \in Given : o.plan \in AllPlans
    BY GivenOutcomes DEF Outcomes
  <2> QED
    BY <2>1 DEF Approvals, AllPlans
<1>5. Confirmable(context, proposal, approved) <=> Promise!Confirmable(context, proposal, approved)
  <2>1. proposal.status = "awaiting_confirmation" => proposal.response = NoResponse
    BY GivenOutcomes DEF IInv, OutcomeOK
  <2> QED
    BY <2>1 DEF Confirmable, Promise!Confirmable
<1>6. Promise!ConfirmScope(c, context, proposal, approved)
  BY <1>1, <1>2, <1>5 DEF ConfirmScope, End, Promise!ConfirmScope, Promise!End, NoArgs, Promise!NoArgs,
                          Failure, Promise!Failure
<1> QED
  BY <1>3, <1>4, <1>6 DEF Promise!Next, Promise!AnyConfirm

LEMMA SettleStep ==
  ASSUME IInv, NEW c \in Calls, pc[c] = "resolution", NEW p \in AllPlans, Settle(c, p)
  PROVE  [Promise!Next]_(Promise!promised)
<1> DEFINE context == args[c].context
           declined == Outcome(context, c, "not_required", Declined, NoResponse)
           awaiting == Outcome(context, c, "awaiting_confirmation", p, NoResponse)
<1>1. args[c].kind = "ask" /\ UNCHANGED args
  BY DEF IInv, CallOK, Asking, Settle
<1>2. \/ p = Declined /\ outcome' = [outcome EXCEPT ![c] = declined]
      \/ /\ p # Declined /\ NeedsScopeConfirmation(p)
         /\ outcome' = [outcome EXCEPT ![c] = awaiting]
      \/ UNCHANGED outcome
  BY DEF Settle, End
<1>3. CASE p = Declined /\ outcome' = [outcome EXCEPT ![c] = declined]
  <2>1. declined \in Promise!Answers(c)
    BY <1>1 DEF Promise!Answers, Outcome, Promise!Outcome, NoResponse, Promise!NoResponse
  <2> HIDE DEF declined
  <2> QED
    BY <1>1, <1>3, <2>1, AnswerStep
<1>4. CASE p # Declined /\ NeedsScopeConfirmation(p) /\ outcome' = [outcome EXCEPT ![c] = awaiting]
  <2>1. awaiting \in Promise!Answers(c)
    BY <1>1, <1>4 DEF Promise!Answers, Outcome, Promise!Outcome, NoResponse, Promise!NoResponse, AllPlans
  <2> HIDE DEF awaiting
  <2> QED
    BY <1>1, <1>4, <2>1, AnswerStep
<1> QED
  BY <1>1, <1>2, <1>3, <1>4 DEF Promise!promised

LEMMA ReadStep ==
  ASSUME IInv, NEW c \in Calls, Read(c) PROVE Promise!Next
<1> DEFINE response == [seen |-> snap[c], plan |-> plan[c], context |-> args[c].context]
           asked == Outcome(args[c].context, c, "not_required", plan[c], response)
           confirmed == [args[c].proposal EXCEPT !.status = "confirmed", !.response = response]
<1>1. /\ pc[c] = "reading" /\ args[c].kind \in {"ask", "confirm"} /\ UNCHANGED args
      /\ plan[c] \in Plans /\ snap[c] \in SUBSET Ids
      /\ args[c].kind = "ask" => ~NeedsScopeConfirmation(plan[c])
      /\ args[c].kind = "confirm" => plan[c] = args[c].approved
  BY DEF Read, IInv, TypeOK, CallOK, Working, Asking
<1>2. response = Promise!Response(args[c].context, plan[c], snap[c])
  BY DEF Promise!Response
<1> HIDE DEF response
<1>3. CASE args[c].kind = "ask"
  <2>1. outcome' = [outcome EXCEPT ![c] = asked]
    BY <1>3 DEF Read, End, View, response
  <2>2. asked \in Promise!Answers(c)
    BY <1>1, <1>2, <1>3 DEF Promise!Answers, Outcome, Promise!Outcome
  <2> HIDE DEF asked
  <2> QED
    BY <1>1, <2>1, <2>2, AnswerStep
<1>4. CASE args[c].kind = "confirm"
  <2>1. outcome' = [outcome EXCEPT ![c] = confirmed]
    BY <1>4 DEF Read, End, View, response
  <2>2. confirmed \in Promise!Answers(c)
    <3> DEFINE answer(evidence) ==
                 [args[c].proposal EXCEPT
                    !.status = "confirmed",
                    !.response = Promise!Response(args[c].context, args[c].approved, evidence)]
    <3>1. Promise!Answers(c) = {answer(evidence) : evidence \in SUBSET Ids}
      BY <1>4 DEF Promise!Answers
    <3>2. confirmed = answer(snap[c])
      BY <1>1, <1>2, <1>4
    <3> HIDE DEF answer, confirmed
    <3> QED
      BY <1>1, <3>1, <3>2
  <2> HIDE DEF confirmed
  <2> QED
    BY <1>1, <2>1, <2>2, AnswerStep
<1> QED
  BY <1>1, <1>3, <1>4

LEMMA ProgressStep ==
  ASSUME IInv, NEW c \in Calls, Step(c) PROVE [Promise!Next]_(Promise!promised)
<1> USE DEF FailureKinds
<1>1. CASE OpenSession(c)
  BY <1>1, FailStep DEF OpenSession, NeedsSession, Promise!promised
<1>2. CASE Ground(c)
  BY <1>2, FailStep DEF Ground, Grounded, Promise!promised
<1>3. CASE AnyPropose(c)
  BY <1>3, FailStep DEF AnyPropose, Propose, Planned, Promise!promised
<1>4. CASE PlanningFails(c)
  BY <1>4, FailStep DEF PlanningFails
<1>5. CASE Resolve(c)
  <2>1. pc[c] = "resolution" /\ plan[c] \in AllPlans
    BY <1>5 DEF Resolve, IInv, CallOK
  <2>2. CASE ~HasReferences(plan[c])
    BY <1>5, <2>1, <2>2, SettleStep DEF Resolve
  <2>3. CASE HasReferences(plan[c])
    <3>1. plan[c] \in Plans /\ snap[c] \in SUBSET Ids
      BY <1>5, <2>1, <2>3 DEF Resolve, HasReferences, AllPlans, IInv, TypeOK
    <3>2. CASE Fail(c, "not_found")
      BY <2>1, <3>2, FailStep
    <3>3. CASE Settle(c, Declined)
      BY <2>1, <3>3, SettleStep DEF AllPlans
    <3>4. ASSUME \A i \in DOMAIN SlotsOf[plan[c].operation] : Clear(plan[c], i, snap[c]),
                 Settle(c, Resolved(plan[c], snap[c]))
          PROVE  [Promise!Next]_(Promise!promised)
      BY <2>1, <3>1, <3>4, ResolvedPlan, SettleStep DEF AllPlans
    <3> QED
      BY <1>5, <2>3, <3>2, <3>3, <3>4 DEF Resolve, View
  <2> QED
    BY <2>2, <2>3
<1>6. CASE Check(c)
  BY <1>6, FailStep DEF Check, Promise!promised
<1>7. CASE Read(c)
  BY <1>7, ReadStep
<1>8. CASE DatabaseFails(c)
  BY <1>8, FailStep DEF DatabaseFails, NeedsSession
<1>9. CASE ReadTooMuch(c)
  BY <1>9, FailStep DEF ReadTooMuch
<1> QED
  BY <1>1, <1>2, <1>3, <1>4, <1>5, <1>6, <1>7, <1>8, <1>9 DEF Step, Progress

\* ask and confirm_scope keep what their callers are promised: whatever the model proposes,
\* the session sees and other calls do, a call ends in a failure, or as its question or its
\* approval entitles it to.
THEOREM Refinement == Spec => KeepsPromise
<1>1. Init => Promise!Init
  BY DEF Init, Promise!Init, Promise!Calls, Calls, NoArgs, Promise!NoArgs, NoOutcome, Promise!NoOutcome
<1>2. IInv /\ [Next]_vars => [Promise!Next]_(Promise!promised)
  <2> SUFFICES ASSUME IInv, [Next]_vars PROVE [Promise!Next]_(Promise!promised)
    OBVIOUS
  <2>1. CASE \E id \in Ids : Change(id)
    BY <2>1 DEF Change, Promise!promised
  <2>2. CASE \E release \in SUBSET Catalog : Pin(release)
    BY <2>2 DEF Pin, Promise!promised
  <2>3. CASE UNCHANGED vars
    BY <2>3 DEF vars, Promise!promised
  <2> QED
    BY <2>1, <2>2, <2>3, AskStep, ConfirmStep, ProgressStep DEF Next
<1> QED
  BY <1>1, <1>2, IInvAlways, PTL DEF Spec, KeepsPromise, Promise!Spec
=============================================================================

------------------------- MODULE AnswerServiceProofs ------------------------
(***************************************************************************)
(* Questions, verdicts and traces of the answer service, for every number  *)
(* of calls, every set of plans and of evidence, and whatever turns its    *)
(* callers put together.                                                   *)
(***************************************************************************)
EXTENDS AnswerService, SequenceTheorems, TLAPS

(***************************************************************************)
(* The strengthening, call by call.  A caller may combine what two calls   *)
(* returned, so a pending turn is tied to the call that made each half of  *)
(* it, and an outcome to the ask that proposed its plan.                   *)
(***************************************************************************)
\* Where a call is, and what it was called with.
PhaseOK(c) ==
  /\ phase[c] = "idle" => args[c] = NoArgs
  /\ phase[c] = "querying" => args[c] # NoArgs
  /\ phase[c] = "ended" <=> turn[c] # NoTurn
  /\ args[c] = NoArgs => outcome[c] = NoOutcome /\ pending[c] = NoTurn
  /\ args[c].kind = "ask" => c \in Asks /\ pending[c] = NoTurn
  /\ args[c].kind = "confirm" => /\ c \in Confirms /\ pending[c] # NoTurn
                                 /\ args[c].proposal = pending[c].request.query
  /\ args[c].kind = "confirm" /\ outcome[c] = NoOutcome =>
       Confirmable(context[c], args[c].proposal, args[c].approved)
  /\ args[c] # NoArgs => args[c].context = context[c]

\* What a query's outcome is, of the call that got it and of the ask that proposed its plan.
QueryOK(c) ==
  Delivered(c) =>
    LET o == outcome[c]
        asked == args[o.planning]
    IN  /\ args[c].kind = "ask" \/ args[c].kind = "confirm"
        /\ o.context = args[c].context /\ asked.kind = "ask" /\ asked.context = o.context
        /\ args[c].kind = "ask" => /\ o.planning = c /\ o.status # "confirmed"
                                   /\ o.plan \in Spanning => ~Executed(o)
        /\ args[c].kind = "confirm" => /\ o.planning = args[c].proposal.planning
                                       /\ o.plan = args[c].approved /\ o.status = "confirmed"
        /\ Executed(o) => o.response.plan = o.plan /\ o.response.context = o.context
        /\ ConsistentRequest(o)

\* What a confirmation that was let through has been given: the question, the query and the
\* response of three turns, perhaps, each as it was returned.
PendingOK(c) ==
  pending[c] # NoTurn =>
    LET request == pending[c].request
        response == pending[c].response
    IN  /\ args[request.query.planning].kind = "ask"
        /\ args[request.query.planning].context = context[c]
        /\ request.query.status = "awaiting_confirmation"
        /\ request.query.context = context[c]
        /\ turn[response.id] \in AnswerTurns /\ turn[response.id].response = response
        /\ response.context = context[c] /\ response.answer = Cautious("awaiting_confirmation")

Success(c) == [request |-> [question |-> QuestionOf(c), query |-> outcome[c]],
               response |-> ResponseOf(c, Rendered(outcome[c]))]

\* How a call ends, and what it has traced.
TurnOK(c) ==
  phase[c] = "ended" =>
    \/ /\ Delivered(c) /\ turn[c] = Success(c)
       /\ log[c] = <<Event("answer_render", Word(Rendered(outcome[c])), None),
                     Event("answer_operation", Word(Rendered(outcome[c])), Previous(c))>>
    \/ /\ Delivered(c)
       /\ \E kind \in RenderErrors :
            /\ turn[c] = Failure(kind)
            /\ log[c] = <<Event("answer_render", kind, None), Event("answer_operation", kind, Previous(c))>>
    \/ /\ ~Delivered(c) /\ turn[c] \in Failures
       /\ outcome[c] = IF args[c] = NoArgs THEN NoOutcome ELSE turn[c]
       /\ log[c] = <<Event("answer_operation", turn[c].kind, Previous(c))>>

CallOK(c) == PhaseOK(c) /\ QueryOK(c) /\ PendingOK(c) /\ TurnOK(c)

IInv == TypeOK /\ \A c \in Calls : CallOK(c)

-----------------------------------------------------------------------------
\* Turns, failures, arguments and outcomes are told apart by their fields.
LEMMA Apart ==
  /\ NoTurn \notin AnswerTurns \cup Failures
  /\ \A f \in Failures : f \notin AnswerTurns /\ "request" \notin DOMAIN f /\ f.status = "failed"
  /\ \A t \in AnswerTurns : "request" \in DOMAIN t
  /\ NoArgs \notin Passed /\ NoArgs.kind = "none"
  /\ NoOutcome \notin QueryOutcomes /\ NoOutcome.status = "none"
  /\ \A kind \in FailureKinds : Failure(kind) \in Failures /\ Failure(kind) \notin QueryOutcomes
<1>1. \A t \in AnswerTurns : "request" \in DOMAIN t
  BY DEF AnswerTurns
<1>2. "request" \notin DOMAIN NoTurn
  BY DEF NoTurn
<1>3. \A f \in Failures : "request" \notin DOMAIN f /\ f.status = "failed"
  BY DEF Failures, Failure
<1>4. NoTurn \notin Failures
  BY <1>3 DEF NoTurn
<1>5. NoArgs \notin Passed /\ NoArgs.kind = "none"
  BY DEF Passed, NoArgs
<1>6. NoOutcome \notin QueryOutcomes /\ NoOutcome.status = "none"
  BY DEF NoOutcome, QueryOutcomes
<1>7. \A kind \in FailureKinds : Failure(kind) \in Failures /\ Failure(kind) \notin QueryOutcomes
  BY DEF Failures, Failure, QueryOutcomes
<1> QED
  BY <1>1, <1>2, <1>3, <1>4, <1>5, <1>6, <1>7

LEMMA InitIInv == InitAnswers => IInv
<1> SUFFICES ASSUME InitAnswers PROVE IInv
  OBVIOUS
<1>1. TypeOK
  BY DEF InitAnswers, Init, TypeOK
<1>2. ASSUME NEW c \in Calls PROVE CallOK(c)
  <2>1. ~Delivered(c)
    BY DEF InitAnswers, Init, Delivered
  <2> QED
    BY <2>1, Apart DEF InitAnswers, Init, CallOK, PhaseOK, QueryOK, PendingOK, TurnOK
<1> QED
  BY <1>1, <1>2 DEF IInv

\* A step of one call that takes nothing back disturbs no other call.
LEMMA OneCall ==
  ASSUME IInv, TypeOK', NEW c \in Calls, CallOK(c)',
         args[c] # NoArgs => args'[c] = args[c],
         turn[c] # NoTurn => turn'[c] = turn[c],
         \A d \in Calls \ {c} : /\ args'[d] = args[d] /\ outcome'[d] = outcome[d] /\ phase'[d] = phase[d]
                                /\ context'[d] = context[d] /\ pending'[d] = pending[d]
                                /\ turn'[d] = turn[d] /\ log'[d] = log[d]
  PROVE  IInv'
<1>1. ASSUME NEW d \in Calls \ {c} PROVE CallOK(d)'
  <2>1. PhaseOK(d)'
    BY DEF IInv, CallOK, PhaseOK
  <2>2. QueryOK(d)'
    <3> SUFFICES ASSUME Delivered(d)' PROVE QueryOK(d)'
      BY DEF QueryOK
    <3>1. Delivered(d) /\ outcome'[d] = outcome[d] /\ QueryOK(d) /\ args'[d] = args[d]
      BY DEF Delivered, IInv, CallOK
    <3>2. outcome[d] \in QueryOutcomes
      BY <3>1 DEF Delivered, IInv, TypeOK, Failure
    <3>3. outcome[d].planning \in Calls /\ args[outcome[d].planning].kind = "ask"
      BY <3>1, <3>2 DEF QueryOK, QueryOutcomes, Calls
    <3>4. args'[outcome[d].planning] = args[outcome[d].planning]
      BY <3>3, Apart
    <3> QED
      BY <3>1, <3>4 DEF QueryOK
  <2>3. PendingOK(d)'
    <3> SUFFICES ASSUME pending[d] # NoTurn PROVE PendingOK(d)'
      BY DEF PendingOK
    <3>1. PendingOK(d) /\ pending[d] \in AnswerTurns
      BY DEF IInv, CallOK, TypeOK
    <3>2. /\ pending[d].request.query.planning \in Calls /\ pending[d].response.id \in Calls
      BY <3>1 DEF AnswerTurns, QueryOutcomes, Calls
    <3>3. args'[pending[d].request.query.planning] = args[pending[d].request.query.planning]
      BY <3>1, <3>2, Apart DEF PendingOK
    <3>4. turn'[pending[d].response.id] = turn[pending[d].response.id]
      BY <3>1, <3>2, Apart DEF PendingOK
    <3> QED
      BY <3>1, <3>3, <3>4 DEF PendingOK
  <2>4. TurnOK(d)'
    <3>1. /\ TurnOK(d) /\ Delivered(d)' = Delivered(d) /\ Success(d)' = Success(d)
          /\ Previous(d)' = Previous(d)
      BY DEF IInv, CallOK, Delivered, Success, QuestionOf, ResponseOf, Previous
    <3> QED
      BY <3>1 DEF TurnOK
  <2> QED
    BY <2>1, <2>2, <2>3, <2>4 DEF CallOK
<1> QED
  BY <1>1 DEF IInv

LEMMA AskTurnIInv ==
  ASSUME IInv, NEW c \in Asks, NEW caller \in Contexts, NEW question \in Questions \cup {None},
         AskTurn(c, caller, question)
  PROVE  IInv'
<1> DEFINE passed == [kind |-> "ask", context |-> caller, question |-> question]
<1>1. c \in Calls /\ CallOK(c) /\ TypeOK /\ args[c] = NoArgs /\ phase[c] = "idle"
  BY DEF IInv, Calls, AskTurn, Ask
<1>2. turn[c] = NoTurn /\ outcome[c] = NoOutcome /\ pending[c] = NoTurn
  BY <1>1 DEF CallOK, PhaseOK
<1>3. passed \in Passed /\ passed # NoArgs /\ passed.kind = "ask" /\ passed.context = caller
  BY Apart DEF Passed
<1> HIDE DEF passed
<1>4. /\ args' = [args EXCEPT ![c] = passed] /\ phase' = [phase EXCEPT ![c] = "querying"]
      /\ context' = [context EXCEPT ![c] = caller] /\ UNCHANGED <<pending, turn, log>>
      /\ outcome' = outcome \/ outcome' = [outcome EXCEPT ![c] = Failure("invalid_plan")]
  BY DEF AskTurn, Ask, End, passed
<1>5. TypeOK'
  <2>1. args' \in [Calls -> {NoArgs} \cup Passed]
    BY <1>1, <1>3, <1>4 DEF TypeOK
  <2>2. outcome' \in [Calls -> {NoOutcome} \cup QueryOutcomes \cup {Failure(kind) : kind \in FailureKinds}]
    BY <1>1, <1>4 DEF TypeOK, FailureKinds
  <2> QED
    BY <2>1, <2>2, <1>1, <1>4 DEF TypeOK
<1>6. /\ args'[c] = passed /\ phase'[c] = "querying" /\ context'[c] = caller
      /\ pending'[c] = NoTurn /\ turn'[c] = NoTurn
      /\ outcome'[c] = NoOutcome \/ outcome'[c] = Failure("invalid_plan")
  BY <1>1, <1>2, <1>4 DEF TypeOK
<1>7. ~Delivered(c)'
  BY <1>6 DEF Delivered, Failure
<1>8. CallOK(c)'
  BY <1>3, <1>6, <1>7 DEF CallOK, PhaseOK, QueryOK, PendingOK, TurnOK
<1> QED
  BY <1>1, <1>2, <1>4, <1>5, <1>8, OneCall DEF TypeOK

\* What a query's outcome rests on: an ask in the caller's context.
LEMMA QueryOfAsk ==
  ASSUME IInv, NEW c \in Calls, Delivered(c)
  PROVE  /\ outcome[c] \in QueryOutcomes /\ args[outcome[c].planning].kind = "ask"
         /\ args[outcome[c].planning].context = context[c] /\ outcome[c].context = context[c]
         /\ QuestionOf(c) \in Questions \cup {None}
<1>1. outcome[c] \in QueryOutcomes /\ CallOK(c) /\ args[c] \in {NoArgs} \cup Passed
      /\ pending[c] \in {NoTurn} \cup AnswerTurns
  BY DEF IInv, TypeOK, Delivered, Failure
<1>2. args[c] # NoArgs /\ args[c].context = context[c]
  BY <1>1 DEF CallOK, PhaseOK, Delivered
<1>3. QueryOK(c)
  BY <1>1 DEF CallOK
<1>4. QuestionOf(c) \in Questions \cup {None}
  <2>1. CASE pending[c] = NoTurn
    BY <1>1, <1>2, <1>3, <2>1 DEF CallOK, PhaseOK, QueryOK, QuestionOf, Passed
  <2>2. CASE pending[c] # NoTurn
    BY <1>1, <2>2 DEF QuestionOf, AnswerTurns
  <2> QED
    BY <2>1, <2>2
<1> QED
  BY <1>1, <1>2, <1>3, <1>4 DEF QueryOK

\* A query that waits for an approval is that of an ask, which shows it with its own question.
LEMMA QuestionOfAsk ==
  ASSUME IInv, NEW c \in Calls, Delivered(c), outcome[c].status # "confirmed"
  PROVE  args[outcome[c].planning].question = QuestionOf(c)
<1>1. CallOK(c)
  BY DEF IInv
<1> QED
  BY <1>1 DEF CallOK, PhaseOK, QueryOK, QuestionOf

LEMMA TurnsAre ==
  ASSUME IInv, NEW t \in Turns
  PROVE  \E d \in Calls : phase[d] = "ended" /\ Delivered(d) /\ turn[d] = t /\ t = Success(d) /\ t \in AnswerTurns
<1>1. PICK d \in Calls : phase[d] = "ended" /\ "request" \in DOMAIN turn[d] /\ t = turn[d]
  BY DEF Turns
<1>2. turn[d] \in {NoTurn} \cup AnswerTurns \cup Failures /\ CallOK(d)
  BY DEF IInv, TypeOK
<1>3. turn[d] \notin Failures /\ turn[d] # NoTurn
  BY <1>1, <1>2, Apart DEF CallOK, PhaseOK
<1>4. \A kind \in RenderErrors : Failure(kind) \in Failures
  BY DEF Failures, FailureKinds, RenderErrors
<1>5. Delivered(d) /\ turn[d] = Success(d)
  BY <1>1, <1>2, <1>3, <1>4 DEF CallOK, TurnOK
<1> QED
  BY <1>1, <1>2, <1>3, <1>5

\* Any turn that is let through, whoever put it together.
LEMMA HeldOK ==
  ASSUME IInv, NEW caller \in Contexts, NEW held \in Held, Acceptable(caller, held)
  PROVE  LET request == held.request
             response == held.response
             asked == args[request.query.planning]
         IN  /\ held \in AnswerTurns /\ asked.kind = "ask" /\ asked.context = caller /\ request.query.context = caller
             /\ turn[response.id] \in AnswerTurns /\ turn[response.id].response = response
             /\ response.context = caller /\ response.answer = Cautious("awaiting_confirmation")
             /\ request.query \in Given /\ request.query.status = "awaiting_confirmation"
<1>1. PICK t1 \in Turns, t2 \in Turns, t3 \in Turns :
        held = [request |-> [question |-> t1.request.question, query |-> t2.request.query],
                response |-> t3.response]
  BY DEF Held
<1>2. PICK d \in Calls : Delivered(d) /\ t2 = Success(d) /\ t2 \in AnswerTurns
  BY TurnsAre
<1>3. PICK e \in Calls : Delivered(e) /\ turn[e] = t3 /\ t3 = Success(e) /\ t3 \in AnswerTurns
  BY TurnsAre
<1>4. held.request.query = t2.request.query /\ held.response = t3.response
  BY <1>1
<1>5. held \in AnswerTurns
  <2>1. t1 \in AnswerTurns
    BY TurnsAre
  <2> QED
    BY <1>1, <1>2, <1>3, <2>1 DEF AnswerTurns
<1>6. held.request.query = outcome[d]
  BY <1>2, <1>4 DEF Success
<1>7. held.response.id = e
  BY <1>3, <1>4 DEF Success, ResponseOf
<1>8. /\ held.response.context = caller /\ held.response.answer = Cautious("awaiting_confirmation")
      /\ held.request.query.status = "awaiting_confirmation" /\ held.request.query.context = caller
  BY DEF Acceptable, ConsistentTurn
<1>9. held.request.query \in Given
  BY <1>2, <1>6 DEF Given
<1> QED
  BY <1>2, <1>3, <1>4, <1>5, <1>6, <1>7, <1>8, <1>9, QueryOfAsk

LEMMA ConfirmTurnIInv ==
  ASSUME IInv, NEW c \in Confirms, NEW caller \in Contexts, NEW held \in Held, NEW approved \in Plans,
         ConfirmTurn(c, caller, held, approved)
  PROVE  IInv'
<1>1. c \in Calls /\ CallOK(c) /\ TypeOK /\ phase[c] = "idle" /\ args[c] = NoArgs
  BY DEF IInv, Calls, ConfirmTurn, CallOK, PhaseOK
<1>2. turn[c] = NoTurn /\ outcome[c] = NoOutcome /\ pending[c] = NoTurn
  BY <1>1 DEF CallOK, PhaseOK
<1>3. context' = [context EXCEPT ![c] = caller]
  BY DEF ConfirmTurn
<1>4. CASE Acceptable(caller, held)
  <2> DEFINE query == held.request.query
             passed == [kind |-> "confirm", context |-> caller, proposal |-> query, approved |-> approved]
  <2>1. held \in AnswerTurns /\ query \in QueryOutcomes
    BY <1>4, HeldOK DEF AnswerTurns
  <2>2. passed \in Passed
    BY <2>1 DEF Passed
  <2>3. passed # NoArgs /\ passed.kind = "confirm" /\ passed.context = caller /\ passed.proposal = query
    BY <2>2, Apart
  <2>4. /\ args' = [args EXCEPT ![c] = passed] /\ phase' = [phase EXCEPT ![c] = "querying"]
        /\ pending' = [pending EXCEPT ![c] = held] /\ UNCHANGED <<turn, log>>
        /\ outcome' = outcome \/ outcome' = [outcome EXCEPT ![c] = Failure("invalid_plan")]
    BY <1>4 DEF ConfirmTurn, ConfirmScope, End
  <2>11. outcome' = outcome => Confirmable(caller, query, approved)
    BY <1>1, <1>2, <1>4 DEF ConfirmTurn, ConfirmScope, End, TypeOK, NoOutcome, Failure
  <2> HIDE DEF passed
  <2>5. TypeOK'
    <3>1. args' \in [Calls -> {NoArgs} \cup Passed]
      BY <1>1, <2>2, <2>4 DEF TypeOK
    <3>2. outcome' \in [Calls -> {NoOutcome} \cup QueryOutcomes \cup {Failure(kind) : kind \in FailureKinds}]
      BY <1>1, <2>4 DEF TypeOK, FailureKinds
    <3>3. pending' \in [Calls -> {NoTurn} \cup AnswerTurns]
      BY <1>1, <2>1, <2>4 DEF TypeOK
    <3> QED
      BY <3>1, <3>2, <3>3, <1>1, <1>3, <2>4 DEF TypeOK
  <2>6. /\ args'[c] = passed /\ phase'[c] = "querying" /\ context'[c] = caller
        /\ pending'[c] = held /\ turn'[c] = NoTurn
        /\ \/ outcome'[c] = NoOutcome /\ Confirmable(caller, query, approved)
           \/ outcome'[c] = Failure("invalid_plan")
    BY <1>1, <1>2, <1>3, <2>4, <2>11 DEF TypeOK
  <2>7. ~Delivered(c)'
    BY <2>6 DEF Delivered, Failure
  <2>8. held # NoTurn /\ query.planning \in Calls /\ held.response.id \in Calls
    BY <2>1, Apart DEF AnswerTurns, QueryOutcomes, Calls
  <2>9. PendingOK(c)'
    <3>1. args[query.planning] # NoArgs /\ turn[held.response.id] # NoTurn
      BY <1>4, HeldOK, Apart
    <3>2. args'[query.planning] = args[query.planning] /\ turn' = turn
      BY <3>1, <2>4, <1>1
    <3> QED
      BY <3>2, <2>6, <1>4, HeldOK DEF PendingOK
  <2>10. PhaseOK(c)'
    <3>1. passed.approved = approved /\ Failure("invalid_plan") # NoOutcome
      BY DEF passed, Failure, NoOutcome
    <3> QED
      BY <1>1, <2>3, <2>6, <2>8, <3>1 DEF PhaseOK, Confirmable
  <2>12. CallOK(c)'
    BY <2>6, <2>7, <2>9, <2>10 DEF CallOK, QueryOK, TurnOK
  <2> QED
    BY <1>1, <1>2, <1>3, <2>4, <2>5, <2>12, OneCall DEF TypeOK
<1>5. CASE ~Acceptable(caller, held)
  <2> DEFINE event == Event("answer_operation", "invalid_plan", None)
  <2>1. Failure("invalid_plan") \in Failures /\ event \in Events
    BY DEF Failures, FailureKinds, Events, Event
  <2>2. /\ phase' = [phase EXCEPT ![c] = "ended"] /\ turn' = [turn EXCEPT ![c] = Failure("invalid_plan")]
        /\ log' = [log EXCEPT ![c] = <<event>>] /\ UNCHANGED <<args, outcome, pending>>
    BY <1>5 DEF ConfirmTurn, Leave, promised
  <2>3. TypeOK'
    <3>1. log' \in [Calls -> Seq(Events)]
      BY <1>1, <2>1, <2>2 DEF TypeOK
    <3>2. turn' \in [Calls -> {NoTurn} \cup AnswerTurns \cup Failures]
      BY <1>1, <2>1, <2>2 DEF TypeOK
    <3> QED
      BY <3>1, <3>2, <1>1, <1>3, <2>2 DEF TypeOK
  <2>4. /\ args'[c] = NoArgs /\ outcome'[c] = NoOutcome /\ phase'[c] = "ended" /\ pending'[c] = NoTurn
        /\ turn'[c] = Failure("invalid_plan") /\ log'[c] = <<event>>
    BY <1>1, <1>2, <2>2 DEF TypeOK
  <2>5. ~Delivered(c)' /\ Previous(c)' = None
    BY <2>4 DEF Delivered, Previous
  <2>6. Failure("invalid_plan").kind = "invalid_plan" /\ Failure("invalid_plan") # NoTurn
    BY <2>1, Apart DEF Failure
  <2>7. PhaseOK(c)' /\ QueryOK(c)' /\ PendingOK(c)'
    BY <2>4, <2>5, <2>6, Apart DEF PhaseOK, QueryOK, PendingOK
  <2>8. TurnOK(c)'
    BY <2>1, <2>4, <2>5, <2>6 DEF TurnOK, Failures
  <2> QED
    BY <1>1, <1>2, <1>3, <2>2, <2>3, <2>7, <2>8, OneCall DEF TypeOK, CallOK
<1> QED
  BY <1>4, <1>5

\* What a confirmation is answered with.
LEMMA ConfirmedAnswers ==
  ASSUME NEW c \in Calls, args[c].kind # "ask"
  PROVE  Answers(c) = {[args[c].proposal EXCEPT !.status = "confirmed",
                          !.response = Response(args[c].context, args[c].approved, e)] : e \in Evidence}
  BY DEF Answers

LEMMA ConfirmedAnswer ==
  ASSUME NEW c \in Calls, args[c].kind # "ask", NEW o \in Answers(c)
  PROVE  \E e \in Evidence :
           o = [args[c].proposal EXCEPT !.status = "confirmed",
                                        !.response = Response(args[c].context, args[c].approved, e)]
<1> DEFINE A(e) == [args[c].proposal EXCEPT !.status = "confirmed",
                      !.response = Response(args[c].context, args[c].approved, e)]
<1>1. Answers(c) = {A(e) : e \in Evidence}
  BY ConfirmedAnswers
<1>2. SUFFICES \E e \in Evidence : o = A(e)
  OBVIOUS
<1> HIDE DEF A
<1> QED
  BY <1>1

\* The query answers: what its promise allows.
LEMMA QueryAnswersIInv ==
  ASSUME IInv, NEW c \in Calls, QueryAnswers(c)
  PROVE  IInv'
<1>1. CallOK(c) /\ TypeOK /\ args[c] # NoArgs /\ outcome[c] = NoOutcome
      /\ UNCHANGED <<args, phase, context, pending, turn, log>>
  BY DEF IInv, QueryAnswers, Answer, own
<1>2. PICK o \in Answers(c) \cup {Failure(kind) : kind \in FailureKinds} : outcome' = [outcome EXCEPT ![c] = o]
  BY DEF QueryAnswers, Answer, End
<1>3. outcome'[c] = o
  BY <1>1, <1>2 DEF TypeOK
<1>4. args[c] \in Passed /\ PhaseOK(c) /\ PendingOK(c) /\ TurnOK(c)
  BY <1>1 DEF TypeOK, CallOK
<1>5. phase[c] = "querying"
  <2>1. ~Delivered(c) /\ outcome[c] \notin Failures
    BY <1>1, Apart DEF Delivered, NoOutcome
  <2>2. phase[c] # "ended"
    BY <2>1, <1>1, <1>4 DEF TurnOK
  <2> QED
    BY <2>2, <1>1, <1>4 DEF TypeOK, PhaseOK
<1>6. CASE o \in {Failure(kind) : kind \in FailureKinds}
  <2>1. o.status = "failed" /\ o # NoOutcome
    BY <1>6, Apart
  <2>2. TypeOK'
    BY <1>1, <1>2, <1>6 DEF TypeOK
  <2>3. CallOK(c)'
    BY <1>1, <1>3, <1>4, <1>5, <2>1 DEF CallOK, PhaseOK, QueryOK, PendingOK, TurnOK, Delivered
  <2> QED
    BY <1>1, <1>2, <2>2, <2>3, OneCall DEF TypeOK
<1>7. CASE o \in Answers(c)
  <2>1. \A page \in Evidence : page.rows <= Room(page)
    BY PageAssumption
  <2>2. /\ o \in QueryOutcomes /\ o.context = args[c].context
        /\ args[c].kind = "ask" => /\ o.planning = c /\ o.status # "confirmed"
                                   /\ o.plan \in Spanning => ~Executed(o)
        /\ args[c].kind = "confirm" => /\ o.planning = args[c].proposal.planning
                                       /\ o.plan = args[c].approved /\ o.status = "confirmed"
        /\ Executed(o) => /\ o.response.plan = o.plan /\ o.response.context = o.context
                          /\ o.response.seen.rows <= Room(o.response.seen)
        /\ o.plan = Declined => ~Executed(o) /\ o.status = "not_required"
        /\ o.status = "awaiting_confirmation" => ~Executed(o)
    <3>1. CASE args[c].kind = "ask"
      <4>1. c \in Asks /\ args[c].context \in Contexts
        BY <1>4, <3>1 DEF PhaseOK, Passed
      <4>2. CASE o = Outcome(args[c].context, c, "not_required", Declined, NoResponse)
        BY <3>1, <4>1, <4>2, PromiseAssumption DEF Outcome, QueryOutcomes, Executed
      <4>3. ASSUME NEW p \in Spanning, o = Outcome(args[c].context, c, "awaiting_confirmation", p, NoResponse)
            PROVE  <2>2
        BY <3>1, <4>1, <4>3, PromiseAssumption DEF Outcome, QueryOutcomes, Executed
      <4>4. ASSUME NEW p \in Plans \ Spanning, NEW evidence \in Evidence,
                   o = Outcome(args[c].context, c, "not_required", p, Response(args[c].context, p, evidence))
            PROVE  <2>2
        <5> DEFINE r == Response(args[c].context, p, evidence)
        <5>1. /\ r \in [seen : Evidence, plan : Plans, context : Contexts] /\ r.seen = evidence
              /\ r.plan = p /\ r.context = args[c].context
          BY <4>1 DEF Response
        <5>2. p # Declined
          BY PromiseAssumption
        <5> HIDE DEF r
        <5> QED
          BY <3>1, <4>1, <4>4, <5>1, <5>2, <2>1 DEF Outcome, QueryOutcomes, r
      <4> QED
        BY <1>7, <3>1, <4>2, <4>3, <4>4 DEF Answers
    <3>2. CASE args[c].kind # "ask"
      <4>1. /\ args[c].kind = "confirm" /\ args[c].proposal \in QueryOutcomes /\ args[c].approved \in Plans
            /\ args[c].context \in Contexts
        BY <1>4, <3>2 DEF Passed
      <4>2. args[c].proposal.context = args[c].context /\ args[c].proposal.plan = args[c].approved
        BY <1>1, <1>4, <4>1 DEF PhaseOK, Confirmable
      <4>3. PICK evidence \in Evidence :
              o = [args[c].proposal EXCEPT !.status = "confirmed",
                                           !.response = Response(args[c].context, args[c].approved, evidence)]
        BY <1>7, <3>2, ConfirmedAnswer
      <4> DEFINE r == Response(args[c].context, args[c].approved, evidence)
      <4>4. /\ r \in [seen : Evidence, plan : Plans, context : Contexts] /\ r.seen = evidence
            /\ r.plan = args[c].approved /\ r.context = args[c].context
        BY <4>1 DEF Response
      <4>5. args[c].approved # Declined
        BY <4>1, PromiseAssumption
      <4>6. o = [args[c].proposal EXCEPT !.status = "confirmed", !.response = r]
        BY <4>3
      <4> HIDE DEF r
      <4>7. /\ o \in QueryOutcomes /\ o.status = "confirmed" /\ o.response = r
            /\ o.context = args[c].context /\ o.plan = args[c].approved
            /\ o.planning = args[c].proposal.planning
        BY <4>1, <4>2, <4>4, <4>6 DEF QueryOutcomes
      <4> QED
        BY <3>2, <4>4, <4>5, <4>7, <2>1
    <3> QED
      BY <3>1, <3>2
  <2>3. TypeOK'
    BY <1>1, <1>2, <2>2 DEF TypeOK
  <2>4. o # NoOutcome /\ o.status # "failed"
    BY <2>2, Apart DEF QueryOutcomes
  <2>5. QueryOK(c)'
    <3>1. ConsistentRequest(o)
      BY <2>2 DEF ConsistentRequest
    <3>2. args[c].kind = "ask" \/ args[c].kind = "confirm"
      BY <1>4 DEF Passed
    <3>3. args[o.planning].kind = "ask" /\ args[o.planning].context = o.context
      <4>1. CASE args[c].kind = "ask"
        BY <2>2, <4>1
      <4>2. CASE args[c].kind = "confirm"
        BY <1>4, <2>2, <4>2, <1>1 DEF PhaseOK, PendingOK
      <4> QED
        BY <3>2, <4>1, <4>2
    <3> QED
      BY <1>1, <1>3, <2>2, <3>1, <3>2, <3>3 DEF QueryOK
  <2>6. PhaseOK(c)' /\ PendingOK(c)' /\ TurnOK(c)'
    BY <1>1, <1>3, <1>4, <1>5, <2>4 DEF PhaseOK, PendingOK, TurnOK
  <2> QED
    BY <1>1, <1>2, <2>3, <2>5, <2>6, OneCall DEF TypeOK, CallOK
<1> QED
  BY <1>2, <1>6, <1>7

\* A call that ends with a result and events that tell it.
LEMMA LeaveIInv ==
  ASSUME IInv, NEW c \in Calls, phase[c] = "querying", UNCHANGED <<promised, context, pending>>,
         NEW result \in AnswerTurns \cup Failures, NEW events \in Seq(Events), Leave(c, result, events),
         \/ /\ Delivered(c) /\ result = Success(c)
            /\ events = <<Event("answer_render", Word(Rendered(outcome[c])), None),
                          Event("answer_operation", Word(Rendered(outcome[c])), Previous(c))>>
         \/ /\ Delivered(c)
            /\ \E kind \in RenderErrors :
                 /\ result = Failure(kind)
                 /\ events = <<Event("answer_render", kind, None),
                               Event("answer_operation", kind, Previous(c))>>
         \/ /\ ~Delivered(c) /\ result \in Failures /\ outcome[c] = result
            /\ events = <<Event("answer_operation", result.kind, Previous(c))>>
  PROVE  IInv'
<1>1. /\ TypeOK /\ CallOK(c) /\ turn[c] = NoTurn /\ args[c] # NoArgs
      /\ UNCHANGED <<args, outcome, context, pending>>
  BY DEF IInv, CallOK, PhaseOK, promised
<1>2. /\ phase' = [phase EXCEPT ![c] = "ended"] /\ turn' = [turn EXCEPT ![c] = result]
      /\ log' = [log EXCEPT ![c] = events]
  BY DEF Leave
<1>3. phase'[c] = "ended" /\ turn'[c] = result /\ log'[c] = events
  BY <1>1, <1>2 DEF TypeOK
<1>4. TypeOK'
  <2>1. turn' \in [Calls -> {NoTurn} \cup AnswerTurns \cup Failures]
    BY <1>1, <1>2 DEF TypeOK
  <2>2. log' \in [Calls -> Seq(Events)]
    BY <1>1, <1>2 DEF TypeOK
  <2> QED
    BY <1>1, <1>2, <2>1, <2>2 DEF TypeOK
<1>5. PhaseOK(c)' /\ QueryOK(c)'
  BY <1>1, <1>3, Apart DEF CallOK, PhaseOK, QueryOK, Delivered
<1>6. PendingOK(c)'
  <2> SUFFICES ASSUME pending[c] # NoTurn PROVE PendingOK(c)'
    BY <1>1 DEF PendingOK
  <2>1. PendingOK(c) /\ pending[c].response.id \in Calls
    BY <1>1 DEF CallOK, TypeOK, AnswerTurns
  <2>2. pending[c].response.id # c
    BY <2>1, <1>1, Apart DEF PendingOK
  <2>3. turn'[pending[c].response.id] = turn[pending[c].response.id]
    BY <1>1, <1>2, <2>1, <2>2 DEF TypeOK
  <2> QED
    BY <1>1, <2>1, <2>3 DEF PendingOK
<1>7. TurnOK(c)'
  <2>1. Success(c)' = Success(c) /\ Previous(c)' = Previous(c) /\ (Delivered(c)' <=> Delivered(c))
    BY <1>1 DEF Success, Previous, Delivered, QuestionOf, ResponseOf
  <2> QED
    BY <1>1, <1>3, <2>1 DEF TurnOK
<1> QED
  BY <1>1, <1>2, <1>4, <1>5, <1>6, <1>7, OneCall DEF TypeOK, CallOK

LEMMA EventsAre ==
  ASSUME IInv, NEW c \in Calls, NEW word \in FailureKinds \cup {"invalid_answer", "cautious", "completed"}
  PROVE  /\ Event("answer_operation", word, Previous(c)) \in Events
         /\ Event("answer_render", word, None) \in Events
<1>1. Previous(c) \in Calls \cup {None}
  BY DEF IInv, TypeOK, Previous, AnswerTurns
<1> QED
  BY <1>1 DEF Event, Events

LEMMA PropagateIInv ==
  ASSUME IInv, NEW c \in Calls, Propagate(c)
  PROVE  IInv'
<1>1. /\ phase[c] = "querying" /\ outcome[c].status = "failed" /\ UNCHANGED <<promised, context, pending>>
      /\ ~Delivered(c) /\ outcome[c] # NoOutcome
      /\ outcome[c] \in {NoOutcome} \cup QueryOutcomes \cup {Failure(kind) : kind \in FailureKinds}
  BY DEF Propagate, Delivered, IInv, TypeOK
<1>2. PICK kind \in FailureKinds : outcome[c] = Failure(kind)
  BY <1>1 DEF QueryOutcomes
<1>3. Failure(kind).kind = kind /\ Failure(kind) \in Failures
  BY Apart DEF Failure
<1> DEFINE e == Event("answer_operation", kind, Previous(c))
<1>4. e \in Events
  BY EventsAre
<1>5. Leave(c, Failure(kind), Append(<< >>, e))
  BY <1>2, <1>3 DEF Propagate, Raise
<1> HIDE DEF e
<1>6. Append(<< >>, e) = <<e>> /\ <<e>> \in Seq(Events)
  BY <1>4
<1>7. <<e>> = <<Event("answer_operation", Failure(kind).kind, Previous(c))>>
  BY <1>3 DEF e
<1> QED
  BY <1>1, <1>2, <1>3, <1>5, <1>6, <1>7, LeaveIInv

\* What is rendered is one of the verdicts.
LEMMA RenderedIs ==
  ASSUME NEW query
  PROVE  Rendered(query) \in Verdicts
         /\ Word(Rendered(query)) = (IF Rendered(query) \in {Answered("complete"), Answered("partial")}
                                     THEN "completed" ELSE "cautious")
<1>1. Rendered(query) \in Verdicts
  BY DEF Rendered, Verdicts, Reasons, Coverage
<1>2. \A v \in Verdicts : Word(v) = IF v \in {Answered("complete"), Answered("partial")}
                                    THEN "completed" ELSE "cautious"
  BY DEF Verdicts, Word, Answered, Cautious
<1> QED
  BY <1>1, <1>2

LEMMA RenderIInv ==
  ASSUME IInv, NEW c \in Calls, Render(c)
  PROVE  IInv'
<1> DEFINE v == Rendered(outcome[c])
           e1 == Event("answer_render", Word(v), None)
           e2 == Event("answer_operation", Word(v), Previous(c))
<1>1. /\ phase[c] = "querying" /\ Delivered(c) /\ UNCHANGED <<promised, context, pending>>
  BY DEF Render, Deliverable
<1>2. QueryOK(c) /\ outcome[c].context = context[c] /\ ConsistentRequest(outcome[c])
  BY <1>1, QueryOfAsk DEF IInv, CallOK, QueryOK
<1>3. Leave(c, Success(c), <<e1, e2>>)
  BY <1>2 DEF Render, Success
<1>4. Success(c) \in AnswerTurns
  <2>1. outcome[c] \in QueryOutcomes /\ QuestionOf(c) \in Questions \cup {None}
    BY <1>1, QueryOfAsk
  <2>2. outcome[c].context \in Contexts /\ v \in Verdicts
    BY <2>1, RenderedIs DEF QueryOutcomes
  <2> HIDE DEF v
  <2>3. ResponseOf(c, v) \in [context : Contexts, id : Calls, answer : Verdicts]
    BY <2>2 DEF ResponseOf
  <2> QED
    BY <2>1, <2>3 DEF Success, AnswerTurns, v
<1>5. <<e1, e2>> \in Seq(Events)
  <2>1. Word(v) \in {"cautious", "completed"}
    BY DEF Word
  <2> HIDE DEF v
  <2>2. e1 \in Events /\ e2 \in Events
    BY <2>1, EventsAre
  <2> HIDE DEF e1, e2
  <2> QED
    BY <2>2
<1> QED
  BY <1>1, <1>3, <1>4, <1>5, LeaveIInv

LEMMA OneMore ==
  ASSUME NEW S, NEW a \in S, NEW b \in S
  PROVE  Append(<<a>>, b) = <<a, b>>
<1>1. <<a>> \in Seq(S) /\ <<a, b>> \in Seq(S) /\ Append(<<a>>, b) \in Seq(S)
  OBVIOUS
<1>2. Len(Append(<<a>>, b)) = 2 /\ Len(<<a, b>>) = 2
  OBVIOUS
<1>3. \A i \in 1 .. 2 : Append(<<a>>, b)[i] = <<a, b>>[i]
  OBVIOUS
<1> QED
  BY <1>1, <1>2, <1>3, SeqEqual

LEMMA RenderFailsIInv ==
  ASSUME IInv, NEW c \in Calls, RenderFails(c)
  PROVE  IInv'
<1>1. /\ phase[c] = "querying" /\ Delivered(c) /\ UNCHANGED <<promised, context, pending>>
  BY DEF RenderFails, Deliverable
<1>2. PICK kind \in RenderErrors : Raise(c, kind, <<Event("answer_render", kind, None)>>)
  BY DEF RenderFails
<1> DEFINE e1 == Event("answer_render", kind, None)
           e2 == Event("answer_operation", kind, Previous(c))
<1>3. Leave(c, Failure(kind), Append(<<e1>>, e2))
  BY <1>2 DEF Raise
<1>4. kind \in FailureKinds \cup {"invalid_answer", "cautious", "completed"}
  BY DEF RenderErrors, FailureKinds
<1>5. Failure(kind) \in Failures /\ e1 \in Events /\ e2 \in Events
  BY <1>4, EventsAre DEF Failures, FailureKinds, RenderErrors
<1> HIDE DEF e1, e2
<1>6. Append(<<e1>>, e2) = <<e1, e2>>
  BY <1>5, OneMore
<1>7. <<e1, e2>> \in Seq(Events)
  BY <1>5
<1> QED
  BY <1>1, <1>3, <1>5, <1>6, <1>7, LeaveIInv DEF e1, e2

LEMMA NextIInv == IInv /\ [NextAnswers]_vars => IInv'
<1> SUFFICES ASSUME IInv, [NextAnswers]_vars PROVE IInv'
  OBVIOUS
<1>1. ASSUME NEW c \in Asks, AnyAskTurn(c) PROVE IInv'
  BY <1>1, AskTurnIInv DEF AnyAskTurn
<1>2. ASSUME NEW c \in Confirms, AnyConfirmTurn(c) PROVE IInv'
  BY <1>2, ConfirmTurnIInv DEF AnyConfirmTurn
<1>3. ASSUME NEW c \in Calls, QueryAnswers(c) \/ Continue(c) \/ RenderFails(c) PROVE IInv'
  BY <1>3, QueryAnswersIInv, PropagateIInv, RenderIInv, RenderFailsIInv DEF Continue
<1>4. CASE UNCHANGED vars
  <2>1. /\ UNCHANGED <<args, outcome, phase, context, pending, turn, log>>
    BY <1>4 DEF vars, own, promised
  <2>2. TypeOK'
    BY <2>1 DEF IInv, TypeOK
  <2>3. ASSUME NEW c \in Calls PROVE CallOK(c)'
    <3>1. CallOK(c)
      BY DEF IInv
    <3>2. PhaseOK(c)' /\ QueryOK(c)' /\ PendingOK(c)'
      BY <2>1, <3>1 DEF CallOK, PhaseOK, QueryOK, PendingOK, Delivered
    <3>3. Success(c)' = Success(c) /\ Previous(c)' = Previous(c) /\ (Delivered(c)' <=> Delivered(c))
      BY <2>1 DEF Success, Previous, Delivered, QuestionOf, ResponseOf
    <3> QED
      BY <2>1, <3>1, <3>2, <3>3 DEF CallOK, TurnOK
  <2> QED
    BY <2>2, <2>3 DEF IInv
<1> QED
  BY <1>1, <1>2, <1>3, <1>4 DEF NextAnswers

LEMMA IInvAlways == SpecAnswers => []IInv
<1> QED
  BY InitIInv, NextIInv, PTL DEF SpecAnswers

-----------------------------------------------------------------------------
(***************************************************************************)
(* The state keeps its types: arguments, outcomes, turns and events are    *)
(* what the contracts say they are.                                        *)
(***************************************************************************)
THEOREM TypeCorrect == SpecAnswers => []TypeOK
<1>1. IInv => TypeOK
  BY DEF IInv
<1> QED
  BY <1>1, IInvAlways, PTL

(***************************************************************************)
(* The records of an answer were read for the plan it shows, which an ask  *)
(* in this context proposed and, if it ranges over several facilities,     *)
(* this call approved; and the question is that of this ask, unless a      *)
(* caller took a request apart (AnswerService.ask and confirm_scope).      *)
(***************************************************************************)
THEOREM QuestionCorrect == SpecAnswers => []AnswersOwnQuestion
<1>1. ASSUME IInv PROVE AnswersOwnQuestion
  <2> SUFFICES ASSUME NEW c \in Calls, turn[c] \in Turns, Executed(turn[c].request.query)
               PROVE  LET request == turn[c].request
                          query == request.query
                          asked == args[query.planning]
                      IN  /\ query.response.plan = query.plan
                          /\ asked.kind = "ask"
                          /\ {asked.context, query.context, query.response.context} = {context[c]}
                          /\ query.plan \in Spanning => args[c].kind = "confirm" /\ args[c].approved = query.plan
                          /\ Untouched(c) => asked.question = request.question
    BY DEF AnswersOwnQuestion
  <2>1. turn[c] # NoTurn /\ turn[c] \in AnswerTurns
    BY <1>1, TurnsAre, Apart
  <2>2. phase[c] = "ended" /\ turn[c] \notin Failures /\ CallOK(c)
    BY <1>1, <2>1, Apart DEF IInv, CallOK, PhaseOK
  <2>3. \A kind \in RenderErrors : Failure(kind) \in Failures
    BY DEF Failures, FailureKinds, RenderErrors
  <2>4. Delivered(c) /\ turn[c] = Success(c)
    BY <2>2, <2>3 DEF CallOK, TurnOK
  <2>5. turn[c].request.query = outcome[c] /\ turn[c].request.question = QuestionOf(c)
    BY <2>4 DEF Success
  <2>6. QueryOK(c)
    BY <2>2 DEF CallOK
  <2>7. ASSUME Untouched(c) PROVE args[outcome[c].planning].question = QuestionOf(c)
    <3>1. CASE pending[c] = NoTurn
      BY <2>2, <2>4, <2>6, <3>1 DEF QueryOK, CallOK, PhaseOK, QuestionOf
    <3>2. CASE pending[c] # NoTurn
      <4>1. PICK t \in Turns : pending[c].request = t.request
        BY <2>7, <3>2 DEF Untouched
      <4>2. PICK d \in Calls : Delivered(d) /\ t = Success(d)
        BY <1>1, TurnsAre
      <4>3. pending[c].request.query = outcome[d] /\ pending[c].request.question = QuestionOf(d)
        BY <4>1, <4>2 DEF Success
      <4>4. outcome[d].status = "awaiting_confirmation"
        BY <2>2, <3>2, <4>3 DEF CallOK, PendingOK
      <4>5. args[outcome[d].planning].question = QuestionOf(d)
        BY <1>1, <4>2, <4>4, QuestionOfAsk
      <4>6. outcome[c].planning = pending[c].request.query.planning
        BY <2>2, <2>4, <2>6, <3>2 DEF QueryOK, CallOK, PhaseOK
      <4> QED
        BY <3>2, <4>3, <4>5, <4>6 DEF QuestionOf
    <3> QED
      BY <3>1, <3>2
  <2> QED
    BY <1>1, <2>4, <2>5, <2>6, <2>7, QueryOfAsk DEF QueryOK
<1> QED
  BY <1>1, IInvAlways, PTL

(***************************************************************************)
(* A verdict is as strong as its evidence, and a failed query has none     *)
(* (_render with cautious_response and render_answer).                     *)
(***************************************************************************)
THEOREM VerdictCorrect == SpecAnswers => []VerdictIsEarned
<1>1. ASSUME IInv PROVE VerdictIsEarned
  <2>1. ASSUME NEW c \in Calls, outcome[c] \in Failures PROVE turn[c] \in {NoTurn, outcome[c]}
    <3>1. ~Delivered(c) /\ outcome[c] # NoOutcome /\ CallOK(c)
      BY <1>1, <2>1, Apart DEF Delivered, IInv
    <3>2. args[c] # NoArgs
      BY <3>1 DEF CallOK, PhaseOK
    <3> QED
      BY <3>1, <3>2 DEF CallOK, PhaseOK, TurnOK
  <2>2. ASSUME NEW t \in Turns
        PROVE  LET query == t.request.query
                   page == query.response.seen
                   answer == t.response.answer
               IN  /\ answer.status = "answered" =>
                        /\ Executed(query) /\ OnPage(page) # {} /\ page.fits
                        /\ answer.coverage = "complete" <=> OnPage(page) = 1 .. page.total
                   /\ answer = Cautious("no_results") => Executed(query) /\ 1 .. page.total = {}
                   /\ answer = Cautious("awaiting_confirmation") => ~Executed(query)
    <3>1. PICK c \in Calls : Delivered(c) /\ turn[c] = t /\ t = Success(c) /\ phase[c] = "ended"
      BY <1>1, TurnsAre
    <3> DEFINE o == outcome[c]
               page == o.response.seen
    <3>2. /\ t.request.query = o /\ t.response.answer = Rendered(o) /\ QueryOK(c) /\ o \in QueryOutcomes
      BY <1>1, <3>1, QueryOfAsk DEF Success, ResponseOf, IInv, CallOK
    <3>3. /\ o.plan \in Spanning /\ o.status # "confirmed" => ~Executed(o)
          /\ o.status = "awaiting_confirmation" => ~Executed(o)
      BY <3>1, <3>2 DEF QueryOK, ConsistentRequest
    <3>4. Executed(o) => page \in Evidence
      BY <3>2 DEF QueryOutcomes, Executed
    <3>5. Executed(o) => /\ page.total \in Nat /\ page.offset \in Nat /\ page.rows \in Nat
                         /\ page.rows <= page.total \/ page.rows = 0
      <4> SUFFICES ASSUME Executed(o) PROVE /\ page.total \in Nat /\ page.offset \in Nat /\ page.rows \in Nat
                                            /\ page.rows <= page.total \/ page.rows = 0
        OBVIOUS
      <4>1. /\ page \in [total : Nat, offset : Nat, limit : Nat \ {0}, rows : Nat, fits : BOOLEAN]
            /\ page.rows <= Room(page)
        BY <3>4, PageAssumption
      <4> HIDE DEF page
      <4> QED
        BY <4>1 DEF Room
    <3> HIDE DEF o
    <3>6. Rendered(o).status = "answered" =>
            /\ Executed(o) /\ page.rows # 0 /\ page.fits /\ Rendered(o) = Answered(Coverage(page))
      BY DEF Rendered, Cautious, Answered
    <3>7. Rendered(o) = Cautious("no_results") => Executed(o) /\ page.total = 0
      BY DEF Rendered, Cautious, Answered
    <3>8. Rendered(o) = Cautious("awaiting_confirmation") => ~Executed(o)
      BY <3>3 DEF Rendered, Cautious, Answered
    <3> HIDE DEF page
    <3>9. ASSUME Rendered(o).status = "answered"
          PROVE  /\ OnPage(page) # {}
                 /\ Rendered(o).coverage = "complete" <=> OnPage(page) = 1 .. page.total
      <4>1. page.rows \in Nat \ {0} /\ page.total \in Nat /\ page.offset \in Nat /\ page.rows <= page.total
        BY <3>5, <3>6, <3>9
      <4>2. page.offset + 1 \in OnPage(page)
        BY <4>1 DEF OnPage
      <4>3. Rendered(o).coverage = "complete" <=> page.offset = 0 /\ page.rows = page.total
        BY <3>6, <3>9 DEF Answered, Coverage
      <4>4. OnPage(page) = 1 .. page.total <=> page.offset = 0 /\ page.rows = page.total
        <5>1. ASSUME OnPage(page) = 1 .. page.total PROVE page.offset = 0 /\ page.rows = page.total
          <6>1. 1 \in OnPage(page) /\ page.total \in OnPage(page) /\ page.offset + page.rows \in OnPage(page)
            <7>1. page.offset + page.rows \in OnPage(page)
              BY <4>1 DEF OnPage
            <7>2. 1 \in 1 .. page.total /\ page.total \in 1 .. page.total
              BY <4>1
            <7> QED
              BY <5>1, <7>1, <7>2
          <6>2. page.offset + page.rows <= page.total
            BY <4>1, <5>1, <6>1
          <6> QED
            BY <4>1, <6>1, <6>2 DEF OnPage
        <5>2. ASSUME page.offset = 0, page.rows = page.total PROVE OnPage(page) = 1 .. page.total
          BY <4>1, <5>2 DEF OnPage
        <5> QED
          BY <5>1, <5>2
      <4> QED
        BY <4>2, <4>3, <4>4
    <3>10. Executed(o) /\ page.total = 0 => 1 .. page.total = {}
      OBVIOUS
    <3> QED
      BY <3>2, <3>6, <3>7, <3>8, <3>9, <3>10 DEF page
  <2> QED
    BY <2>1, <2>2 DEF VerdictIsEarned
<1> QED
  BY <1>1, IInvAlways, PTL

(***************************************************************************)
(* The events of a call tell how it ended, and link a confirmation to a    *)
(* turn that awaited it (_trace and _record_outcome).                      *)
(***************************************************************************)
THEOREM TraceCorrect == SpecAnswers => []TraceTellsTheTurn
<1>1. ASSUME IInv PROVE TraceTellsTheTurn
  <2> SUFFICES ASSUME NEW c \in Calls, phase[c] = "ended"
               PROVE  LET last == log[c][Len(log[c])]
                      IN  /\ last.event = "answer_operation"
                          /\ last.outcome = IF turn[c] \in Failures THEN turn[c].kind
                                            ELSE IF turn[c].response.answer \in {Answered("complete"), Answered("partial")}
                                            THEN "completed" ELSE "cautious"
                          /\ Len(log[c]) = IF Delivered(c) THEN 2 ELSE 1
                          /\ \A i \in 1 .. Len(log[c]) - 1 :
                               log[c][i] = Event("answer_render", last.outcome, None)
                          /\ last.previous # None =>
                               turn[last.previous].response = [context |-> context[c], id |-> last.previous,
                                                               answer |-> Cautious("awaiting_confirmation")]
    BY DEF TraceTellsTheTurn
  <2> DEFINE word == IF turn[c] \in Failures THEN turn[c].kind
                     ELSE IF turn[c].response.answer \in {Answered("complete"), Answered("partial")}
                     THEN "completed" ELSE "cautious"
             e1 == Event("answer_render", word, None)
             e2 == Event("answer_operation", word, Previous(c))
  <2>1. CallOK(c) /\ TurnOK(c)
    BY <1>1 DEF IInv, CallOK
  <2>2. log[c] = IF Delivered(c) THEN <<e1, e2>> ELSE <<e2>>
    <3>1. CASE Delivered(c) /\ turn[c] = Success(c)
      <4>1. turn[c] \in AnswerTurns \cup Failures /\ "request" \in DOMAIN turn[c]
        BY <1>1, <3>1, <2>1, Apart DEF IInv, TypeOK, CallOK, PhaseOK, Success
      <4>2. turn[c] \notin Failures /\ turn[c].response.answer = Rendered(outcome[c])
        BY <3>1, <4>1, Apart DEF Success, ResponseOf
      <4>3. word = Word(Rendered(outcome[c]))
        BY <4>2, RenderedIs
      <4>4. \A kind \in RenderErrors : turn[c] # Failure(kind)
        BY <4>2 DEF Failures, FailureKinds, RenderErrors
      <4> HIDE DEF word
      <4> QED
        BY <2>1, <3>1, <4>3, <4>4 DEF TurnOK
    <3>2. CASE Delivered(c) /\ turn[c] # Success(c)
      <4>1. PICK kind \in RenderErrors :
              /\ turn[c] = Failure(kind)
              /\ log[c] = <<Event("answer_render", kind, None), Event("answer_operation", kind, Previous(c))>>
        BY <2>1, <3>2 DEF TurnOK
      <4>2. turn[c] \in Failures
        BY <4>1 DEF Failures, FailureKinds, RenderErrors
      <4>3. word = kind
        BY <4>1, <4>2 DEF Failure
      <4> HIDE DEF word
      <4> QED
        BY <3>2, <4>1, <4>3
    <3>3. CASE ~Delivered(c)
      <4>1. turn[c] \in Failures /\ log[c] = <<Event("answer_operation", turn[c].kind, Previous(c))>>
        BY <2>1, <3>3 DEF TurnOK
      <4>2. word = turn[c].kind
        BY <4>1
      <4> HIDE DEF word
      <4> QED
        BY <3>3, <4>1, <4>2
    <3> QED
      BY <3>1, <3>2, <3>3
  <2>3. e1.outcome = word /\ e2.outcome = word /\ e2.event = "answer_operation" /\ e2.previous = Previous(c)
    BY DEF Event
  <2>4. Previous(c) # None =>
          turn[Previous(c)].response = [context |-> context[c], id |-> Previous(c),
                                        answer |-> Cautious("awaiting_confirmation")]
    <3> SUFFICES ASSUME Previous(c) # None
                 PROVE  turn[Previous(c)].response = [context |-> context[c], id |-> Previous(c),
                                                      answer |-> Cautious("awaiting_confirmation")]
      OBVIOUS
    <3>1. pending[c] # NoTurn /\ Previous(c) = pending[c].response.id
      BY DEF Previous
    <3>2. /\ pending[c].response \in [context : Contexts, id : Calls, answer : Verdicts]
          /\ turn[Previous(c)].response = pending[c].response /\ pending[c].response.context = context[c]
          /\ pending[c].response.answer = Cautious("awaiting_confirmation")
      BY <1>1, <2>1, <3>1 DEF IInv, TypeOK, AnswerTurns, CallOK, PendingOK
    <3> QED
      BY <3>1, <3>2
  <2> HIDE DEF word, e1, e2
  <2>5. CASE Delivered(c)
    <3>1. Len(log[c]) = 2 /\ log[c][1] = e1 /\ log[c][2] = e2
      BY <2>2, <2>5
    <3>2. \A i \in 1 .. Len(log[c]) - 1 : log[c][i] = Event("answer_render", word, None)
      BY <3>1 DEF e1
    <3> QED
      BY <2>3, <2>4, <2>5, <3>1, <3>2 DEF word
  <2>6. CASE ~Delivered(c)
    <3>1. Len(log[c]) = 1 /\ log[c][1] = e2
      BY <2>2, <2>6
    <3>2. \A i \in 1 .. Len(log[c]) - 1 : log[c][i] = Event("answer_render", word, None)
      BY <3>1
    <3> QED
      BY <2>3, <2>4, <2>6, <3>1, <3>2 DEF word
  <2> QED
    BY <2>5, <2>6
<1> QED
  BY <1>1, IInvAlways, PTL
=============================================================================

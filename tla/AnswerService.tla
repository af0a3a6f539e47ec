---------------------------- MODULE AnswerService ---------------------------
(***************************************************************************)
(* Answers over the query service: AnswerService.ask, confirm_scope and    *)
(* _render (app/answers/service.py) with the verdicts of cautious_response *)
(* and render_answer (validation.py, rendering.py) and the validators of   *)
(* the contracts.  QueryService is what its promise says it is.            *)
(*                                                                         *)
(* A turn is a request (the question and the query's outcome) and a        *)
(* response.  Callers hold turns and may put one together from parts of    *)
(* several before they confirm it.  Evidence is its page; `fits' says      *)
(* whether the text and the references it renders to are within the bounds *)
(* of RenderedAnswer.                                                      *)
(***************************************************************************)
EXTENDS QueryPromise, Naturals, Sequences

CONSTANT OperationOf \* the operation of each plan

VARIABLES phase,   \* where each call of the answer service is
          context, \* the caller's context
          pending, \* the turn a confirmation was called with
          turn,    \* the turn returned, or the error raised
          log      \* the call's own events, oldest first

own == <<phase, context, pending, turn, log>>

vars == <<promised, own>>

NoTurn == [status |-> "none"]

\* A turn's answer: a coverage, or the reason of a cautious one.
Answered(coverage) == [status |-> "answered", coverage |-> coverage]

Cautious(reason) == [status |-> "cautious", reason |-> reason]

Executed(query) == query.response # NoResponse

\* The most rows the page can have: EvidencePage.valid_page.
Room(page) ==
  LET left == IF page.offset < page.total THEN page.total - page.offset ELSE 0
  IN  IF left < page.limit THEN left ELSE page.limit

ASSUME PageAssumption ==
  /\ Evidence \subseteq [total : Nat, offset : Nat, limit : Nat \ {0}, rows : Nat, fits : BOOLEAN]
  /\ \A page \in Evidence : page.rows <= Room(page)

\* AnswerRequest.consistent_evidence, and the validator of its page.
ConsistentRequest(query) ==
  /\ query.plan = Declined => ~Executed(query) /\ query.status = "not_required"
  /\ query.status = "awaiting_confirmation" => ~Executed(query)
  /\ Executed(query) => /\ query.response.context = query.context
                        /\ OperationOf[query.response.plan] = OperationOf[query.plan]
                        /\ query.response.seen.rows <= Room(query.response.seen)

\* AnswerTurn.consistent_context.
ConsistentTurn(t) ==
  ConsistentRequest(t.request.query) /\ t.request.query.context = t.response.context

Coverage(page) ==
  IF page.offset = 0 /\ page.rows = page.total THEN "complete" ELSE "partial"

\* render_answer after cautious_response: the reasons in the order of the code.
Rendered(query) ==
  LET page == query.response.seen
  IN  IF query.plan = Declined THEN Cautious("declined")
      ELSE IF \/ query.status = "awaiting_confirmation"
              \/ query.plan \in Spanning /\ query.status # "confirmed"
      THEN Cautious("awaiting_confirmation")
      ELSE IF ~Executed(query) THEN Cautious("insufficient_evidence")
      ELSE IF page.total = 0 THEN Cautious("no_results")
      ELSE IF page.rows = 0 THEN Cautious("insufficient_evidence")
      ELSE IF ~page.fits THEN Cautious("invalid_answer")
      ELSE Answered(Coverage(page))

-----------------------------------------------------------------------------
Event(event, word, previous) == [event |-> event, outcome |-> word, previous |-> previous]

\* An operation names the turn it confirms, from the moment it has been accepted.
Previous(c) == IF pending[c] = NoTurn THEN None ELSE pending[c].response.id

\* Variant for mutation: the operation's block is left before its outcome is recorded.
WordUnrecorded(answer) == "completed"

Word(answer) == IF answer.status = "cautious" THEN "cautious" ELSE "completed"

InitAnswers == /\ Init
               /\ phase = [c \in Calls |-> "idle"]
               /\ context = [c \in Calls |-> None]
               /\ pending = [c \in Calls |-> NoTurn]
               /\ turn = [c \in Calls |-> NoTurn]
               /\ log = [c \in Calls |-> << >>]

Leave(c, result, events) ==
  /\ phase' = [phase EXCEPT ![c] = "ended"]
  /\ turn' = [turn EXCEPT ![c] = result]
  /\ log' = [log EXCEPT ![c] = events]

\* ask, up to the query's own ask.
AskTurn(c, caller, question) ==
  /\ phase[c] = "idle"
  /\ Ask(c, caller, question)
  /\ phase' = [phase EXCEPT ![c] = "querying"]
  /\ context' = [context EXCEPT ![c] = caller]
  /\ UNCHANGED <<pending, turn, log>>

\* confirm_scope's own check of the turn it is given.
Acceptable(caller, held) ==
  /\ ConsistentTurn(held)
  /\ held.response.context = caller
  /\ held.response.answer = Cautious("awaiting_confirmation")
  /\ held.request.query.status = "awaiting_confirmation"

\* confirm_scope, up to the query's own confirm_scope.
ConfirmTurn(c, caller, held, approved) ==
  /\ phase[c] = "idle"
  /\ context' = [context EXCEPT ![c] = caller]
  /\ IF Acceptable(caller, held)
     THEN /\ ConfirmScope(c, caller, held.request.query, approved)
          /\ phase' = [phase EXCEPT ![c] = "querying"]
          /\ pending' = [pending EXCEPT ![c] = held]
          /\ UNCHANGED <<turn, log>>
     ELSE /\ Leave(c, Failure("invalid_plan"),
                   <<Event("answer_operation", "invalid_plan", None)>>)
          /\ UNCHANGED <<promised, pending>>

\* Variant for mutation: the question is looked up by the synthesis id of the response.
QuestionByResponse(c) ==
  IF pending[c] = NoTurn THEN args[c].question ELSE turn[pending[c].response.id].request.question

\* The question an answer is given to.
QuestionOf(c) ==
  IF pending[c] = NoTurn THEN args[c].question ELSE pending[c].request.question

\* Variant for mutation: a failure of the query is told as an empty result.
RaiseAsNoResults(c, kind, events) ==
  Leave(c, [request |-> [question |-> QuestionOf(c), query |-> outcome[c]],
            response |-> [context |-> context[c], id |-> c, answer |-> Cautious("no_results")]],
        Append(events, Event("answer_operation", "cautious", Previous(c))))

\* An exception leaves the operation's block.
Raise(c, kind, events) ==
  Leave(c, Failure(kind), Append(events, Event("answer_operation", kind, Previous(c))))

\* The query has failed: its error propagates through the operation's block.
Propagate(c) ==
  /\ phase[c] = "querying" /\ outcome[c] # NoOutcome
  /\ outcome[c].status = "failed"
  /\ Raise(c, outcome[c].kind, << >>)
  /\ UNCHANGED <<promised, context, pending>>

\* An AnswerResponse with this call's synthesis_operation_id.
ResponseOf(c, answer) == [context |-> outcome[c].context, id |-> c, answer |-> answer]

Deliverable(c) == phase[c] = "querying" /\ Delivered(c)

\* An outcome of another context, or no valid request, is refused; otherwise _render,
\* in its block, and the outcome recorded in both.
Render(c) ==
  LET answer == Rendered(outcome[c])
  IN  /\ Deliverable(c)
      /\ IF outcome[c].context # context[c] THEN Raise(c, "invalid_plan", << >>)
         ELSE IF ~ConsistentRequest(outcome[c]) THEN Raise(c, "invalid_answer", << >>)
         ELSE Leave(c, [request |-> [question |-> QuestionOf(c), query |-> outcome[c]],
                        response |-> ResponseOf(c, answer)],
                    <<Event("answer_render", Word(answer), None),
                      Event("answer_operation", Word(answer), Previous(c))>>)
      /\ UNCHANGED <<promised, context, pending>>

\* What else _render can raise: its turn is no valid one, or anything unforeseen.
RenderErrors == {"invalid_answer", "internal_error"}

\* Rendering raises: both blocks see it.
RenderFails(c) ==
  /\ Deliverable(c)
  /\ \E kind \in RenderErrors : Raise(c, kind, <<Event("answer_render", kind, None)>>)
  /\ UNCHANGED <<promised, context, pending>>

-----------------------------------------------------------------------------
Turns == {turn[c] : c \in {d \in Calls : phase[d] = "ended" /\ "request" \in DOMAIN turn[d]}}

\* Turns a caller can hold: those returned, and those put together from parts of several.
Held == {[request |-> [question |-> t1.request.question, query |-> t2.request.query],
          response |-> t3.response] : t1 \in Turns, t2 \in Turns, t3 \in Turns}

\* The call was not given a request that a caller took apart.
Untouched(c) == pending[c] # NoTurn => pending[c].request \in {t.request : t \in Turns}

AnyAskTurn(c) == \E caller \in Contexts, question \in Questions \cup {None} :
                   AskTurn(c, caller, question)

AnyConfirmTurn(c) == \E caller \in Contexts, held \in Held, approved \in Plans :
                       ConfirmTurn(c, caller, held, approved)

QueryAnswers(c) == Answer(c) /\ UNCHANGED own

Continue(c) == Propagate(c) \/ Render(c)

NextAnswers == \/ \E c \in Asks : AnyAskTurn(c)
               \/ \E c \in Confirms : AnyConfirmTurn(c)
               \/ \E c \in Calls : QueryAnswers(c) \/ Continue(c) \/ RenderFails(c)

SpecAnswers == InitAnswers /\ [][NextAnswers]_vars

-----------------------------------------------------------------------------
Failures == {Failure(kind) : kind \in FailureKinds \cup {"invalid_answer"}}

QueryOutcomes ==
  [status : {"not_required", "awaiting_confirmation", "confirmed"}, context : Contexts, planning : Asks,
   plan : Plans \cup {Declined}, response : {NoResponse} \cup [seen : Evidence, plan : Plans, context : Contexts]]

Passed ==
  [kind : {"ask"}, context : Contexts, question : Questions \cup {None}]
    \cup [kind : {"confirm"}, context : Contexts, proposal : QueryOutcomes, approved : Plans]

Reasons == {"declined", "awaiting_confirmation", "insufficient_evidence", "no_results", "invalid_answer"}

Verdicts == {Answered("complete"), Answered("partial")} \cup {Cautious(reason) : reason \in Reasons}

AnswerTurns ==
  [request : [question : Questions \cup {None}, query : QueryOutcomes],
   response : [context : Contexts, id : Calls, answer : Verdicts]]

Events ==
  [event : {"answer_operation", "answer_render"}, previous : Calls \cup {None},
   outcome : FailureKinds \cup {"invalid_answer", "cautious", "completed"}]

TypeOK ==
  /\ args \in [Calls -> {NoArgs} \cup Passed]
  /\ outcome \in [Calls -> {NoOutcome} \cup QueryOutcomes \cup {Failure(kind) : kind \in FailureKinds}]
  /\ phase \in [Calls -> {"idle", "querying", "ended"}]
  /\ context \in [Calls -> Contexts \cup {None}]
  /\ pending \in [Calls -> {NoTurn} \cup AnswerTurns]
  /\ turn \in [Calls -> {NoTurn} \cup AnswerTurns \cup Failures]
  /\ log \in [Calls -> Seq(Events)]

(***************************************************************************)
(* Whatever turns a caller puts together, the records of an answer were    *)
(* read for the plan it shows, which an ask in this context proposed, and  *)
(* a plan over several facilities was approved in this very call.  The     *)
(* question is that of this ask, with whatever response its request is     *)
(* presented.  Only a caller that takes the request itself apart can give  *)
(* it another question: nothing ties the question to its query, and the    *)
(* contract calls the request trusted.  (confirm_scope, lines 81 to 107,   *)
(* and AnswerRequest, contracts.py, 90 to 118.)                            *)
(***************************************************************************)
AnswersOwnQuestion ==
  \A c \in Calls : (turn[c] \in Turns /\ Executed(turn[c].request.query)) =>
    LET request == turn[c].request
        query == request.query
        asked == args[query.planning]
    IN  /\ query.response.plan = query.plan
        /\ asked.kind = "ask"
        /\ {asked.context, query.context, query.response.context} = {context[c]}
        /\ query.plan \in Spanning => args[c].kind = "confirm" /\ args[c].approved = query.plan
        /\ Untouched(c) => asked.question = request.question

\* The numbers of the records on a page, of those that match.
OnPage(page) == page.offset + 1 .. page.offset + page.rows

(***************************************************************************)
(* A verdict is as strong as the evidence.  Complete means that the page   *)
(* has every matching record, `no results' that a query was executed and   *)
(* nothing matched, and a query that failed has no answer at all, whether  *)
(* the database, the model or an approval was the reason.                  *)
(* ("Query errors propagate unchanged; they must not become a no-results   *)
(* answer", app/answers/service.py:62.)                                    *)
(***************************************************************************)
VerdictIsEarned ==
  /\ \A c \in Calls : outcome[c] \in Failures => turn[c] \in {NoTurn, outcome[c]}
  /\ \A t \in Turns :
       LET query == t.request.query
           page == query.response.seen
           answer == t.response.answer
       IN  /\ answer.status = "answered" =>
                /\ Executed(query) /\ OnPage(page) # {} /\ page.fits
                /\ answer.coverage = "complete" <=> OnPage(page) = 1 .. page.total
           /\ answer = Cautious("no_results") => Executed(query) /\ 1 .. page.total = {}
           /\ answer = Cautious("awaiting_confirmation") => ~Executed(query)

(***************************************************************************)
(* The events of a call tell how it ended: one operation, last, with the   *)
(* caller's own verdict, after one rendering exactly if the query gave an  *)
(* outcome to render; and the link to an earlier turn is to one that did   *)
(* await a confirmation in this context.  (_trace and _record_outcome.)    *)
(***************************************************************************)
TraceTellsTheTurn ==
  \A c \in Calls : phase[c] = "ended" =>
    LET last == log[c][Len(log[c])]
    IN  /\ last.event = "answer_operation"
        /\ last.outcome = IF turn[c] \in Failures THEN turn[c].kind
                          ELSE IF turn[c].response.answer \in {Answered("complete"), Answered("partial")}
                          THEN "completed" ELSE "cautious"
        /\ Len(log[c]) = IF Delivered(c) THEN 2 ELSE 1
        /\ \A i \in 1 .. Len(log[c]) - 1 :
             log[c][i] = Event("answer_render", last.outcome, None)
        /\ last.previous # None =>
             turn[last.previous].response = [context |-> context[c], id |-> last.previous,
                                             answer |-> Cautious("awaiting_confirmation")]

=============================================================================

---------------------------- MODULE QueryPromise ----------------------------
(***************************************************************************)
(* What a caller of QueryService.ask and confirm_scope may rely on         *)
(* (app/queries/service.py), whatever the model, the database and the      *)
(* other callers do.  A question has one of three ends: the model or the   *)
(* guard declines it, its plan waits for an approval because it ranges     *)
(* over several facilities, or its plan is executed; and an approval of    *)
(* exactly the pending plan executes that plan.  QueryService implements   *)
(* this, and AnswerService is built on it.                                 *)
(***************************************************************************)
CONSTANTS Asks, Confirms, \* calls of ask and of confirm_scope
          Contexts, Questions,
          Plans,     \* what can be executed
          Spanning,  \* the plans that need a confirmation
          Declined,  \* the outcome that is no plan
          Evidence,  \* what an execution may read
          None

Calls == Asks \cup Confirms

ASSUME PromiseAssumption ==
  /\ Spanning \subseteq Plans /\ Declined \notin Plans
  /\ Asks \cap Confirms = {} /\ None \notin Questions

VARIABLES args,    \* what each caller passed
          outcome  \* what each call returned or raised

promised == <<args, outcome>>

NoArgs == [kind |-> "none"]

NoResponse == [seen |-> None]

NoOutcome == [status |-> "none"]

FailureKinds == {"invalid_plan", "not_found", "model_failure", "database_unavailable",
                 "timeout", "resource_limit", "internal_error"}

Failure(kind) == [status |-> "failed", kind |-> kind]

\* A QueryOutcome; planning names the call whose planning_operation_id it has.
Outcome(context, planning, status, p, response) ==
  [status |-> status, context |-> context, planning |-> planning, plan |-> p,
   response |-> response]

Delivered(c) == outcome[c] # NoOutcome /\ outcome[c].status # "failed"

\* QueryOutcomes that callers have been given.
Given == {outcome[c] : c \in {d \in Calls : Delivered(d)}}

Init == /\ args = [c \in Calls |-> NoArgs]
        /\ outcome = [c \in Calls |-> NoOutcome]

End(c, o) == outcome' = [outcome EXCEPT ![c] = o]

Ask(c, context, question) ==
  /\ args[c] = NoArgs
  /\ args' = [args EXCEPT ![c] = [kind |-> "ask", context |-> context, question |-> question]]
  /\ IF question = None THEN End(c, Failure("invalid_plan")) ELSE UNCHANGED outcome

\* Variant for mutation: the approved plan is not compared with the pending one.
ConfirmableAnyPlan(context, proposal, approved) ==
  /\ proposal.status = "awaiting_confirmation" /\ proposal.context = context
  /\ approved # Declined

\* Only the pending plan can be approved, and only in the context it was proposed in.
Confirmable(context, proposal, approved) ==
  /\ proposal.status = "awaiting_confirmation" /\ proposal.context = context
  /\ approved # Declined /\ approved = proposal.plan

ConfirmScope(c, context, proposal, approved) ==
  /\ args[c] = NoArgs
  /\ args' = [args EXCEPT ![c] = [kind |-> "confirm", context |-> context,
                                  proposal |-> proposal, approved |-> approved]]
  /\ IF Confirmable(context, proposal, approved) THEN UNCHANGED outcome
     ELSE End(c, Failure("invalid_plan"))

Response(context, p, evidence) == [seen |-> evidence, plan |-> p, context |-> context]

Answers(c) ==
  LET context == args[c].context
  IN  IF args[c].kind = "ask"
      THEN {Outcome(context, c, "not_required", Declined, NoResponse)}
             \cup {Outcome(context, c, "awaiting_confirmation", p, NoResponse) : p \in Spanning}
             \cup {Outcome(context, c, "not_required", p, Response(context, p, evidence)) :
                     p \in Plans \ Spanning, evidence \in Evidence}
      ELSE {[args[c].proposal EXCEPT !.status = "confirmed",
                                     !.response = Response(context, args[c].approved, evidence)] :
              evidence \in Evidence}

Answer(c) ==
  /\ args[c] # NoArgs /\ outcome[c] = NoOutcome
  /\ \E o \in Answers(c) \cup {Failure(kind) : kind \in FailureKinds} : End(c, o)
  /\ UNCHANGED args

AnyAsk(c) == \E context \in Contexts, question \in Questions \cup {None} :
               Ask(c, context, question)

AnyConfirm(c) ==
  \E context \in Contexts, proposal \in Given, approved \in Plans \cup {Declined} :
    ConfirmScope(c, context, proposal, approved)

Next == \/ \E c \in Asks : AnyAsk(c)
        \/ \E c \in Confirms : AnyConfirm(c)
        \/ \E c \in Calls : Answer(c)

Spec == Init /\ [][Next]_promised
=============================================================================

---------------------------- MODULE ModelService ----------------------------
(***************************************************************************)
(* Bounded model execution: ModelService.generate (app/llm/service.py)     *)
(* over a ModelProvider, with the answer classification of OpenAIProvider  *)
(* (app/llm/openai_provider.py).                                           *)
(*                                                                         *)
(* One service serves several logical calls, named by the operation_id of  *)
(* their ModelCallContext; a call is a loop of attempts in its caller's    *)
(* thread.  A prompt or an answer text is abstracted to what the service   *)
(* tells apart; log[op] is the telemetry that carries op's operation_id.   *)
(***************************************************************************)
EXTENDS Naturals, Sequences

CONSTANTS Ops,          \* logical model calls, each with a context of its own
          Configured,   \* those whose model_id is the one the provider serves
          MaxAttempts   \* ModelService(max_attempts=...)

ASSUME OpsAssumption == Configured \subseteq Ops
ASSUME AttemptsAssumption == MaxAttempts \in 1 .. 3

VARIABLES pc,        \* where the call's thread is
          attempt,   \* the loop variable, 0 before the first attempt
          sent,      \* requests the provider put on the wire for the call
          slept,     \* time slept between attempts so far, in half seconds
          log,       \* events recorded for the call, oldest first
          result     \* what generate returned or raised

vars == <<pc, attempt, sent, slept, log, result>>

-----------------------------------------------------------------------------
Finishes == {"completed", "output_limit"}

ErrorKinds == {"authentication", "invalid_request", "rate_limit", "quota_exceeded",
               "timeout", "unavailable", "invalid_response", "refused"}

Retryable == {"rate_limit", "timeout", "unavailable"}

\* What an attempt or a call can come to: a response, a ModelCallError of a
\* kind, or another exception that is passed on unchanged.
Verdicts == Finishes \cup ErrorKinds \cup {"internal_error"}

\* What the caller of generate is left with: the context and the verdict.
Answers == [context : Ops, verdict : Verdicts]

NoResult == [verdict |-> "none"]

(***************************************************************************)
(* What the SDK call can do: raise, or return a response of which the      *)
(* adapter looks at the error code, the status, the incomplete reason and  *)
(* the worst item of the output.                                           *)
(***************************************************************************)
SdkFailures == [type : {"timeout", "connection", "unparsable", "bug"}]
                 \cup [type : {"status"}, status : {400, 401, 403, 408, 409, 429, 500},
                       quota : BOOLEAN]

SdkResponses == [type : {"response"},
                 error : {"none", "server_error", "rate_limit_exceeded",
                          "invalid_prompt", "bio_policy", "other"},
                 status : {"completed", "incomplete", "failed"},
                 reason : {"none", "max_output_tokens", "content_filter"},
                 output : {"text", "blank", "refusal", "unusable"}]

\* A status error: 401 and 403 are bad credentials, 429 a quota or a rate
\* limit, 408 a timeout, 409 and 5xx an outage, and the rest a bad request.
StatusKind(status, quota) ==
  IF status \in {401, 403} THEN "authentication"
  ELSE IF status = 429 THEN IF quota THEN "quota_exceeded" ELSE "rate_limit"
  ELSE IF status = 408 THEN "timeout"
  ELSE IF status = 409 \/ status >= 500 THEN "unavailable"
  ELSE "invalid_request"

RaisedKind == [timeout |-> "timeout", connection |-> "unavailable",
               unparsable |-> "invalid_response", bug |-> "internal_error"]

ErrorKind == [server_error |-> "unavailable", rate_limit_exceeded |-> "rate_limit",
              invalid_prompt |-> "invalid_request", bio_policy |-> "refused",
              other |-> "invalid_response"]

\* _normalize: the error object first, then the finish reason, then the output.
Normalize(r) ==
  LET completed == r.status = "completed" /\ r.reason = "none"
      truncated == r.status = "incomplete" /\ r.reason = "max_output_tokens"
  IN  IF r.error # "none" THEN ErrorKind[r.error]
      ELSE IF r.reason = "content_filter" THEN "refused"
      ELSE IF ~(completed \/ truncated) THEN "invalid_response"
      ELSE IF r.output = "refusal" THEN "refused"
      ELSE IF r.output # "text" THEN "invalid_response"
      ELSE IF completed THEN "completed" ELSE "output_limit"

\* OpenAIProvider.generate: a request for another model never reaches the SDK.
ProviderVerdict(op, sdk) ==
  IF op \notin Configured THEN "invalid_request"
  ELSE IF sdk.type = "response" THEN Normalize(sdk)
  ELSE IF sdk.type = "status" THEN StatusKind(sdk.status, sdk.quota)
  ELSE RaisedKind[sdk.type]

\* Variant for mutation: the provider is trusted with the context.
CheckedTrusting(op, answer) == answer

\* The service does not trust a provider with the context: a response or an
\* error that carries another call's is an invalid response of this call.
Checked(op, answer) ==
  IF answer.context = op THEN answer
  ELSE [context |-> op, verdict |-> "invalid_response"]

\* The longest sleep after each attempt, in half seconds: 2 ** (attempt - 1).
BackoffHalves == <<1, 2, 4>>

-----------------------------------------------------------------------------
AttemptEvent(op, verdict) ==
  [event |-> "model_attempt", attempt |-> attempt[op], verdict |-> verdict]

OperationEvent(op, verdict) ==
  [event |-> "model_operation", attempt |-> attempt[op], verdict |-> verdict]

Init == /\ pc = [op \in Ops |-> "idle"]
        /\ attempt = [op \in Ops |-> 0]
        /\ sent = [op \in Ops |-> 0]
        /\ slept = [op \in Ops |-> 0]
        /\ log = [op \in Ops |-> << >>]
        /\ result = [op \in Ops |-> NoResult]

\* The caller enters generate and the loop its first attempt.
Generate(op) ==
  /\ pc[op] = "idle"
  /\ pc' = [pc EXCEPT ![op] = "attempt"]
  /\ attempt' = [attempt EXCEPT ![op] = 1]
  /\ UNCHANGED <<sent, slept, log, result>>

\* A transient failure, with attempts left.
MayRetry(op, verdict) == verdict \in Retryable /\ attempt[op] # MaxAttempts

\* Variant for mutation: the operation is recorded before its last attempt.
LastEventsSwapped(op, verdict) == <<OperationEvent(op, verdict), AttemptEvent(op, verdict)>>

LastEvents(op, verdict) == <<AttemptEvent(op, verdict), OperationEvent(op, verdict)>>

\* The attempt decides the call: it brought a response, a failure that is
\* final for its kind, or the failure of the last attempt.
Finish(op, answer) ==
  /\ ~MayRetry(op, answer.verdict)
  /\ log' = [log EXCEPT ![op] = @ \o LastEvents(op, answer.verdict)]
  /\ result' = [result EXCEPT ![op] = answer]
  /\ pc' = [pc EXCEPT ![op] = "done"]

\* A transient failure with attempts left is recorded, and the call sleeps.
BackOff(op, answer) ==
  /\ MayRetry(op, answer.verdict)
  /\ log' = [log EXCEPT ![op] = Append(@, AttemptEvent(op, answer.verdict))]
  /\ pc' = [pc EXCEPT ![op] = "sleeping"]
  /\ UNCHANGED result

\* Variant for mutation: the SDK's own retry loop is left enabled.
SendTwice(op) == [sent EXCEPT ![op] = IF op \in Configured THEN @ + 2 ELSE @]

\* with_options(max_retries=0): one request on the wire per attempt.
Send(op) == [sent EXCEPT ![op] = IF op \in Configured THEN @ + 1 ELSE @]

\* One pass of the loop: the provider answers, or lets an exception through
\* (which has no context to mix up), and the service records and decides.
Attempt(op, context, sdk) ==
  LET verdict == ProviderVerdict(op, sdk)
      answer == Checked(op, [context |-> context, verdict |-> verdict])
  IN  /\ pc[op] = "attempt"
      /\ verdict = "internal_error" => context = op
      /\ Finish(op, answer) \/ BackOff(op, answer)
      /\ sent' = Send(op)
      /\ UNCHANGED <<attempt, slept>>

\* The loop goes on while its range lasts; then the last line raises, outside of the blocks
\* that record.
GoOn(op) ==
  \/ /\ attempt[op] # MaxAttempts
     /\ attempt' = [attempt EXCEPT ![op] = @ + 1]
     /\ pc' = [pc EXCEPT ![op] = "attempt"]
     /\ UNCHANGED result
  \/ /\ attempt[op] = MaxAttempts
     /\ result' = [result EXCEPT ![op] = [context |-> op, verdict |-> "internal_error"]]
     /\ pc' = [pc EXCEPT ![op] = "done"]
     /\ UNCHANGED attempt

\* Full jitter: the sleep ends after 0 to 0.5 * 2 ** (attempt - 1) seconds.
Wake(op, halves) ==
  /\ pc[op] = "sleeping"
  /\ halves <= BackoffHalves[attempt[op]]
  /\ slept' = [slept EXCEPT ![op] = @ + halves]
  /\ GoOn(op)
  /\ UNCHANGED <<sent, log>>

\* An exception out of the sleep ends the call without another attempt event.
SleepRaises(op) ==
  /\ pc[op] = "sleeping"
  /\ log' = [log EXCEPT ![op] = Append(@, OperationEvent(op, "internal_error"))]
  /\ result' = [result EXCEPT ![op] = [context |-> op, verdict |-> "internal_error"]]
  /\ pc' = [pc EXCEPT ![op] = "done"]
  /\ UNCHANGED <<attempt, sent, slept>>

Sdk == SdkFailures \cup SdkResponses

AnyAttempt(op) == \E context \in Ops, sdk \in Sdk : Attempt(op, context, sdk)

AnyWake(op) == \E halves \in 0 .. BackoffHalves[3] : Wake(op, halves)

Next == \E op \in Ops : Generate(op) \/ AnyAttempt(op) \/ AnyWake(op) \/ SleepRaises(op)

\* Variant for mutation: the request's own timeout is not passed on to the SDK.
NoTimeout == FALSE

\* with_options(timeout=...): an attempt that nobody answers is given up.
TimesOut == TRUE

\* Every attempt has a timeout and every sleep ends; no caller has to start.
Fairness == \A op \in Ops : (TimesOut => WF_vars(AnyAttempt(op))) /\ WF_vars(AnyWake(op))

Spec == Init /\ [][Next]_vars /\ Fairness

-----------------------------------------------------------------------------
Events == [event : {"model_attempt", "model_operation"}, attempt : 1 .. MaxAttempts,
           verdict : Verdicts]

\* Types: no count of attempts or of requests on the wire exceeds MaxAttempts,
\* and every event and result is of the closed vocabulary.
TypeOK == /\ pc \in [Ops -> {"idle", "attempt", "sleeping", "done"}]
          /\ attempt \in [Ops -> 0 .. MaxAttempts]
          /\ sent \in [Ops -> 0 .. MaxAttempts]
          /\ slept \in [Ops -> Nat]
          /\ log \in [Ops -> Seq(Events)]
          /\ result \in [Ops -> Answers \cup {NoResult}]

\* Attempts of the call whose answer has been recorded.
Recorded(op) == IF pc[op] = "attempt" THEN attempt[op] - 1 ELSE attempt[op]

(***************************************************************************)
(* The telemetry of a call tells its whole story: one model_attempt event  *)
(* per attempt, numbered 1, 2, ... in order, each but the last with a      *)
(* retryable failure, and once the call is over exactly one                *)
(* model_operation event, the last one, with the number of attempts made   *)
(* and the verdict the caller got.  (_record in every branch of generate.) *)
(***************************************************************************)
StoryOf(op) ==
  LET n == Recorded(op)
  IN  /\ Len(log[op]) = IF pc[op] = "done" THEN n + 1 ELSE n
      /\ \A i \in 1 .. n : /\ log[op][i].event = "model_attempt"
                           /\ log[op][i].attempt = i
                           /\ i < attempt[op] \/ pc[op] = "sleeping"
                                => log[op][i].verdict \in Retryable
      /\ pc[op] = "done" => log[op][n + 1] = OperationEvent(op, result[op].verdict)

TelemetryTellsTheCall == \A op \in Ops : StoryOf(op)

(***************************************************************************)
(* What the caller gets carries its own context, whatever context the      *)
(* provider's answers carried, and is never a transient failure while      *)
(* attempts are left.  (The checks at lines 52 and 55 and the test at 60.) *)
(***************************************************************************)
ResultIsOwnAndFinal ==
  \A op \in Ops :
    pc[op] = "done" =>
      /\ result[op].context = op
      /\ result[op].verdict \in Retryable => attempt[op] = MaxAttempts

(***************************************************************************)
(* Requests on the wire never outnumber the attempts the service counted   *)
(* ("Limits count attempts, including the initial call"), and the sleeps   *)
(* before attempt 2 and before attempt 3 add up to at most 0.5 and 1.5 s.  *)
(***************************************************************************)
CostIsBounded ==
  \A op \in Ops : /\ sent[op] <= attempt[op] /\ attempt[op] <= MaxAttempts
                  /\ slept[op] <= IF attempt[op] <= 1 THEN 0
                                   ELSE IF attempt[op] = 2 THEN 1 ELSE 3

\* A call that was started ends, although the model may never answer: it has finitely
\* many attempts, each with a timeout, and each sleep ends.
EveryCallEnds == \A op \in Ops : pc[op] = "attempt" ~> pc[op] = "done"

\* generate is a bounded call: the sum of its steps is a ModelCall.
Promise == INSTANCE ModelCall WITH
  Transient <- Retryable,
  state <- [op \in Ops |-> IF pc[op] = "idle" THEN "idle"
                           ELSE IF pc[op] = "done" THEN "ended" ELSE "calling"],
  budget <- [op \in Ops |-> MaxAttempts - sent[op]],
  answer <- result

IsBoundedCall == Promise!Spec
=============================================================================

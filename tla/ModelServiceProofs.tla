------------------------- MODULE ModelServiceProofs -------------------------
(***************************************************************************)
(* The telemetry, the ownership of the result and the cost of a call, for  *)
(* every set of calls and every legal max_attempts.                        *)
(***************************************************************************)
EXTENDS ModelService, SequenceTheorems, TLAPS

\* Whatever the SDK does, the adapter and the context check come to a verdict.
LEMMA CheckedType ==
  ASSUME NEW op \in Ops, NEW context \in Ops, NEW sdk \in Sdk
  PROVE  LET answer == Checked(op, [context |-> context, verdict |-> ProviderVerdict(op, sdk)])
         IN  answer \in Answers /\ answer.context = op
<1>1. ProviderVerdict(op, sdk) \in Verdicts
  <2> USE DEF Verdicts, ErrorKinds, Finishes
  <2>1. CASE sdk \in SdkResponses
    <3>1. sdk.type = "response"
      BY <2>1 DEF SdkResponses
    <3>2. sdk.error # "none" => ErrorKind[sdk.error] \in ErrorKinds
      BY <2>1 DEF SdkResponses, ErrorKind
    <3>3. Normalize(sdk) \in Verdicts
      BY <3>2 DEF Normalize
    <3> QED
      BY <3>1, <3>3 DEF ProviderVerdict
  <2>2. CASE sdk \in SdkFailures
    <3>1. CASE sdk.type = "status"
      BY <3>1 DEF ProviderVerdict, StatusKind
    <3>2. CASE sdk.type \in {"timeout", "connection", "unparsable", "bug"}
      BY <3>2 DEF ProviderVerdict, RaisedKind
    <3> QED
      BY <2>2, <3>1, <3>2 DEF SdkFailures
  <2> QED
    BY <2>1, <2>2 DEF Sdk
<1> QED
  BY <1>1 DEF Checked, Answers, Verdicts, ErrorKinds

-----------------------------------------------------------------------------
(***************************************************************************)
(* The strengthening.  Counters ties the loop variable, the requests on    *)
(* the wire and the sleeps to the place of the thread; without it neither  *)
(* the type of sent nor the numbering of the events is inductive.          *)
(***************************************************************************)
Counters ==
  \A op \in Ops : /\ pc[op] = "idle" <=> attempt[op] = 0
                  /\ pc[op] = "sleeping" => attempt[op] < MaxAttempts
                  /\ sent[op] = IF op \in Configured THEN Recorded(op) ELSE 0
                  /\ pc[op] = "idle" => log[op] = << >>

IInv == TypeOK /\ Counters /\ TelemetryTellsTheCall /\ ResultIsOwnAndFinal /\ CostIsBounded

LEMMA InitIInv == Init => IInv
<1> SUFFICES ASSUME Init PROVE IInv
  OBVIOUS
<1> USE AttemptsAssumption
<1>1. TypeOK
  BY DEF Init, TypeOK
<1>2. Counters /\ CostIsBounded
  BY DEF Init, Counters, CostIsBounded, Recorded
<1>3. TelemetryTellsTheCall /\ ResultIsOwnAndFinal
  BY DEF Init, TelemetryTellsTheCall, StoryOf, ResultIsOwnAndFinal, Recorded
<1> QED
  BY <1>1, <1>2, <1>3 DEF IInv

LEMMA GenerateIInv ==
  ASSUME IInv, NEW op \in Ops, Generate(op) PROVE IInv'
<1> USE AttemptsAssumption DEF IInv
<1>1. TypeOK'
  BY DEF Generate, TypeOK
<1>2. Counters' /\ CostIsBounded'
  BY DEF Generate, TypeOK, Counters, CostIsBounded, Recorded
<1>3. TelemetryTellsTheCall' /\ ResultIsOwnAndFinal'
  BY DEF Generate, TypeOK, Counters, TelemetryTellsTheCall, StoryOf, ResultIsOwnAndFinal,
         Recorded, OperationEvent
<1> QED
  BY <1>1, <1>2, <1>3

\* Two events appended to a log.
LEMMA AppendTwo ==
  ASSUME NEW S, NEW s \in Seq(S), NEW a \in S, NEW b \in S
  PROVE  /\ s \o <<a, b>> \in Seq(S)
         /\ Len(s \o <<a, b>>) = Len(s) + 2
         /\ \A i \in 1 .. Len(s) : (s \o <<a, b>>)[i] = s[i]
         /\ (s \o <<a, b>>)[Len(s) + 1] = a
         /\ (s \o <<a, b>>)[Len(s) + 2] = b
<1> DEFINE t == <<a, b>>
<1>1. t \in Seq(S) /\ Len(t) = 2 /\ t[1] = a /\ t[2] = b
  OBVIOUS
<1> HIDE DEF t
<1>2. /\ s \o t \in Seq(S) /\ Len(s \o t) = Len(s) + Len(t)
      /\ \A i \in 1 .. Len(s) + Len(t) : (s \o t)[i] = IF i <= Len(s) THEN s[i] ELSE t[i - Len(s)]
  BY <1>1, ConcatProperties
<1>3. Len(s) \in Nat
  OBVIOUS
<1> DEFINE n == Len(s)
<1> HIDE DEF n
<1>4. /\ n + 1 \in 1 .. n + 2 /\ n + 2 \in 1 .. n + 2
      /\ (n + 1) - n = 1 /\ (n + 2) - n = 2
      /\ ~(n + 1 <= n) /\ ~(n + 2 <= n)
      /\ \A i \in 1 .. n : i \in 1 .. n + 2 /\ i <= n
  BY <1>3 DEF n
<1>5. \A i \in 1 .. n + 2 : (s \o t)[i] = IF i <= n THEN s[i] ELSE t[i - n]
  BY <1>1, <1>2 DEF n
<1>6. /\ \A i \in 1 .. n : (s \o t)[i] = s[i]
      /\ (s \o t)[n + 1] = a /\ (s \o t)[n + 2] = b
  <2>1. (s \o t)[n + 1] = t[(n + 1) - n] /\ (s \o t)[n + 2] = t[(n + 2) - n]
    BY <1>4, <1>5, Zenon
  <2> QED
    BY <2>1, <1>1, <1>4, <1>5, Zenon
<1> QED
  BY <1>1, <1>2, <1>6 DEF n, t

LEMMA FinishIInv ==
  ASSUME IInv, NEW op \in Ops, NEW answer \in Answers, answer.context = op,
         pc[op] = "attempt", Finish(op, answer), sent' = Send(op),
         UNCHANGED <<attempt, slept>>
  PROVE  IInv'
<1> USE AttemptsAssumption DEF IInv
<1>0. AttemptEvent(op, answer.verdict) \in Events /\ OperationEvent(op, answer.verdict) \in Events
  <2>1. attempt[op] \in 1 .. MaxAttempts /\ answer.verdict \in Verdicts
    BY DEF TypeOK, Counters, Answers
  <2> QED
    BY <2>1 DEF AttemptEvent, OperationEvent, Events
<1>1. PICK e1 \in Events, e2 \in Events : /\ e1 = AttemptEvent(op, answer.verdict)
                                       /\ e2 = OperationEvent(op, answer.verdict)
  BY <1>0
<1>2. /\ log'[op] = log[op] \o <<e1, e2>>
      /\ log' \in [Ops -> Seq(Events)]
      /\ \A other \in Ops \ {op} : log'[other] = log[other]
  BY <1>1 DEF Finish, LastEvents, TypeOK
<1>3. TypeOK'
  BY <1>2 DEF Finish, Send, TypeOK, Counters, Recorded
<1>4. Counters' /\ CostIsBounded'
  BY <1>2 DEF Finish, Send, TypeOK, Counters, CostIsBounded, Recorded
<1>5. TelemetryTellsTheCall'
  <2> SUFFICES ASSUME NEW o \in Ops PROVE StoryOf(o)'
    BY DEF TelemetryTellsTheCall
  <2>1. CASE o = op
    <3>1. Len(log[op]) = attempt[op] - 1 /\ attempt[op] \in 1 .. 3 /\ log[op] \in Seq(Events)
      BY DEF TelemetryTellsTheCall, StoryOf, Recorded, TypeOK, Counters
    <3>2. /\ Len(log'[op]) = attempt[op] + 1
          /\ \A i \in 1 .. attempt[op] - 1 : log'[op][i] = log[op][i]
          /\ log'[op][attempt[op]] = e1
          /\ log'[op][attempt[op] + 1] = e2
      <4>1. /\ Len(log'[op]) = Len(log[op]) + 2
            /\ \A i \in 1 .. Len(log[op]) : log'[op][i] = log[op][i]
            /\ log'[op][Len(log[op]) + 1] = e1
            /\ log'[op][Len(log[op]) + 2] = e2
        <5>1. e1 \in Events /\ e2 \in Events /\ log[op] \in Seq(Events)
          BY <3>1
        <5>2. /\ Len(log[op] \o <<e1, e2>>) = Len(log[op]) + 2
              /\ \A i \in 1 .. Len(log[op]) : (log[op] \o <<e1, e2>>)[i] = log[op][i]
              /\ (log[op] \o <<e1, e2>>)[Len(log[op]) + 1] = e1
              /\ (log[op] \o <<e1, e2>>)[Len(log[op]) + 2] = e2
          BY ONLY <5>1, AppendTwo, SMTT(20)
        <5> QED
          BY ONLY <5>2, <1>2, Zenon
      <4>2. /\ Len(log[op]) + 1 = attempt[op]
            /\ Len(log[op]) + 2 = attempt[op] + 1
            /\ 1 .. Len(log[op]) = 1 .. attempt[op] - 1
        BY <3>1
      <4> QED
        BY <4>1, <4>2
    <3>3. pc'[op] = "done" /\ attempt'[op] = attempt[op] /\ result'[op] = answer
      BY DEF Finish, TypeOK
    <3>4. e1.event = "model_attempt" /\ e1.attempt = attempt[op]
      BY <1>1 DEF AttemptEvent
    <3>5. \A i \in 1 .. attempt[op] - 1 : /\ log[op][i].event = "model_attempt"
                                          /\ log[op][i].attempt = i
                                          /\ log[op][i].verdict \in Retryable
      BY <3>1 DEF TelemetryTellsTheCall, StoryOf, Recorded
    <3>6. OperationEvent(op, result[op].verdict)' = e2
      BY <1>1, <3>3 DEF OperationEvent
    <3>7. \A i \in 1 .. attempt[op] : i = attempt[op] \/ i \in 1 .. attempt[op] - 1
      BY <3>1
    <3>8. Recorded(op)' = attempt[op]
      BY <3>3 DEF Recorded
    <3>9. \A i \in 1 .. attempt[op] : /\ log'[op][i].event = "model_attempt"
                                      /\ log'[op][i].attempt = i
                                      /\ i < attempt[op] => log'[op][i].verdict \in Retryable
      <4> TAKE i \in 1 .. attempt[op]
      <4>1. CASE i = attempt[op]
        BY <4>1, <3>1, <3>2, <3>4
      <4>2. CASE i \in 1 .. attempt[op] - 1
        BY <4>2, <3>2, <3>5
      <4> QED
        BY <4>1, <4>2, <3>7
    <3> QED
      BY <2>1, <3>2, <3>3, <3>6, <3>8, <3>9 DEF StoryOf
  <2>2. CASE o # op
    <3>1. /\ log'[o] = log[o] /\ pc'[o] = pc[o] /\ attempt'[o] = attempt[o]
          /\ result'[o] = result[o]
      BY <1>2, <2>2 DEF Finish, TypeOK
    <3> QED
      BY <3>1 DEF TelemetryTellsTheCall, StoryOf, Recorded, OperationEvent
  <2> QED
    BY <2>1, <2>2
<1>6. ResultIsOwnAndFinal'
  BY DEF Finish, MayRetry, TypeOK, Counters, ResultIsOwnAndFinal
<1> QED
  BY <1>3, <1>4, <1>5, <1>6

LEMMA BackOffIInv ==
  ASSUME IInv, NEW op \in Ops, NEW answer \in Answers, pc[op] = "attempt",
         BackOff(op, answer), sent' = Send(op), UNCHANGED <<attempt, slept>>
  PROVE  IInv'
<1> USE AttemptsAssumption DEF IInv
<1>1. AttemptEvent(op, answer.verdict) \in Events
  <2>1. attempt[op] \in 1 .. MaxAttempts /\ answer.verdict \in Verdicts
    BY DEF TypeOK, Counters, Answers
  <2> QED
    BY <2>1 DEF AttemptEvent, Events
<1>2. PICK e \in Events : e = AttemptEvent(op, answer.verdict)
  BY <1>1
<1>3. /\ log'[op] = Append(log[op], e)
      /\ log' \in [Ops -> Seq(Events)]
      /\ \A other \in Ops \ {op} : log'[other] = log[other]
  BY <1>2 DEF BackOff, TypeOK
<1>4. attempt[op] < MaxAttempts /\ answer.verdict \in Retryable
  BY DEF BackOff, MayRetry, TypeOK
<1>5. TypeOK'
  BY <1>3 DEF BackOff, Send, TypeOK, Counters, Recorded
<1>6. Counters' /\ CostIsBounded'
  <2>1. /\ pc' = [pc EXCEPT ![op] = "sleeping"]
        /\ sent' = [sent EXCEPT ![op] = IF op \in Configured THEN sent[op] + 1 ELSE sent[op]]
        /\ attempt[op] \in 1 .. 3
    BY DEF BackOff, Send, TypeOK, Counters
  <2>2. Counters'
    BY <1>3, <1>4, <2>1 DEF TypeOK, Counters, Recorded
  <2>3. CostIsBounded'
    BY <2>1 DEF TypeOK, Counters, CostIsBounded, Recorded
  <2> QED
    BY <2>2, <2>3
<1>7. TelemetryTellsTheCall'
  <2> SUFFICES ASSUME NEW o \in Ops PROVE StoryOf(o)'
    BY DEF TelemetryTellsTheCall
  <2>1. CASE o = op
    <3>1. Len(log[op]) = attempt[op] - 1 /\ attempt[op] \in 1 .. 3 /\ log[op] \in Seq(Events)
      BY DEF TelemetryTellsTheCall, StoryOf, Recorded, TypeOK, Counters
    <3>2. /\ Len(log'[op]) = attempt[op]
          /\ \A i \in 1 .. attempt[op] - 1 : log'[op][i] = log[op][i]
          /\ log'[op][attempt[op]] = e
      BY <3>1, <1>3
    <3>3. pc'[op] = "sleeping" /\ attempt'[op] = attempt[op]
      BY DEF BackOff, TypeOK
    <3>4. \A i \in 1 .. attempt[op] - 1 : /\ log[op][i].event = "model_attempt"
                                          /\ log[op][i].attempt = i
                                          /\ log[op][i].verdict \in Retryable
      BY <3>1 DEF TelemetryTellsTheCall, StoryOf, Recorded
    <3>5. Recorded(op)' = attempt[op]
      BY <3>3 DEF Recorded
    <3>6. \A i \in 1 .. attempt[op] : /\ log'[op][i].event = "model_attempt"
                                      /\ log'[op][i].attempt = i
                                      /\ log'[op][i].verdict \in Retryable
      <4> TAKE i \in 1 .. attempt[op]
      <4>1. CASE i = attempt[op]
        BY <4>1, <3>1, <3>2, <1>2, <1>4 DEF AttemptEvent
      <4>2. CASE i \in 1 .. attempt[op] - 1
        BY <4>2, <3>2, <3>4
      <4> QED
        BY <4>1, <4>2, <3>1
    <3> QED
      BY <2>1, <3>2, <3>3, <3>5, <3>6 DEF StoryOf
  <2>2. CASE o # op
    <3>1. /\ log'[o] = log[o] /\ pc'[o] = pc[o] /\ attempt'[o] = attempt[o]
          /\ result'[o] = result[o]
      BY <1>3, <2>2 DEF BackOff, TypeOK
    <3> QED
      BY <3>1 DEF TelemetryTellsTheCall, StoryOf, Recorded, OperationEvent
  <2> QED
    BY <2>1, <2>2
<1>8. ResultIsOwnAndFinal'
  BY DEF BackOff, TypeOK, Counters, ResultIsOwnAndFinal
<1> QED
  BY <1>5, <1>6, <1>7, <1>8

LEMMA WakeIInv ==
  ASSUME IInv, NEW op \in Ops, NEW halves \in 0 .. BackoffHalves[3], Wake(op, halves)
  PROVE  IInv'
<1> USE AttemptsAssumption DEF IInv
<1>1. attempt[op] \in {1, 2} /\ attempt[op] < MaxAttempts
  BY DEF Wake, TypeOK, Counters
<1>2. halves \in Nat /\ halves <= attempt[op]
  BY <1>1 DEF Wake, BackoffHalves
<1>3. /\ pc' = [pc EXCEPT ![op] = "attempt"] /\ pc[op] = "sleeping"
      /\ attempt' = [attempt EXCEPT ![op] = attempt[op] + 1]
      /\ slept' = [slept EXCEPT ![op] = slept[op] + halves]
      /\ UNCHANGED <<sent, log, result>>
  <2>1. attempt[op] # MaxAttempts
    BY <1>1 DEF TypeOK
  <2> QED
    BY <2>1 DEF Wake, GoOn
<1>4. TypeOK'
  BY <1>1, <1>2, <1>3 DEF TypeOK
<1>5. Counters' /\ CostIsBounded'
  BY <1>1, <1>2, <1>3 DEF TypeOK, Counters, CostIsBounded, Recorded
<1>6. TelemetryTellsTheCall'
  <2> SUFFICES ASSUME NEW o \in Ops PROVE StoryOf(o)'
    BY DEF TelemetryTellsTheCall
  <2>1. StoryOf(o)
    BY DEF TelemetryTellsTheCall
  <2>2. Recorded(o)' = Recorded(o) /\ (pc'[o] = "done" <=> pc[o] = "done")
    BY <1>1, <1>3 DEF Recorded, TypeOK
  <2>3. CASE o # op
    <3>1. /\ log'[o] = log[o] /\ pc'[o] = pc[o] /\ attempt'[o] = attempt[o]
          /\ result'[o] = result[o]
      BY <1>3, <2>3 DEF TypeOK
    <3> QED
      BY <2>1, <3>1 DEF StoryOf, Recorded, OperationEvent
  <2>4. CASE o = op
    BY <1>1, <1>3, <2>1, <2>2, <2>4 DEF StoryOf, Recorded, TypeOK, OperationEvent
  <2> QED
    BY <2>3, <2>4
<1>7. ResultIsOwnAndFinal'
  BY <1>3 DEF TypeOK, ResultIsOwnAndFinal
<1> QED
  BY <1>4, <1>5, <1>6, <1>7

LEMMA SleepRaisesIInv ==
  ASSUME IInv, NEW op \in Ops, SleepRaises(op) PROVE IInv'
<1> USE AttemptsAssumption DEF IInv
<1>1. OperationEvent(op, "internal_error") \in Events
  <2>1. attempt[op] \in 1 .. MaxAttempts
    BY DEF SleepRaises, TypeOK, Counters
  <2> QED
    BY <2>1 DEF OperationEvent, Events, Verdicts
<1>2. PICK e \in Events : e = OperationEvent(op, "internal_error")
  BY <1>1
<1>3. /\ log'[op] = Append(log[op], e)
      /\ log' \in [Ops -> Seq(Events)]
      /\ \A other \in Ops \ {op} : log'[other] = log[other]
  BY <1>2 DEF SleepRaises, TypeOK
<1>4. TypeOK'
  BY <1>3 DEF SleepRaises, TypeOK, Answers, Verdicts
<1>5. Counters' /\ CostIsBounded'
  BY <1>3 DEF SleepRaises, TypeOK, Counters, CostIsBounded, Recorded
<1>6. TelemetryTellsTheCall'
  <2> SUFFICES ASSUME NEW o \in Ops PROVE StoryOf(o)'
    BY DEF TelemetryTellsTheCall
  <2>1. CASE o = op
    <3>1. Len(log[op]) = attempt[op] /\ attempt[op] \in 1 .. 3 /\ log[op] \in Seq(Events)
      <4>1. pc[op] = "sleeping" /\ StoryOf(op) /\ Counters /\ TypeOK
        BY DEF SleepRaises, TelemetryTellsTheCall
      <4>2. attempt[op] \in 1 .. 3 /\ log[op] \in Seq(Events)
        BY <4>1 DEF TypeOK, Counters
      <4> QED
        BY <4>1, <4>2 DEF StoryOf, Recorded
    <3>2. /\ Len(log'[op]) = attempt[op] + 1
          /\ \A i \in 1 .. attempt[op] : log'[op][i] = log[op][i]
          /\ log'[op][attempt[op] + 1] = e
      BY <3>1, <1>3
    <3>3. /\ pc'[op] = "done" /\ attempt'[op] = attempt[op]
          /\ result'[op].verdict = "internal_error"
      BY DEF SleepRaises, TypeOK
    <3>4. \A i \in 1 .. attempt[op] : /\ log[op][i].event = "model_attempt"
                                      /\ log[op][i].attempt = i
                                      /\ log[op][i].verdict \in Retryable
      BY DEF SleepRaises, TelemetryTellsTheCall, StoryOf, Recorded
    <3>5. Recorded(op)' = attempt[op] /\ OperationEvent(op, result[op].verdict)' = e
      BY <1>2, <3>3 DEF Recorded, OperationEvent
    <3> QED
      BY <2>1, <3>2, <3>3, <3>4, <3>5 DEF StoryOf
  <2>2. CASE o # op
    <3>1. /\ log'[o] = log[o] /\ pc'[o] = pc[o] /\ attempt'[o] = attempt[o]
          /\ result'[o] = result[o]
      BY <1>3, <2>2 DEF SleepRaises, TypeOK
    <3> QED
      BY <3>1 DEF TelemetryTellsTheCall, StoryOf, Recorded, OperationEvent
  <2> QED
    BY <2>1, <2>2
<1>7. ResultIsOwnAndFinal'
  BY DEF SleepRaises, TypeOK, Retryable, ResultIsOwnAndFinal
<1> QED
  BY <1>4, <1>5, <1>6, <1>7

LEMMA AttemptIInv ==
  ASSUME IInv, NEW op \in Ops, NEW context \in Ops, NEW sdk \in Sdk, Attempt(op, context, sdk)
  PROVE  IInv'
<1> DEFINE answer == Checked(op, [context |-> context, verdict |-> ProviderVerdict(op, sdk)])
<1>1. answer \in Answers /\ answer.context = op
  BY CheckedType
<1>2. /\ pc[op] = "attempt" /\ sent' = Send(op) /\ UNCHANGED <<attempt, slept>>
      /\ Finish(op, answer) \/ BackOff(op, answer)
  BY DEF Attempt
<1> HIDE DEF answer
<1> QED
  BY <1>1, <1>2, FinishIInv, BackOffIInv

LEMMA NextIInv == IInv /\ [Next]_vars => IInv'
<1> SUFFICES ASSUME IInv, [Next]_vars PROVE IInv'
  OBVIOUS
<1>1. ASSUME NEW op \in Ops, Generate(op) PROVE IInv'
  BY <1>1, GenerateIInv
<1>2. ASSUME NEW op \in Ops, AnyAttempt(op) PROVE IInv'
  BY <1>2, AttemptIInv DEF AnyAttempt
<1>3. ASSUME NEW op \in Ops, AnyWake(op) PROVE IInv'
  BY <1>3, WakeIInv DEF AnyWake
<1>4. ASSUME NEW op \in Ops, SleepRaises(op) PROVE IInv'
  BY <1>4, SleepRaisesIInv
<1>5. CASE UNCHANGED vars
  BY <1>5 DEF vars, IInv, TypeOK, Counters, TelemetryTellsTheCall, StoryOf, Recorded,
              OperationEvent, ResultIsOwnAndFinal, CostIsBounded
<1> QED
  BY <1>1, <1>2, <1>3, <1>4, <1>5 DEF Next

LEMMA Invariance == Spec => []IInv
BY InitIInv, NextIInv, PTL DEF Spec

(***************************************************************************)
(* The state of the service has its type: in particular no loop variable   *)
(* and no count of requests ever exceeds max_attempts.                     *)
(***************************************************************************)
THEOREM TypeCorrect == Spec => []TypeOK
<1>1. IInv => TypeOK
  BY DEF IInv
<1> QED
  BY <1>1, Invariance, PTL

(***************************************************************************)
(* The telemetry of a call tells its whole story, for any number of        *)
(* concurrent calls: see TelemetryTellsTheCall.                            *)
(***************************************************************************)
THEOREM TelemetryCorrect == Spec => []TelemetryTellsTheCall
<1>1. IInv => TelemetryTellsTheCall
  BY DEF IInv
<1> QED
  BY <1>1, Invariance, PTL

(***************************************************************************)
(* No caller ever gets an answer about another call's context, nor a       *)
(* transient failure while attempts are left.                              *)
(***************************************************************************)
THEOREM ResultCorrect == Spec => []ResultIsOwnAndFinal
<1>1. IInv => ResultIsOwnAndFinal
  BY DEF IInv
<1> QED
  BY <1>1, Invariance, PTL

(***************************************************************************)
(* Requests and sleeps of a call stay within the bounds it was given.      *)
(***************************************************************************)
THEOREM CostCorrect == Spec => []CostIsBounded
<1>1. IInv => CostIsBounded
  BY DEF IInv
<1> QED
  BY <1>1, Invariance, PTL

(***************************************************************************)
(* How far a call has come: the steps behind it, had it used every         *)
(* attempt and every sleep before.                                         *)
(***************************************************************************)
Progress(op) ==
  CASE pc[op] = "idle"     -> 0
    [] pc[op] = "attempt"  -> 2 * attempt[op] - 1
    [] pc[op] = "sleeping" -> 2 * attempt[op]
    [] pc[op] = "done"     -> 2 * MaxAttempts

StateOf(op) == <<pc[op], attempt[op], sent[op], slept[op], log[op], result[op]>>

OnlyForward == \A op \in Ops : StateOf(op)' = StateOf(op) \/ Progress(op)' > Progress(op)

\* A step of one call leaves every other as it is.
LEMMA OneMoves ==
  ASSUME IInv, IInv', NEW op \in Ops, Progress(op)' > Progress(op),
         \A o \in Ops \ {op} : StateOf(o)' = StateOf(o)
  PROVE  OnlyForward
BY DEF OnlyForward

(***************************************************************************)
(* No call runs in circles: each of its steps takes it further, to at most *)
(* 2 * max_attempts, and after its end nothing about it changes, the       *)
(* telemetry included.  (What is left of EveryCallEnds is that a call      *)
(* which is not done takes another step, which is fairness.)               *)
(***************************************************************************)
THEOREM ProgressCorrect ==
  Spec => /\ [](\A op \in Ops : Progress(op) \in 0 .. 2 * MaxAttempts)
          /\ [][OnlyForward]_vars
<1> USE AttemptsAssumption
<1>1. IInv => \A op \in Ops : Progress(op) \in 0 .. 2 * MaxAttempts
  <2> SUFFICES ASSUME IInv, NEW op \in Ops PROVE Progress(op) \in 0 .. 2 * MaxAttempts
    OBVIOUS
  <2>1. /\ pc[op] \in {"idle", "attempt", "sleeping", "done"} /\ attempt[op] \in 0 .. MaxAttempts
        /\ pc[op] = "idle" <=> attempt[op] = 0
    BY DEF IInv, TypeOK, Counters
  <2> QED
    BY <2>1 DEF Progress
<1>2. IInv /\ IInv' /\ [Next]_vars => [OnlyForward]_vars
  <2> SUFFICES ASSUME IInv, IInv', Next PROVE OnlyForward
    OBVIOUS
  <2>0. /\ pc \in [Ops -> {"idle", "attempt", "sleeping", "done"}]
        /\ pc' \in [Ops -> {"idle", "attempt", "sleeping", "done"}]
        /\ attempt \in [Ops -> 0 .. MaxAttempts] /\ attempt' \in [Ops -> 0 .. MaxAttempts]
        /\ \A op \in Ops : pc[op] = "sleeping" => attempt[op] < MaxAttempts
        /\ \A op \in Ops : pc[op] = "attempt" => attempt[op] \in 1 .. MaxAttempts
        /\ sent \in [Ops -> 0 .. MaxAttempts] /\ slept \in [Ops -> Nat]
        /\ log \in [Ops -> Seq(Events)] /\ result \in [Ops -> Answers \cup {NoResult}]
    BY DEF IInv, TypeOK, Counters
  <2>1. ASSUME NEW op \in Ops, Generate(op) PROVE OnlyForward
    <3>1. /\ pc[op] = "idle" /\ pc'[op] = "attempt" /\ attempt'[op] = 1
          /\ \A o \in Ops \ {op} : StateOf(o)' = StateOf(o)
      BY <2>0, <2>1 DEF Generate, StateOf
    <3>2. Progress(op)' > Progress(op)
      BY <2>0, <3>1 DEF Progress
    <3> QED
      BY <3>1, <3>2, OneMoves
  <2>2. ASSUME NEW op \in Ops, AnyAttempt(op) PROVE OnlyForward
    <3>1. PICK context \in Ops, sdk \in Sdk : Attempt(op, context, sdk)
      BY <2>2 DEF AnyAttempt
    <3> DEFINE answer == Checked(op, [context |-> context, verdict |-> ProviderVerdict(op, sdk)])
    <3>2. /\ pc[op] = "attempt"
          /\ Finish(op, answer) \/ BackOff(op, answer)
          /\ sent' = Send(op) /\ UNCHANGED <<attempt, slept>>
      BY <3>1 DEF Attempt
    <3> HIDE DEF answer
    <3>3. /\ pc'[op] = "done" \/ pc'[op] = "sleeping"
          /\ attempt'[op] = attempt[op]
          /\ \A o \in Ops \ {op} : StateOf(o)' = StateOf(o)
      <4>1. CASE Finish(op, answer)
        BY <2>0, <3>2, <4>1 DEF Finish, Send, StateOf
      <4>2. CASE BackOff(op, answer)
        BY <2>0, <3>2, <4>2 DEF BackOff, Send, StateOf
      <4> QED
        BY <3>2, <4>1, <4>2
    <3>4. Progress(op)' > Progress(op)
      <4>1. attempt[op] \in 1 .. MaxAttempts /\ Progress(op) = 2 * attempt[op] - 1
        BY <2>0, <3>2 DEF Progress
      <4>2. Progress(op)' = 2 * MaxAttempts \/ Progress(op)' = 2 * attempt[op]
        BY <3>3 DEF Progress
      <4> QED
        BY <4>1, <4>2
    <3> QED
      BY <3>3, <3>4, OneMoves
  <2>3. ASSUME NEW op \in Ops, AnyWake(op) PROVE OnlyForward
    <3>1. PICK halves \in 0 .. BackoffHalves[3] : Wake(op, halves)
      BY <2>0, <2>3 DEF AnyWake
    <3>2. /\ pc[op] = "sleeping" /\ pc'[op] = "attempt" /\ attempt'[op] = attempt[op] + 1
          /\ \A o \in Ops \ {op} : StateOf(o)' = StateOf(o)
      <4>1. attempt[op] # MaxAttempts
        BY <2>0, <3>1 DEF Wake, Counters, TypeOK
      <4> QED
        BY <2>0, <3>1, <4>1 DEF Wake, GoOn, StateOf
    <3>3. Progress(op)' > Progress(op)
      BY <2>0, <3>2 DEF Progress
    <3> QED
      BY <3>2, <3>3, OneMoves
  <2>4. ASSUME NEW op \in Ops, SleepRaises(op) PROVE OnlyForward
    <3>1. /\ pc[op] = "sleeping" /\ pc'[op] = "done"
          /\ \A o \in Ops \ {op} : StateOf(o)' = StateOf(o)
      BY <2>0, <2>4 DEF SleepRaises, StateOf
    <3>2. Progress(op)' > Progress(op)
      BY <2>0, <3>1 DEF Progress
    <3> QED
      BY <3>1, <3>2, OneMoves
  <2> QED
    BY <2>1, <2>2, <2>3, <2>4 DEF Next
<1> QED
  BY <1>1, <1>2, Invariance, PTL DEF Spec

-----------------------------------------------------------------------------
(***************************************************************************)
(* generate keeps the promise its callers rely on: it implements ModelCall *)
(* (the safety part of it; that a call ends is EveryCallEnds).             *)
(***************************************************************************)
THEOREM Refinement == Spec => IsBoundedCall
<1> USE AttemptsAssumption DEF IInv
<1> DEFINE St(o) == IF pc[o] = "idle" THEN "idle" ELSE IF pc[o] = "done" THEN "ended" ELSE "calling"
           state == [o \in Ops |-> St(o)]
           budget == [o \in Ops |-> MaxAttempts - sent[o]]
<1>1. Init => Promise!Init
  BY DEF Init, Promise!Init, NoResult, Promise!None
<1>2. IInv /\ [Next]_vars => [Promise!Next]_(Promise!vars)
  <2> SUFFICES ASSUME IInv, [Next]_vars PROVE [Promise!Next]_(Promise!vars)
    OBVIOUS
  <2>1. ASSUME NEW op \in Ops, Generate(op) PROVE Promise!Call(op)
    <3>1. pc[op] = "idle" /\ pc' = [pc EXCEPT ![op] = "attempt"] /\ UNCHANGED <<sent, result>>
      BY <2>1 DEF Generate
    <3> QED
      BY <3>1 DEF Promise!Call, TypeOK
  <2>2. ASSUME NEW op \in Ops, AnyAttempt(op) PROVE [Promise!Next]_(Promise!vars)
    <3>1. PICK context \in Ops, sdk \in Sdk : Attempt(op, context, sdk)
      BY <2>2 DEF AnyAttempt
    <3>2. PICK answer \in Answers :
            /\ answer.context = op /\ sent' = Send(op) /\ pc[op] = "attempt"
            /\ UNCHANGED <<attempt, slept>>
            /\ Finish(op, answer) \/ BackOff(op, answer)
            /\ op \notin Configured => answer.verdict \notin Retryable
      <4>1. op \notin Configured =>
              Checked(op, [context |-> context, verdict |-> ProviderVerdict(op, sdk)]).verdict
                \notin Retryable
        BY DEF Checked, ProviderVerdict, Retryable
      <4> QED
        BY <3>1, <4>1, CheckedType DEF Attempt
    <3>3. sent[op] < MaxAttempts /\ sent[op] \in Nat
      BY <3>2 DEF TypeOK, Counters, Recorded
    <3>4. CASE op \notin Configured
      <4>1. Finish(op, answer) /\ sent' = sent
        BY <3>2, <3>4 DEF BackOff, MayRetry, Send, TypeOK
      <4>2. Promise!End(op, answer.verdict)
        BY <3>2, <3>4, <4>1 DEF Promise!End, Finish, TypeOK, Answers
      <4> QED
        BY <4>2, <3>2 DEF Promise!Next, Answers
    <3>5. CASE op \in Configured
      <4>1. sent' = [sent EXCEPT ![op] = sent[op] + 1]
        BY <3>2, <3>5 DEF Send
      <4>0. budget' = [budget EXCEPT ![op] = budget[op] - 1] /\ budget[op] > 0
        <5>1. /\ MaxAttempts - sent[op] > 0
              /\ \A o \in Ops : MaxAttempts - sent'[o] =
                    IF o = op THEN (MaxAttempts - sent[op]) - 1 ELSE MaxAttempts - sent[o]
          BY <3>3, <4>1 DEF TypeOK
        <5> QED
          BY <5>1
      <4>2. CASE BackOff(op, answer)
        <5>1. pc' = [pc EXCEPT ![op] = "sleeping"] /\ UNCHANGED result
          BY <4>2 DEF BackOff
        <5>2. UNCHANGED state
          BY <3>2, <5>1 DEF TypeOK
        <5>4. state[op] = "calling"
          BY <3>2
        <5> QED
          BY <4>0, <5>1, <5>2, <5>4 DEF Promise!Next, Promise!Spend
      <4>3. CASE Finish(op, answer)
        <5>1. Promise!End(op, answer.verdict)
          <6>1. pc' = [pc EXCEPT ![op] = "done"] /\ result' = [result EXCEPT ![op] = answer]
            BY <4>3 DEF Finish
          <6>2. state[op] = "calling" /\ state' = [state EXCEPT ![op] = "ended"]
            BY <3>2, <6>1 DEF TypeOK
          <6>4. answer.verdict \in Retryable => budget'[op] = 0
            <7> SUFFICES ASSUME answer.verdict \in Retryable PROVE budget'[op] = 0
              OBVIOUS
            <7>1. attempt[op] = MaxAttempts /\ sent[op] = MaxAttempts - 1
              BY <3>2, <3>5, <4>3 DEF Finish, MayRetry, Counters, Recorded, TypeOK
            <7> QED
              BY <7>1, <4>1 DEF TypeOK
          <6>5. answer = [context |-> op, verdict |-> answer.verdict]
            BY <3>2 DEF Answers
          <6> QED
            BY <4>0, <6>1, <6>2, <6>4, <6>5 DEF Promise!End
        <5> QED
          BY <5>1, <3>2 DEF Promise!Next, Answers
      <4> QED
        BY <3>2, <4>2, <4>3
    <3> QED
      BY <3>4, <3>5
  <2>3. ASSUME NEW op \in Ops, AnyWake(op) PROVE UNCHANGED Promise!vars
    <3>1. PICK halves \in 0 .. BackoffHalves[3] : Wake(op, halves)
      BY <2>3 DEF AnyWake
    <3>2. attempt[op] # MaxAttempts
      BY <3>1 DEF Wake, Counters, TypeOK
    <3> QED
      BY <3>1, <3>2 DEF Wake, GoOn, Promise!vars, TypeOK
  <2>4. ASSUME NEW op \in Ops, SleepRaises(op) PROVE Promise!End(op, "internal_error")
    BY <2>4 DEF SleepRaises, Promise!End, TypeOK, Retryable
  <2>5. CASE UNCHANGED vars
    BY <2>5 DEF vars, Promise!vars
  <2> QED
    BY <2>1, <2>2, <2>3, <2>4, <2>5 DEF Next, Promise!Next, Verdicts
<1> QED
  BY <1>1, <1>2, Invariance, PTL DEF Spec, IsBoundedCall, Promise!Spec
=============================================================================

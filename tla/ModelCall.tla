------------------------------ MODULE ModelCall ------------------------------
(***************************************************************************)
(* What a caller of ModelService.generate may rely on: a call it makes     *)
(* costs a bounded number of paid requests and ends at most once, with     *)
(* one verdict, about its own context; a verdict that a later try might    *)
(* have changed comes only when the budget is used up.                     *)
(***************************************************************************)
EXTENDS Naturals

CONSTANTS Ops, MaxAttempts, Verdicts, Transient

VARIABLES state,    \* "idle", "calling" or "ended"
          budget,   \* requests the call may still cost
          answer    \* context and verdict, once ended

vars == <<state, budget, answer>>

None == [verdict |-> "none"]

Init == /\ state = [op \in Ops |-> "idle"]
        /\ budget = [op \in Ops |-> MaxAttempts]
        /\ answer = [op \in Ops |-> None]

Call(op) == /\ state[op] = "idle"
            /\ state' = [state EXCEPT ![op] = "calling"]
            /\ UNCHANGED <<budget, answer>>

\* The call costs one more request, and goes on.
Spend(op) == /\ state[op] = "calling" /\ budget[op] > 0
             /\ budget' = [budget EXCEPT ![op] = @ - 1]
             /\ UNCHANGED <<state, answer>>

\* The call ends, with its last request or without one.
End(op, verdict) ==
  /\ state[op] = "calling"
  /\ \/ budget' = budget
     \/ budget[op] > 0 /\ budget' = [budget EXCEPT ![op] = @ - 1]
  /\ verdict \in Transient => budget'[op] = 0
  /\ state' = [state EXCEPT ![op] = "ended"]
  /\ answer' = [answer EXCEPT ![op] = [context |-> op, verdict |-> verdict]]

Next == \E op \in Ops : \/ Call(op)
                        \/ Spend(op)
                        \/ \E verdict \in Verdicts : End(op, verdict)

Spec == Init /\ [][Next]_vars
=============================================================================

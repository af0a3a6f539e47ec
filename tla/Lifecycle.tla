----------------------------- MODULE Lifecycle -----------------------------
(***************************************************************************)
(* Concurrent update_lifecycle calls on one incident or work order         *)
(* (app/operations/repository.py), each in a READ COMMITTED                *)
(* workspace_session of its own.  The call reads the record, validates     *)
(* what it was asked, and its flush sends the columns that differ from     *)
(* what it read; the CHECK constraints (app/operations/models.py) judge    *)
(* the row that results from that and from what others committed.          *)
(*                                                                         *)
(* rank is severity or priority (due_at behaves the same), status has one  *)
(* closed value, resolved or completed, and stamp is resolved_at or        *)
(* completed_at, which may not precede Origin: occurred_at or created_at.  *)
(***************************************************************************)
EXTENDS Naturals

CONSTANTS Callers, Ranks, OpenStatuses, Closed, Times, Origin, Null

ASSUME TimeAssumption == Times \subseteq Nat /\ Origin \in Nat /\ Null \notin Nat

ASSUME StatusAssumption == Closed \notin OpenStatuses

VARIABLES row,       \* the committed record
          pc,        \* where each call is
          want,      \* the arguments of each call
          seen,      \* the record as the call read it
          draft,     \* the record as the call's transaction updated it
          returned   \* what the call returns

vars == <<row, pc, want, seen, draft, returned>>

-----------------------------------------------------------------------------
Rows == [rank : Ranks, status : OpenStatuses \cup {Closed}, stamp : Times \cup {Null}]

\* The lifecycle rule of the domain validators.
Valid(r) == /\ r.status = Closed <=> r.stamp # Null
            /\ r.stamp # Null => r.stamp >= Origin

\* Variant for mutation: the constraints are left to the application.
CheckNothing(r) == TRUE

\* The CHECK constraints, of the same rule.
Check(r) == /\ (r.status = Closed) = (r.stamp # Null)
            /\ r.stamp = Null \/ r.stamp >= Origin

Changed(c) == want[c] # seen[c]

\* Variant for mutation: the whole record is sent.
MergedWhole(c) == want[c]

\* The UPDATE of the columns that differ from what was read.
Merged(c) ==
  LET sent(asked, read, current) == IF asked = read THEN current ELSE asked
  IN  [rank |-> sent(want[c].rank, seen[c].rank, row.rank),
       status |-> sent(want[c].status, seen[c].status, row.status),
       stamp |-> sent(want[c].stamp, seen[c].stamp, row.stamp)]

\* Variant for mutation: a failed call's session is not rolled back.
HoldsAfterFailure(c) == pc[c] \in {"flushed", "refreshed", "failed"} /\ Changed(c)

\* The transaction holds the row's lock.
Holds(c) == pc[c] \in {"flushed", "refreshed"} /\ Changed(c)

Init == /\ row \in {r \in Rows : Valid(r)}
        /\ pc = [c \in Callers |-> "idle"]
        /\ want = [c \in Callers |-> row]
        /\ seen = [c \in Callers |-> row]
        /\ draft = [c \in Callers |-> row]
        /\ returned = [c \in Callers |-> row]

Goto(c, label) == pc' = [pc EXCEPT ![c] = label]

\* The record is read and the arguments are validated.
Call(c, w) ==
  /\ pc[c] = "idle"
  /\ want' = [want EXCEPT ![c] = w]
  /\ seen' = [seen EXCEPT ![c] = row]
  /\ Goto(c, IF Valid(w) THEN "read" ELSE "failed")
  /\ UNCHANGED <<row, draft, returned>>

\* flush: nothing to send, or an UPDATE that waits for the row and is checked.
Flush(c) ==
  /\ pc[c] = "read"
  /\ IF ~Changed(c) THEN Goto(c, "flushed") /\ UNCHANGED draft
     ELSE /\ \A d \in Callers : ~Holds(d)
          /\ IF Check(Merged(c))
             THEN /\ draft' = [draft EXCEPT ![c] = Merged(c)]
                  /\ Goto(c, "flushed")
             ELSE Goto(c, "failed") /\ UNCHANGED draft
  /\ UNCHANGED <<row, want, seen, returned>>

\* Variant for mutation: the arguments are returned without a refresh.
RefreshedFromArguments(c) == want[c]

\* The transaction's own version, or the committed one if it sent nothing.
Refreshed(c) == IF Changed(c) THEN draft[c] ELSE row

Refresh(c) ==
  /\ pc[c] = "flushed"
  /\ returned' = [returned EXCEPT ![c] = Refreshed(c)]
  /\ Goto(c, "refreshed")
  /\ UNCHANGED <<row, want, seen, draft>>

Commit(c) ==
  /\ pc[c] = "refreshed"
  /\ row' = IF Changed(c) THEN draft[c] ELSE row
  /\ Goto(c, "done")
  /\ UNCHANGED <<want, seen, draft, returned>>

\* The session is rolled back.
Abort(c) == /\ pc[c] \in {"read", "flushed", "refreshed"}
            /\ Goto(c, "failed")
            /\ UNCHANGED <<row, want, seen, draft, returned>>

Step(c) == Flush(c) \/ Refresh(c) \/ Commit(c)

Next == \E c \in Callers : \/ \E w \in Rows : Call(c, w)
                           \/ Step(c) \/ Abort(c)

\* A statement that can run does; nobody has to call.
Fairness == \A c \in Callers : WF_vars(Step(c))

Spec == Init /\ [][Next]_vars /\ Fairness

-----------------------------------------------------------------------------
\* Types, and the row's lock: one transaction at a time has updated the record.
TypeOK == /\ row \in Rows
          /\ pc \in [Callers -> {"idle", "read", "flushed", "refreshed", "done", "failed"}]
          /\ want \in [Callers -> Rows] /\ seen \in [Callers -> Rows]
          /\ draft \in [Callers -> Rows] /\ returned \in [Callers -> Rows]
          /\ \A c, d \in Callers :
               {pc[c], pc[d]} \subseteq {"flushed", "refreshed"} /\ Changed(c) /\ Changed(d)
                 => c = d

(***************************************************************************)
(* The committed record and every record a call returns obey the lifecycle *)
(* rule, although an update sends some of the columns and was validated    *)
(* against a record that others have changed since.                        *)
(***************************************************************************)
LifecycleHolds ==
  /\ Valid(row)
  /\ \A c \in Callers : pc[c] \in {"refreshed", "done"} => Valid(returned[c])

(***************************************************************************)
(* Status and stamp change together: a commit leaves both as they were or  *)
(* sets both to what its one caller asked for.  No record mixes the status *)
(* of one update with the time of another.                                 *)
(***************************************************************************)
StatusAndStampOfOneCaller ==
  [][\A c \in Callers :
       (pc[c] = "refreshed" /\ pc'[c] = "done") =>
          \/ row'.status = row.status /\ row'.stamp = row.stamp
          \/ row'.status = want[c].status /\ row'.stamp = want[c].stamp]_vars

(***************************************************************************)
(* A caller that leaves a column as it read it does not undo what another  *)
(* caller committed to that column meanwhile.                              *)
(***************************************************************************)
OthersColumnsSurvive ==
  [][\A c \in Callers :
       (pc[c] = "refreshed" /\ pc'[c] = "done") =>
          /\ want[c].rank = seen[c].rank => row'.rank = row.rank
          /\ want[c].status = seen[c].status => row'.status = row.status
          /\ want[c].stamp = seen[c].stamp => row'.stamp = row.stamp]_vars

(***************************************************************************)
(* What an update returns is the record its commit leaves, merged as it    *)
(* may be with other updates, and not what the caller asked for.           *)
(***************************************************************************)
ReturnsWhatItCommits ==
  [][\A c \in Callers :
       (pc[c] = "refreshed" /\ pc'[c] = "done" /\ Changed(c)) => row' = returned[c]]_vars

\* Every call ends: no finished or failed call keeps the row from the others.
EveryUpdateEnds == \A c \in Callers : pc[c] = "read" ~> pc[c] \in {"done", "failed"}
=============================================================================

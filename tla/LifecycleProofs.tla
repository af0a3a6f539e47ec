-------------------------- MODULE LifecycleProofs --------------------------
(***************************************************************************)
(* The lifecycle rule and the merging of columns, for every set of         *)
(* callers, statuses and times.                                            *)
(***************************************************************************)
EXTENDS Lifecycle, TLAPS

(***************************************************************************)
(* The strengthening.  A call past its validation was asked for a valid    *)
(* record and read one; and while a transaction holds the row its draft    *)
(* is the merge with the committed record, which no other can change.      *)
(***************************************************************************)
Begun(c) == pc[c] \in {"read", "flushed", "refreshed", "done"}

Validated == \A c \in Callers : Begun(c) => Valid(want[c]) /\ Valid(seen[c])

DraftIsMerge == \A c \in Callers : Holds(c) => draft[c] = Merged(c) /\ Check(draft[c])

\* Without a change of its own, a call may return a record changed since.
ReturnedDraft ==
  \A c \in Callers : pc[c] = "refreshed" /\ Changed(c) => returned[c] = draft[c]

IInv == TypeOK /\ LifecycleHolds /\ Validated /\ DraftIsMerge /\ ReturnedDraft

\* The database's rule is the application's.
LEMMA CheckIsValid ==
  ASSUME NEW r \in Rows PROVE Check(r) <=> Valid(r)
  BY DEF Check, Valid

\* An update of valid records yields a record of the right type.
LEMMA MergedType ==
  ASSUME TypeOK, NEW c \in Callers PROVE Merged(c) \in Rows
<1>1. want[c] \in Rows /\ seen[c] \in Rows /\ row \in Rows
  BY DEF TypeOK
<1> QED
  BY <1>1 DEF Merged, Rows

LEMMA InitIInv == Init => IInv
  BY DEF Init, IInv, TypeOK, LifecycleHolds, Validated, Begun, DraftIsMerge, ReturnedDraft,
         Holds, Changed

LEMMA CallIInv ==
  ASSUME IInv, NEW c \in Callers, NEW w \in Rows, Call(c, w) PROVE IInv'
<1> USE DEF IInv, Call, Goto
<1>1. TypeOK'
  BY DEF TypeOK, Changed
<1>2. LifecycleHolds'
  BY DEF TypeOK, LifecycleHolds
<1>3. Validated'
  BY DEF TypeOK, LifecycleHolds, Validated, Begun
<1>4. DraftIsMerge' /\ ReturnedDraft'
  BY DEF TypeOK, DraftIsMerge, ReturnedDraft, Holds, Changed, Merged
<1> QED
  BY <1>1, <1>2, <1>3, <1>4

LEMMA FlushIInv ==
  ASSUME IInv, NEW c \in Callers, Flush(c) PROVE IInv'
<1> USE DEF IInv, Flush, Goto
<1>1. Merged(c) \in Rows
  BY MergedType
<1>2. TypeOK'
  BY <1>1 DEF TypeOK, Changed, Holds
<1>3. LifecycleHolds' /\ Validated'
  BY DEF TypeOK, LifecycleHolds, Validated, Begun
<1>4. DraftIsMerge' /\ ReturnedDraft'
  BY DEF TypeOK, DraftIsMerge, ReturnedDraft, Holds, Changed, Merged
<1> QED
  BY <1>2, <1>3, <1>4

LEMMA RefreshIInv ==
  ASSUME IInv, NEW c \in Callers, Refresh(c) PROVE IInv'
<1> USE DEF IInv, Refresh, Goto
<1>1. Refreshed(c) \in Rows /\ Valid(Refreshed(c))
  <2>1. CASE Changed(c)
    <3>1. Check(draft[c]) /\ draft[c] \in Rows
      BY <2>1 DEF TypeOK, DraftIsMerge, Holds
    <3> QED
      BY <2>1, <3>1, CheckIsValid DEF Refreshed
  <2>2. CASE ~Changed(c)
    BY <2>2 DEF TypeOK, LifecycleHolds, Refreshed
  <2> QED
    BY <2>1, <2>2
<1>2. TypeOK'
  BY <1>1 DEF TypeOK, Changed
<1>3. LifecycleHolds'
  BY <1>1 DEF TypeOK, LifecycleHolds
<1>4. Validated' /\ DraftIsMerge'
  BY DEF TypeOK, Validated, Begun, DraftIsMerge, Holds, Changed, Merged
<1>5. ReturnedDraft'
  BY DEF TypeOK, ReturnedDraft, Refreshed, Changed
<1> QED
  BY <1>2, <1>3, <1>4, <1>5

LEMMA CommitIInv ==
  ASSUME IInv, NEW c \in Callers, Commit(c) PROVE IInv'
<1> USE DEF IInv, Commit, Goto
<1>1. row' \in Rows /\ Valid(row')
  BY CheckIsValid DEF TypeOK, LifecycleHolds, DraftIsMerge, Holds
<1>2. TypeOK'
  BY <1>1 DEF TypeOK, Changed
<1>3. LifecycleHolds' /\ Validated'
  BY <1>1 DEF TypeOK, LifecycleHolds, Validated, Begun
<1>4. DraftIsMerge'
  <2> SUFFICES ASSUME NEW d \in Callers, Holds(d)'
               PROVE  draft'[d] = Merged(d)' /\ Check(draft'[d])
    BY DEF DraftIsMerge
  <2>1. d # c /\ Holds(d)
    BY DEF TypeOK, Holds, Changed
  <2>2. ~Changed(c)
    BY <2>1 DEF TypeOK, Holds
  <2>3. row' = row
    BY <2>2
  <2> QED
    BY <2>1, <2>3 DEF DraftIsMerge, Merged
<1>5. ReturnedDraft'
  BY DEF TypeOK, ReturnedDraft, Changed
<1> QED
  BY <1>2, <1>3, <1>4, <1>5

LEMMA AbortIInv ==
  ASSUME IInv, NEW c \in Callers, Abort(c) PROVE IInv'
<1> USE DEF IInv, Abort, Goto
<1>1. TypeOK' /\ LifecycleHolds' /\ Validated'
  BY DEF TypeOK, Changed, LifecycleHolds, Validated, Begun
<1>2. DraftIsMerge' /\ ReturnedDraft'
  BY DEF TypeOK, DraftIsMerge, ReturnedDraft, Holds, Changed, Merged
<1> QED
  BY <1>1, <1>2

LEMMA NextIInv == IInv /\ [Next]_vars => IInv'
<1> SUFFICES ASSUME IInv, [Next]_vars PROVE IInv'
  OBVIOUS
<1>1. CASE UNCHANGED vars
  BY <1>1 DEF vars, IInv, TypeOK, LifecycleHolds, Validated, Begun, DraftIsMerge,
              ReturnedDraft, Holds, Changed, Merged
<1>2. CASE Next
  BY <1>2, CallIInv, FlushIInv, RefreshIInv, CommitIInv, AbortIInv DEF Next, Step
<1> QED
  BY <1>1, <1>2

LEMMA Invariance == Spec => []IInv
  BY InitIInv, NextIInv, PTL DEF Spec

-----------------------------------------------------------------------------
\* Only a commit takes a call from refreshed to done.
LEMMA CommitOnly ==
  ASSUME TypeOK, [Next]_vars, NEW c \in Callers, pc[c] = "refreshed", pc'[c] = "done"
  PROVE  Commit(c)
<1>1. CASE UNCHANGED vars
  BY <1>1 DEF vars
<1>2. ASSUME NEW d \in Callers, Commit(d) PROVE Commit(c)
  BY <1>2 DEF TypeOK, Commit, Goto
<1>3. ASSUME NEW d \in Callers, NEW w \in Rows, Call(d, w) PROVE FALSE
  BY <1>3 DEF TypeOK, Call, Goto
<1>4. ASSUME NEW d \in Callers, Flush(d) \/ Refresh(d) \/ Abort(d) PROVE FALSE
  BY <1>4 DEF TypeOK, Flush, Refresh, Abort, Goto
<1> QED
  BY <1>1, <1>2, <1>3, <1>4 DEF Next, Step

\* What a commit that changes something does to the record.
LEMMA CommitMerges ==
  ASSUME IInv, [Next]_vars, NEW c \in Callers, pc[c] = "refreshed", pc'[c] = "done"
  PROVE  /\ ~Changed(c) => row' = row
         /\ Changed(c) => row' = Merged(c) /\ row' = returned[c] /\ Valid(row')
         /\ want[c] \in Rows /\ seen[c] \in Rows /\ row \in Rows
         /\ Valid(want[c]) /\ Valid(seen[c]) /\ Valid(row)
<1>1. Commit(c)
  BY CommitOnly DEF IInv
<1>2. Changed(c) => /\ draft[c] = Merged(c) /\ Check(draft[c])
                    /\ draft[c] \in Rows /\ returned[c] = draft[c]
  BY DEF IInv, TypeOK, DraftIsMerge, ReturnedDraft, Holds
<1> QED
  BY <1>1, <1>2, CheckIsValid DEF IInv, TypeOK, Commit, Validated, Begun, LifecycleHolds

\* A valid merge of valid records has status and stamp of one of the two.
LEMMA MergedPair ==
  ASSUME NEW c \in Callers, want[c] \in Rows, seen[c] \in Rows, row \in Rows,
         Valid(want[c]), Valid(seen[c]), Valid(row), Valid(Merged(c))
  PROVE  LET m == Merged(c)
         IN  \/ m.status = row.status /\ m.stamp = row.stamp
             \/ m.status = want[c].status /\ m.stamp = want[c].stamp
<1> DEFINE m == Merged(c)
<1>1. /\ m.status = IF want[c].status = seen[c].status THEN row.status ELSE want[c].status
      /\ m.stamp = IF want[c].stamp = seen[c].stamp THEN row.stamp ELSE want[c].stamp
  BY DEF Merged
<1> QED
  BY <1>1 DEF Valid

\* The database holds a record of the right type, and one writer at a time.
THEOREM TypeCorrect == Spec => []TypeOK
<1>1. IInv => TypeOK
  BY DEF IInv
<1> QED
  BY <1>1, Invariance, PTL

\* No interleaving of updates leaves or returns a record against the rule.
THEOREM LifecycleCorrect == Spec => []LifecycleHolds
<1>1. IInv => LifecycleHolds
  BY DEF IInv
<1> QED
  BY <1>1, Invariance, PTL

\* Status and stamp of the committed record always were asked for together.
THEOREM PairCorrect == Spec => StatusAndStampOfOneCaller
<1>1. ASSUME IInv, [Next]_vars, NEW c \in Callers, pc[c] = "refreshed", pc'[c] = "done"
      PROVE  \/ row'.status = row.status /\ row'.stamp = row.stamp
             \/ row'.status = want[c].status /\ row'.stamp = want[c].stamp
  <2>1. CASE ~Changed(c)
    BY <1>1, <2>1, CommitMerges
  <2>2. CASE Changed(c)
    BY <1>1, <2>2, CommitMerges, MergedPair
  <2> QED
    BY <2>1, <2>2
<1>2. IInv /\ [Next]_vars =>
        [\A c \in Callers :
           (pc[c] = "refreshed" /\ pc'[c] = "done") =>
              \/ row'.status = row.status /\ row'.stamp = row.stamp
              \/ row'.status = want[c].status /\ row'.stamp = want[c].stamp]_vars
  BY <1>1
<1> QED
  BY <1>2, Invariance, PTL DEF Spec, StatusAndStampOfOneCaller

\* A column its caller left alone keeps what others committed.
THEOREM ColumnsCorrect == Spec => OthersColumnsSurvive
<1>1. ASSUME IInv, [Next]_vars, NEW c \in Callers, pc[c] = "refreshed", pc'[c] = "done"
      PROVE  /\ want[c].rank = seen[c].rank => row'.rank = row.rank
             /\ want[c].status = seen[c].status => row'.status = row.status
             /\ want[c].stamp = seen[c].stamp => row'.stamp = row.stamp
  BY <1>1, CommitMerges DEF Merged
<1>2. IInv /\ [Next]_vars =>
        [\A c \in Callers :
           (pc[c] = "refreshed" /\ pc'[c] = "done") =>
              /\ want[c].rank = seen[c].rank => row'.rank = row.rank
              /\ want[c].status = seen[c].status => row'.status = row.status
              /\ want[c].stamp = seen[c].stamp => row'.stamp = row.stamp]_vars
  BY <1>1
<1> QED
  BY <1>2, Invariance, PTL DEF Spec, OthersColumnsSurvive

\* The caller of an update sees the record its commit leaves.
THEOREM ReturnCorrect == Spec => ReturnsWhatItCommits
<1>1. IInv /\ [Next]_vars =>
        [\A c \in Callers :
           (pc[c] = "refreshed" /\ pc'[c] = "done" /\ Changed(c)) => row' = returned[c]]_vars
  BY CommitMerges
<1> QED
  BY <1>1, Invariance, PTL DEF Spec, ReturnsWhatItCommits
=============================================================================

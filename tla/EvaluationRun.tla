---------------------------- MODULE EvaluationRun ----------------------------
(***************************************************************************)
(* Evaluation runs and their assessment (scripts/evaluate_answers.py,      *)
(* evaluate_queries.py, assess_answers.py, assess_queries.py): processes   *)
(* that ask every planned case and leave files, while the code, the        *)
(* fixtures and the workspace may change and the process may be killed.    *)
(*                                                                         *)
(* A digest is what it was computed from.  The process runs the code that  *)
(* was imported when it started; implementation_digest and answer_digest   *)
(* read the files when they are called.  An assessment only reads, so it   *)
(* is an operator: what it would say of the files as they are.             *)
(***************************************************************************)
EXTENDS Naturals, Sequences, FiniteSets, SequencesExt

CONSTANTS Runs,        \* processes of the two evaluators
          Folders,     \* output directories, or files a report is redirected to
          Cases,       \* number of planned cases of the dataset
          Repetitions, \* of the frozen protocol
          MinimumPercent, \* of right cases, in the protocol
          MaxEdits,    \* bound on edits of the code and of the fixtures
          None

\* What a case may come to: its plan, and the evidence executed for the expected one.  A
\* plan that declines executes nothing; an error is a call that raised.
Plans == {"expected", "other", "declined", "error"}

\* What a reviewer finds of a case: all well, a required fact missing, an unsupported claim.
\* Caution or scope found wrong fails a case as an omission does if the query was declined,
\* and is as critical as an unsupported claim otherwise.
Findings == {"right", "omission", "unsupported"}

Rows == [plan : Plans, evidence : {"baseline", "changed", None}]

Reports == [run : Runs, implementation : Nat, fixtures : Nat, rows : Seq(Rows), checks : Seq(BOOLEAN)]

Forms == [report : Reports, says : [1..Cases -> Findings] \cup {None}]

ASSUME RunAssumption ==
  /\ None \notin Runs \cup Folders \cup Nat \cup Reports \cup Forms
  /\ IsFiniteSet(Folders)
  /\ Cases \in Nat \ {0} /\ Repetitions \in Nat \ {0}
  /\ MinimumPercent \in 1..100 /\ MaxEdits \in Nat

VARIABLES code, fixtures, \* versions of the files
          baseline,       \* whether the workspace still has its baseline rows
          protocol,       \* the frozen protocol, or None
          runs,           \* what each process has in memory
          folders         \* what is on disk

vars == <<code, fixtures, baseline, protocol, runs, folders>>

files == <<code, fixtures, baseline, protocol>>

Row(p, evidence) == [plan |-> p, evidence |-> evidence]

\* Variant for mutation: evidence is taken to be the baseline's, as preflight found it.
ChecksTrustingPreflight(row) == row.plan = "expected"

\* automatic_checks, score_case: the plan and the evidence are the expected ones.
Checks(row) == row.plan = "expected" /\ row.evidence = "baseline"

\* cut is whether a line that is no JSON follows the cases; a form that is no JSON is None.
NoFolder == [made |-> FALSE, run |-> None, cases |-> <<>>, cut |-> FALSE, report |-> None, review |-> None]

NoRun == [pc |-> "idle", queries |-> FALSE, folder |-> None, code |-> 0, fixtures |-> 0, rows |-> <<>>,
          report |-> None, exit |-> None]

Init ==
  /\ code = 0 /\ fixtures = 0 /\ baseline = TRUE /\ protocol = None
  /\ runs = [r \in Runs |-> NoRun]
  /\ folders = [f \in Folders |-> NoFolder]

\* The processes that run evaluate_queries.
QueryRuns == {r \in Runs : runs[r].queries}

Going == {"preflight", "begin", "case", "record", "report", "review", "exit"}

To(r, place) == runs' = [runs EXCEPT ![r].pc = place]

Exit(r, status) == runs' = [runs EXCEPT ![r].pc = "over", ![r].exit = status]

\* An exception anywhere but in a case.
Fail(r) == Exit(r, 2)

-----------------------------------------------------------------------------
\* Variant for mutation: what exists is opened again.
Reopens == FALSE

\* mkdir(exist_ok=False), open("x"), touch(exist_ok=False)
Exclusive == TRUE

\* main: the modules and the fixtures are loaded, then the directory is made.  Whoever
\* redirects the output of evaluate_queries gives each run a file of its own.
Start(r, f, queries) ==
  /\ runs[r].pc = "idle"
  /\ queries => ~folders[f].made
  /\ IF ~Exclusive \/ ~folders[f].made
     THEN /\ runs' = [runs EXCEPT ![r] = [@ EXCEPT !.pc = "preflight", !.queries = queries, !.folder = f,
                                                   !.code = code, !.fixtures = fixtures]]
          /\ folders' = [folders EXCEPT ![f].made = TRUE]
     ELSE Fail(r) /\ UNCHANGED folders
  /\ UNCHANGED files

\* preflight, in sessions of its own.
Preflight(r) ==
  /\ runs[r].pc = "preflight"
  /\ IF baseline THEN To(r, "begin") ELSE Fail(r)
  /\ UNCHANGED <<files, folders>>

\* evaluate_answers writes run.json and touches cases.jsonl; evaluate writes nothing yet.
Begin(r) ==
  /\ runs[r].pc = "begin"
  /\ LET f == runs[r].folder
     IN  IF r \in QueryRuns THEN To(r, "case") /\ UNCHANGED folders
         ELSE IF Exclusive /\ folders[f].run # None THEN Fail(r) /\ UNCHANGED folders
         ELSE To(r, "case") /\ folders' = [folders EXCEPT ![f].run = r]
  /\ UNCHANGED files

\* One paid case: ask, and confirm_scope if the proposal is the expected plan.
AskCase(r) ==
  /\ runs[r].pc = "case"
  /\ \E p \in Plans :
       LET row == Row(p, IF p # "expected" THEN None ELSE IF baseline THEN "baseline" ELSE "changed")
       IN  runs' = [runs EXCEPT ![r].pc = "record", ![r].rows = Append(@, row)]
  /\ UNCHANGED <<files, folders>>

\* The loop over the planned cases is over.
Complete(n) == n = Cases

\* Variant for mutation: the file is opened with "w", which leaves one line in it.
LinesAfresh(lines, row) == <<row>>

\* open("a") and write
Lines(lines, row) == Append(lines, row)

\* cases.jsonl gets the case just finished.
Record(r) ==
  /\ runs[r].pc = "record"
  /\ folders' = IF r \in QueryRuns THEN folders
                ELSE [folders EXCEPT ![runs[r].folder].cases = Lines(@, Last(runs[r].rows))]
  /\ To(r, IF Complete(Len(runs[r].rows)) THEN "report" ELSE "case")
  /\ UNCHANGED files

\* The report as it is built and written; the implementation digest is of the files now.
Report(r) ==
  [run |-> r, implementation |-> code, fixtures |-> runs[r].fixtures, rows |-> runs[r].rows,
   checks |-> [i \in DOMAIN runs[r].rows |-> Checks(runs[r].rows[i])]]

WriteReport(r) ==
  /\ runs[r].pc = "report"
  /\ folders' = [folders EXCEPT ![runs[r].folder].report = Report(r)]
  /\ runs' = [runs EXCEPT ![r].pc = IF r \in QueryRuns THEN "exit" ELSE "review",
                          ![r].report = Report(r)]
  /\ UNCHANGED files

Form(report, says) == [report |-> report, says |-> says]

\* write_report: a blank form, pinned to the report.
WriteReview(r) ==
  /\ runs[r].pc = "review"
  /\ folders' = [folders EXCEPT ![runs[r].folder].review = Form(runs[r].report, None)]
  /\ To(r, "exit")
  /\ UNCHANGED files

Finish(r) ==
  /\ runs[r].pc = "exit"
  /\ Exit(r, IF \A i \in DOMAIN runs[r].rows : Checks(runs[r].rows[i]) THEN 0 ELSE 1)
  /\ UNCHANGED <<files, folders>>

\* What is left of a report that was being written: no JSON.
Torn == [run |-> None]

\* An exception outside of a case, which exits with 2, or the end of the process, which
\* leaves no other trace; a write may be cut off.
Stop(r) ==
  /\ runs[r].pc \in Going
  /\ Fail(r)
  /\ \/ UNCHANGED folders
     \/ runs[r].pc = "report" /\ folders' = [folders EXCEPT ![runs[r].folder].report = Torn]
     \/ /\ runs[r].pc = "record" /\ r \notin QueryRuns
        /\ folders' = [folders EXCEPT ![runs[r].folder].cut = TRUE]
  /\ UNCHANGED files

-----------------------------------------------------------------------------
\* What people do between and during the runs.
EditCode ==
  /\ code < MaxEdits /\ code' = code + 1
  /\ UNCHANGED <<fixtures, baseline, protocol, runs, folders>>

EditFixtures ==
  /\ fixtures < MaxEdits /\ fixtures' = fixtures + 1
  /\ UNCHANGED <<code, baseline, protocol, runs, folders>>

ChangeWorkspace ==
  /\ baseline /\ baseline' = FALSE
  /\ UNCHANGED <<code, fixtures, protocol, runs, folders>>

Freeze ==
  /\ protocol = None
  /\ protocol' = [implementation |-> code, fixtures |-> fixtures]
  /\ UNCHANGED <<code, fixtures, baseline, runs, folders>>

Written(f) == folders[f].report \notin {None, Torn}

\* A reviewer fills in the form, or leaves it.
Review(f) ==
  /\ folders[f].review # None /\ folders[f].review.says = None
  /\ \E says \in [1..Cases -> Findings] :
       folders' = [folders EXCEPT ![f].review.says = says]
  /\ UNCHANGED <<files, runs>>

Copy(f, g) ==
  /\ Written(f) /\ ~folders[g].made
  /\ folders' = [folders EXCEPT ![g] = folders[f]]
  /\ UNCHANGED <<files, runs>>

\* The stored checks of an answer report are edited to pass, and its form is pinned anew.
Embellish(f) ==
  /\ Written(f) /\ folders[f].report.run \notin QueryRuns /\ folders[f].review # None
  /\ LET report == [folders[f].report EXCEPT !.checks = [i \in DOMAIN @ |-> TRUE]]
     IN  report # folders[f].report /\ folders' = [folders EXCEPT ![f].report = report, ![f].review.report = report]
  /\ UNCHANGED <<files, runs>>

-----------------------------------------------------------------------------
\* Variant for mutation: the stored checks are believed.
StoredChecks(report) == report.checks

Recomputed(report) == [i \in DOMAIN report.rows |-> Checks(report.rows[i])]

\* assess_answer_report up to its last raise, for the implementation it is to be of.
Assessable(f, implementation) ==
  /\ Written(f) /\ folders[f].review # None /\ folders[f].review.says # None
  /\ LET report == folders[f].report
     IN  /\ folders[f].review.report = report
         /\ report.implementation = implementation
         /\ report.fixtures = fixtures
         /\ Len(report.rows) = Cases
         /\ Recomputed(report) = report.checks

Queried(f) == folders[f].report.run \in QueryRuns

\* Whether a case passes: as evaluate_queries stored it, or as it is assessed again, with
\* what the reviewer says.
CasePasses(f, i) ==
  IF Queried(f) THEN folders[f].report.checks[i]
  ELSE Recomputed(folders[f].report)[i] /\ folders[f].review.says[i] = "right"

\* assess_answers of one folder exits with 0.
Accepts(f) ==
  Assessable(f, code) /\ \A i \in 1..Cases : CasePasses(f, i)

\* A case that must not be in an accepted batch, however rare.
Critical(f, i) ==
  LET row == folders[f].report.rows[i]
  IN  \/ row.plan = "error"
      \/ ~Checks(row) /\ row.plan # "declined"
      \/ ~Queried(f) /\ folders[f].review.says[i] = "unsupported"

\* assess: the conditions on one report of evaluate_queries.
Consistent(f) ==
  /\ Written(f)
  /\ folders[f].report.implementation = protocol.implementation
  /\ folders[f].report.fixtures = protocol.fixtures
  /\ Len(folders[f].report.rows) = Cases

\* Variant for mutation: reports are told apart by where they are.
DistinctFolders(F) == TRUE

DistinctRuns(F) == \A f, g \in F : f # g => folders[f].report.run # folders[g].report.run

Cells(F) == F \X (1..Cases)

NoneCritical(F) == \A cell \in Cells(F) : ~Critical(cell[1], cell[2])

\* assess_batch, assess: all planned runs, each of the protocol, and the quality targets.
AcceptsBatch(F, historical) ==
  /\ protocol # None /\ protocol.fixtures = fixtures
  /\ historical \/ protocol.implementation = code
  /\ Cardinality(F) = Repetitions /\ \A f \in F : Consistent(f)
  /\ DistinctRuns(F)
  /\ \/ ~historical /\ \A f \in F : Queried(f)
     \/ \A f \in F : ~Queried(f) /\ Assessable(f, protocol.implementation)
  /\ NoneCritical(F)
  /\ Cardinality({cell \in Cells(F) : CasePasses(cell[1], cell[2])}) * 100
       >= MinimumPercent * Cardinality(Cells(F))
  /\ (\A f \in F : Queried(f)) \/ \A i \in 1..Cases : \E f \in F : CasePasses(f, i)

-----------------------------------------------------------------------------
Continue(r) ==
  \/ Preflight(r) \/ Begin(r) \/ AskCase(r) \/ Record(r)
  \/ WriteReport(r) \/ WriteReview(r) \/ Finish(r)

Next ==
  \/ \E r \in Runs, f \in Folders, queries \in BOOLEAN : Start(r, f, queries)
  \/ \E r \in Runs : Continue(r) \/ Stop(r)
  \/ EditCode \/ EditFixtures \/ ChangeWorkspace \/ Freeze
  \/ \E f \in Folders : Review(f) \/ Embellish(f)
  \/ \E f, g \in Folders : Copy(f, g)

Spec == Init /\ [][Next]_vars

-----------------------------------------------------------------------------
Processes ==
  [pc : Going \cup {"idle", "over"}, queries : BOOLEAN, folder : Folders \cup {None}, code : Nat,
   fixtures : Nat, rows : Seq(Rows), report : Reports \cup {None}, exit : {None, 0, 1, 2}]

Directories ==
  [made : BOOLEAN, run : Runs \cup {None}, cases : Seq(Rows), cut : BOOLEAN, report : Reports \cup {None, Torn},
   review : Forms \cup {None}]

TypeOK ==
  /\ code \in Nat /\ fixtures \in Nat /\ baseline \in BOOLEAN
  /\ protocol \in [implementation : Nat, fixtures : Nat] \cup {None}
  /\ runs \in [Runs -> Processes] /\ folders \in [Folders -> Directories]

Batches == {F \in SUBSET Folders : Cardinality(F) = Repetitions}

\* A directory has one run for ever, and its cases only grow: no later attempt takes up or
\* replaces what an interrupted run has left (docs/answer-evaluation.md).
RunKeepsItsFolder ==
  [][\A f \in Folders : folders[f].run # None =>
       folders'[f].run = folders[f].run /\ IsPrefix(folders[f].cases, folders'[f].cases)]_vars

\* A report, wherever it is copied, is of as many cases as are planned, all asked by one run,
\* and the directory's cases.jsonl has the same, in the same order, to its last line; without
\* one, cases.jsonl is what the run has asked so far, but for the case it is at, whose line
\* may be cut off.  (evaluate_answers, lines 266 to 312.)
InterruptedIsUnfinished ==
  \A f \in Folders :
    /\ Written(f) =>
         /\ Len(folders[f].report.rows) = Cases
         /\ folders[f].report.rows = runs[folders[f].report.run].rows
         /\ ~Queried(f) => folders[f].cases = folders[f].report.rows /\ ~folders[f].cut
    /\ folders[f].run # None =>
         LET asked == runs[folders[f].run].rows
             kept == Len(folders[f].cases)
         IN  /\ IsPrefix(folders[f].cases, asked)
             /\ Len(asked) \in IF folders[f].cut THEN {kept + 1} ELSE {kept, kept + 1}

Truly(row) == row = Row("expected", "baseline")

\* An exit code of 0 or 1 is a complete report with, if it is of answers, its form; it is 0
\* exactly when each case got the expected plan and evidence of the unchanged baseline,
\* although the baseline was only looked at before the first case.
ExitTellsTheRun ==
  \A r \in Runs :
    /\ runs[r].exit \in {0, 1} =>
         /\ Written(runs[r].folder) /\ folders[runs[r].folder].report.run = r
         /\ r \notin QueryRuns => folders[runs[r].folder].review # None
         /\ Len(runs[r].rows) = Cases
    /\ runs[r].exit = 0 => \A i \in 1..Cases : Truly(runs[r].rows[i])
    /\ runs[r].exit = 1 => \E i \in 1..Cases : ~Truly(runs[r].rows[i])

\* An answer report that an assessment accepts is of one whole run under the fixtures as
\* they are, every case of it had the expected evidence, and a reviewer found each right:
\* however its checks were edited, its folder copied or its run interrupted.
AcceptedIsEarned ==
  \A f \in Folders : Accepts(f) =>
    LET r == folders[f].report.run
    IN  /\ folders[f].report.rows = runs[r].rows /\ runs[r].fixtures = fixtures
        /\ \A i \in 1..Cases : Truly(runs[r].rows[i]) /\ folders[f].review.says[i] = "right"

\* An accepted batch is of as many runs as the protocol plans, each of the frozen fixtures:
\* no run counts twice because its folder was copied.  It may hold cases that were declined
\* or reported incompletely, never wrong evidence, another query, a failed call or an
\* unsupported claim; and of answers every case went well in some run.
BatchIsEarned ==
  \A F \in Batches : (\E historical \in BOOLEAN : AcceptsBatch(F, historical)) =>
    /\ Cardinality({r \in Runs : \E f \in F : folders[f].report.rows = runs[r].rows
                                               /\ folders[f].report.run = r}) = Repetitions
    /\ \A f \in F : runs[folders[f].report.run].fixtures = protocol.fixtures
    /\ \A f \in F, i \in 1..Cases :
         LET row == runs[folders[f].report.run].rows[i]
         IN  /\ Truly(row) \/ row.plan = "declined"
             /\ Queried(f) \/ folders[f].review.says[i] # "unsupported"
    /\ \A i \in 1..Cases :
         (\E f \in F : Truly(folders[f].report.rows[i])) \/ \A f \in F : Queried(f)

\* What the guide says of the digests, that they freeze the configuration: an accepted
\* answer report is of the implementation it names, which is the present one.
DigestIsOfTheCodeThatRan ==
  \A f \in Folders : Accepts(f) => runs[folders[f].report.run].code = folders[f].report.implementation
==============================================================================

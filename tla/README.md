# A verification project for Space Corp operations queries

TLA+ models of the parts of this repository that are hard to test: the bounded model call, the
life of a question from its grounding to its evidence and its answer, what the executors compute, the
sessions and constraints under which repositories work, concurrent lifecycle updates, the seeding and
refresh of a workspace, and the evaluation runs with their files. TLC checks each on a small instance,
and TLAPS proves the results listed under *Proofs* for every value of the constants.

Paths below are relative to the repository root.

## The system

| Component | State | Operations | Interacts with |
| --- | --- | --- | --- |
| Model call service (`app/llm`) | the attempt counter of a call; its log events | `generate`; the provider's `generate`, `_normalize` | the OpenAI SDK; called by the query service |
| Query service (`app/queries/service.py`, `resolution.py`) | none between calls: the `QueryOutcome` the caller holds is the state | `ask`, `confirm_scope` | model service, planning, executors, `query_session` |
| Query planning (`planning.py`, `contracts.py`) | none | `planning_prompt`, `parse_plan`, `has_multiple_reference_candidates`, plan contracts | query service |
| Query executors (`equipment.py`, `operations.py`, `execution.py`) | one read-only snapshot per execution | `execute` of five plans | PostgreSQL under row security |
| Answer synthesis (`app/answers`) | none: the `AnswerTurn` the caller holds | `ask`, `confirm_scope`, rendering, validation | query service |
| Sessions (`app/database.py`) | engine and pool | `session`, `workspace_session`, `query_session`, `dispose` | everything that reads or writes |
| Repositories (`app/operations`, `app/equipment`, `app/facilities`) | operational and catalog rows | `create`, `update_*`, reads | sessions; CHECK constraints and triggers |
| Catalog pin guards (`migrations/versions/0010`, `0011`) | the workspace's pin | two triggers, one function | repositories, seeding, query sessions |
| Baseline seeding (`scripts/seed_dataset.py`, `bootstrap_development.py`) | published releases and baselines, the workspace's copy | `publish`, `seed_workspace`, `validate_workspace`, refresh | the pin guards, writers |
| HTTP API (`app/main.py`, `app/api`, `app/schemas`) | the application's database handle | read-only routes, lifespan | repositories |
| Evaluation (`scripts/evaluate_*.py`, `assess_*.py`) | reports, forms and progress files | preflight, evaluate, review, assess | query and answer services |
| Schema, roles and row security; CI | declarations | — | PostgreSQL |

What is hard about them, and what would make each correct:

* **Model call.** Attempts, sleeps and two kinds of log event, with a provider that may answer with
  another call's context and an SDK that has a retry loop of its own. Correct means: the caller gets
  its own verdict, a transient failure only when attempts are used up, the telemetry tells the whole
  story, and the number of paid requests is bounded.
* **Seeding.** Two kinds of locks in two orders (workspace row, then operational rows; an operational
  row, then the workspace row in its trigger), an advisory lock, failures at every statement. Correct
  means: the pin and the units never disagree, a baseline never changes under its name, a refresh is
  all or nothing for everyone, and nobody waits for ever.
* **Queries.** Three sessions with three snapshots and a model call between them, in a workspace that
  changes; the model's text is not trusted; approval comes back later, in a call of its own. Correct
  means: no plan over several facilities runs unapproved, no plan names what the question does not,
  the evidence is of one moment, and the trace agrees with the outcome.
* **Evidence.** Five executors with SQL NULLs, boundaries of times and quantities, a limit that is
  found out by reading one row more, windows over rows counted elsewhere; contracts that check the
  same facts again, and sentences that claim more than their rows. Correct means: what is reported
  is all there is, or says that it is not.
* **Answers.** A turn is a question, an outcome and a response that a caller may put together from
  several calls. Correct means: an answer is to the question it shows, its verdict is as strong as
  its evidence, and a failure is never taken for an empty result.
* **Sessions and repositories.** A workspace that is a setting of a transaction on a pooled
  connection, rows of several callers under unique and foreign keys, statements that wait, deadlocks,
  commits nobody hears of. Correct means: isolation, constraints, all or nothing, and pages whose total
  and rows agree as far as their isolation lets them.
* **Lifecycle updates.** Validation against what was read, an UPDATE of only the changed columns, and
  constraints on what results. Correct means: the merged record is valid, no column is silently undone
  and the caller is told the truth.
* **Evaluation.** Processes of many paid calls that may be killed at any point, while the files they
  are about change; reports that are copied, edited and reviewed by hand. Correct means: an interrupted
  run is not taken for a finished one, nor a copy for a second run, and an accepted report is earned.

PROJECT.json lists every component with its status, and every hazard at its line with the properties
that would catch it.

## Modules

| Module | What it is |
| --- | --- |
| `ModelCall` | abstract: what a caller of `ModelService.generate` may rely on |
| `ModelService` | the loop of `generate` and the provider's classification; implements `ModelCall` |
| `ModelServiceProofs` | its theorems, and the refinement |
| `QueryPromise` | abstract: what a caller of `QueryService` may rely on |
| `QueryService` | `ask` and `confirm_scope` over a changing workspace; implements `QueryPromise` |
| `QueryServiceProofs` | its theorems, and the refinement |
| `AnswerService` | the answer service over `QueryPromise` |
| `AnswerServiceProofs` | its theorems |
| `Evidence` | executors, contracts and rendering, as operators over a snapshot |
| `EvidenceProofs` | its theorems |
| `Repositories` | sessions, creates and pages under row security and the schema's constraints |
| `RepositoriesProofs` | its theorems |
| `Lifecycle` | concurrent `update_lifecycle` calls on one record |
| `LifecycleProofs` | its theorems |
| `WorkspaceSeeding` | one workspace between seeders, the owner's direct UPDATE, and writers |
| `WorkspaceSeedingProofs` | its theorems |
| `EvaluationRun` | both evaluators, their files, and the assessments |
| `EvaluationRunProofs` | its theorems |
| `MC...` | instances for TLC, with one `.cfg` per run |

`ModelService` implements `ModelCall`; `QueryService` takes a model call as the one step that `ModelCall`
promises, and implements `QueryPromise`; `AnswerService` extends `QueryPromise` with its own calls, so that
what it is checked and proved for holds of the detailed service too.

### ModelService

`pc[op]` is where the call's thread is, `attempt` the loop variable, `log[op]` the events that carry
op's `operation_id`, `result[op]` what `generate` returned or raised; `sent` and `slept` are history:
requests on the wire and time slept. An `Attempt` is one pass of the loop body: the provider's answer
(any SDK outcome, classified as `OpenAIProvider.generate` and `_normalize` do, with any context), the
check of the context, the attempt event, and either the end of the call with its operation event or
the sleep. `Wake` ends a sleep within its jitter; `SleepRaises` is an exception out of the sleep. The loop is over after the
last attempt, and with it the call, by the AssertionError behind the loop (`GoOn`). Several
calls share one service and interleave between their passes. A provider may mix up contexts on answers
it makes; an exception that is no `ModelCallError` has none to mix up.

### QueryService and QueryPromise

`args[c]` is what the caller passed, `types`, `plan` and `snap` are the local variables of the call
(`reference_types`; the proposal, then the resolved plan; the open snapshot), `trace[c]` its events
and `outcome[c]` what it returned or raised. A question is what it literally contains and which UUIDs
it spells out; a plan is its operation and one reference or none per slot, in the order of
`reference_slots`. Filters that name no record (statuses, times, quantities, locations) do not affect
the control and are left out, as is pagination. A resolution takes of each slot its first match
(`Resolved`), after it has failed or declined at the first slot that has none or several; that a plan is never
a guess between several is left to `NeverGuesses`. Opening a session, each of its uses, and the failures
of both are actions, so that `visible` may change between any two of them: `Change` creates and
removes records, `Pin` pins the workspace. `Propose` lets the model propose any plan at all: what the
parser and the guard let through is decided by the model of the code. `ModelService.generate` is one step
(`Propose` or `PlanningFails`), which is what `ModelCall` promises of it. A confirming caller may pass
any outcome it was given, any of its contexts, and as approval any plan it was given or that plan
without its restrictions.

`QueryPromise` keeps of this the arguments and outcomes only: a call is asked, and later answered by one of
the three ends of an ask, by the confirmed outcome, or by a failure. Sessions, phases, entities and
traces are gone; evidence is any of `Evidence`, which `QueryService` instantiates with its snapshots.

### AnswerService

`phase[c]` is where the call is, `pending[c]` the turn a confirmation was called with, `turn[c]` what it
returned or raised, `log[c]` its events. A turn has a request (question and query outcome) and a response;
`Held` lets a caller put together the question, the query outcome and the response of three turns, as nothing
in `service.py` or the contracts ties them but their context. A question with the query of another turn is
therefore accepted, by the model as by the code, and answered with that query's evidence: `AnswerRequest` is trusted
input. `AnswersOwnQuestion` says what holds of every such turn (records of an approved plan of one context) and
that a turn whose request was passed on whole (`Untouched`) answers its own question; without that condition TLC
finds it violated. The validators of `AnswerRequest`
and `AnswerTurn` are `ConsistentRequest` and `ConsistentTurn`, the rules of `cautious_response` and
`render_answer` `Rendered`, in the code's order. Evidence here is a page: how many rows match, where the
page begins, how many it holds, and whether the text is within its bounds, and a result has the operation of
its plan (`OperationOf`). A failure of the rendering comes out as `invalid_answer` or as `internal_error`.

### Evidence

One behaviour executes one plan over one snapshot with one page and renders the result. `Matches` and the
`OrdersOf`, `IncidentsOf`, `ItemsOf`, `UnitsOf` operators are the WHERE clauses with SQL's three truth values,
`Window` is LIMIT and OFFSET, `Listing`, `Equipment` and `Stock` the executors with their lookups, budget and
nested rows, `Valid` the contracts' validators, `Render` the claims, references and coverage of
`rendering.py` and `validation.py`. The properties compare these with definitions over the tables that use
neither windows nor budgets. A world is a snapshot that the schema's constraints allow (`CaseAssumption`).

### Repositories

`sess[s]` is one block of `session`, `workspace_session` or `query_session` with its connection and its
snapshot, `setting[c]` the workspace set on a connection, `rows` and `fate` the table rows and what has
become of each. `Enter`, `SetWorkspace`, the two statements of a page, `Create` and `Insert` (the statement
is sent; it is carried out when no other transaction holds its key) and the ends of a block interleave; the
owner's refresh may `Remove` rows. Who waits follows from the keys of uncommitted rows, and a deadlock ends
one of the transactions in it. `Visible` is the row security policies, `Selected` the repositories' own
workspace clauses: `OwnWorkspaceOnly` needs either of them, as the migrations intend.

### Lifecycle

`seen[c]` is the record as the call read it, `want[c]` what it asked for, `draft[c]` the row of its
transaction after the UPDATE, `returned[c]` what the refresh read. `Merged` is the UPDATE of the
columns that differ from what was read, on the row as it is committed when the lock is granted; `Check`
is the CHECK constraints, written as the schema writes them, and `Valid` the domain validator. A
work order's `due_at` behaves as `rank` does, so one column stands for both.

### WorkspaceSeeding

The committed state is `pin` (no workspace, an unpinned one, or its baseline: `baseline_id` and
`catalog_release_id` are one value, as the constraint of migration 0010 requires), `published`, and
`rows`, some of which may be there at first under the ids of a baseline, as the owner's own. A row
remembers which columns were edited; a writer's UPDATE changes the columns it was asked to (`Updated`) in the row
that is there. A row is a unit, which carries the catalog trigger (inventory items do too), or an incident,
which stands for the tables without one. The locks are variables: the advisory lock of `publish`, the
`FOR UPDATE` of `seed_workspace`, and each writer's `FOR SHARE` (trigger) or `FOR KEY SHARE` (foreign
key) on the workspace row; row locks follow from `pc`. A seeder's uncommitted DELETEs and INSERTs are
in its `job`, so that a rollback is the loss of the job. Each statement that may wait, and each decision,
is an action; `Commit` makes everything visible at once. A statement sees what READ COMMITTED shows
it: `View` for a seeder, the committed rows for a writer. An UPDATE that waited for a deleted row fails
when the deletion commits, also when a row of the same id has come back, because the new row is
another tuple. The deadlock between a refresh and a unit's writer is real and is modelled, with
PostgreSQL ending either of the two. `AbortSeeder` and `AbortWriter` are crashes, lost connections and
exceptions, at any point.

### EvaluationRun

`runs[r]` is one process (either evaluator) with what it has in memory, `folders[f]` what is on disk;
`code`, `fixtures`, `baseline` and `protocol` are what its people change meanwhile. A digest is what it
was computed from. `Stop` is an exception or the end of the process at any point, also in the middle of writing
the report or a line of `cases.jsonl` (`cut`). A review cut off while it is written is one that cannot be read, as
is none. Reports are reviewed, copied and embellished. An assessment only reads, so it is an operator
(`Accepts`, `AcceptsBatch`): what it would say of the files as they are.

## Runs

All on small instances and complete state spaces. `evaluation_run`, `evaluation_cases` and `repositories` take processes,
directories, connections and workspaces that are alike as symmetric; they check safety only. Deadlock is not
checked because in every model all calls may be over: that the calls end is checked as liveness where the
code has loops, waits or locks.

| Run | Instance | States | What it shows |
| --- | --- | --- | --- |
| `model_service` | two calls, one for a model that is not served; 3 attempts | 2 152 | telemetry and verdict of each call; every call ends, by its timeouts; refinement of `ModelCall` |
| `seeding` | two seeders, a writer, the owner; three manifests, two histories, rows of a baseline or a legacy one | about 164 000 | pin, publication, refresh and progress |
| `seeding_writers` | a seeder, two writers, rows of a baseline at first | about 235 000 | updates of columns against each other and against a refresh that creates their rows anew |
| `query_service` | one ask, one confirmation, two contexts, four entities, four questions, two operations | about 83 000 | plan, resolution, evidence, trace |
| `query_two_questions` | two asks, one confirmation, two contexts, two entities, one operation | about 725 000 | approvals that meet another question's proposal; refinement of `QueryPromise` |
| `answer_service` | two asks, one confirmation, two contexts, two plans, five pages | 105 809 | question, verdict and trace of turns, put together or not |
| `evidence` | some 800 small workspaces in five families, four pages, a budget of 3 | 30 864 | executors, contracts and rendering against reference definitions |
| `repositories` | two blocks, two connections, two workspaces, facilities and units, three ids, pages from the first and the second row | about 676 000 | isolation, constraints, atomicity, totals and rows of pages |
| `lifecycle` | two callers, every record of 2 ranks, 3 statuses, 3 times around `Origin` | about 47 000 | merges of two updates, all argument pairs |
| `evaluation_run` | two processes, two directories, one case, two repetitions, one edit of each kind | about 4.5 million | copied, edited and reviewed runs, and what is accepted |
| `evaluation_cases` | the same with two cases and no edits | about 5 million | runs killed before, between and within cases: what `cases.jsonl` and the report hold |
| `evaluation_digest` | one process, one directory, one edit | violated | the finding below |

Why the bounds are enough to meet the cases:

* `model_service`: `MaxAttempts = 3` is the code's own maximum, and two calls let a provider give one
  the context of the other. Every status the classification distinguishes is present.
* `seeding`: the manifests are a baseline, an edited file under the same version and release, and a
  baseline of the next release, so that both comparisons of `publish` can fail, with and without
  earlier publications (`History`). The unpinned workspace may hold a legacy unit of the other release. Each
  process makes one transaction; a third transaction meets only committed state, which every seeder may
  find in any form. In `seeding_writers` the ids a refresh restores are there before it, so that an update may
  meet the row it read, no row, or another one under its id.
* `query_service`: two facilities share a name (an ambiguous match), two questions spell out UUIDs, of
  one kind and of different kinds, and `MaxGrounded = 2` is not exceeded by them; what exceeds it fails
  in `Ground` in the same way for every number. `compatible_stock` never needs confirmation,
  `incidents` may be anchored by a unit or only by a model.
* `query_two_questions`: of `facility_equipment` plans those that name no facility need an approval and the others
  do not, so the one operation has both ends of a resolution; an approval that lacks the facility is a plan of its own.
* `answer_service`: a turn is put together from two, and a confirmation makes one more, so two asks and a
  confirmation are the least that mixes anything. One plan spans, one does not. The pages are empty, whole, too
  large for the text, the second of two, and past the end.
* `evidence`: each family varies what its operation's clauses look at: due dates before, at and after the time
  asked about or absent, orders with a unit of their own, through an incident, or none; quantities below, at and
  above the reorder point; more incidents than the budget. Page sizes of 1 and 2 over at most three rows split
  and overrun. `MaxEvidence = 3` (1000 by default in `equipment.py`) is met and passed by a stock with up to 5 incidents.
* `repositories`: a facility and a unit under it, two codes so that keys may clash or not, and a third id for
  the row that comes back after a removal. Two connections let a connection be reused by another workspace, or two
  blocks run at once and wait for each other. A page of one row has rows before it and beyond it. In a
  `workspace_session` READ COMMITTED lets total and rows be of two moments, which the code accepts: `PageAddsUp`
  says that nothing else makes them differ, and that in a `query_session` not even this does.
* `lifecycle`: one time before `Origin` is invalid for every update; two after it let two closings differ.
* `evaluation_run`: two repetitions of one case give copied and distinct reports and, with 50 %, a batch in
  which one of two may fail.
* `evaluation_cases`: of two cases none, one, both or a part of a line may be on disk when a process ends, in
  either of two repetitions. More cases repeat `AskCase` and `Record`; the proofs take any number.

Every property of every passing run has a mutant in PROJECT.json: a definition of the model replaced the way a
plausible bug would change the code (marked `Variant for mutation`), under which TLC finds the property
violated.

### Finding

`evaluation_digest`: `docs/query-evaluation.md:54` says that the digests freeze the configuration. Both
evaluators compute the digest of the report after the last case, of the files as they are then
(`evaluate_answers.py:312`), while the process runs the modules it imported at its start. An edit during a
run of paid calls leads to a report whose digest is of code that did not run, and the assessment accepts it as
current. `run.json` does hold the digest of the start; nothing compares the two.

### Fairness

Weak fairness where there is any, of steps that the code or the database takes by itself:

* `ModelService`: an attempt ends because every request has a timeout, and a sleep ends. Nobody has to
  call, and a sleep need not raise.
* `WorkspaceSeeding`: a statement that can run does, and PostgreSQL's deadlock detector runs. Starting,
  aborting and the owner's UPDATE are not assumed. Weak fairness suffices for the row and advisory
  locks because each process makes one transaction.
* `Lifecycle`: statements that can run do; nobody has to call.

`QueryService` (whose calls run straight to their end), `QueryPromise`, `AnswerService`, `Evidence`,
`Repositories` and `EvaluationRun` assume none: a caller, a person at a keyboard or a killed process need not
go on.

## Proofs

`tlapm` checks every theorem to its leaves. The assumptions are the named ASSUMEs of the modules, which
TLC evaluates on the runs: `OpsAssumption`, `AttemptsAssumption` for `ModelService`,
`TimeAssumption`, `StatusAssumption` for `Lifecycle`; for `WorkspaceSeeding` `ManifestAssumption` (a
manifest's rows have distinct ids, derived from the keys that `dataset_manifest.py` requires to be unique, and
its units are written with its own release), `HistoryAssumption` (what was published before is consistent) and
`SentinelAssumption`; for `QueryService` `EntityAssumption`, `QuestionAssumption` and `OperationAssumption`;
`PromiseAssumption` for `QueryPromise`, and with it `PageAssumption` for `AnswerService` (a page holds no more rows
than its total and limit leave, as `EvidencePage.valid_page` demands of every response);
`RepositoryAssumption` for `Repositories`; `RunAssumption` for `EvaluationRun`; `DataAssumption` for `Evidence`, which
holds `CaseAssumption` of every snapshot (types, CHECKs and foreign keys of the tables) and `PlanAssumption` of
every plan (what the contracts of the five operations let through). Times, codes and ids are numbers there, so
that the order of the codes is total, and `None`, being a value of none of the columns, is no number.

**ModelServiceProofs**, for any set of calls and 1 to 3 attempts:

* `TypeCorrect`, `TelemetryCorrect`, `ResultCorrect`, `CostCorrect`. The
  inductive invariant `IInv` is all four with `Counters`, which ties the loop variable to where the call
  is: without it `CostIsBounded` says nothing about a call that sleeps on its last attempt and would send
  once more, and the telemetry's numbering does not follow.
* `ProgressCorrect`: every step of a call takes it further in a count that ends at 2 · `MaxAttempts`, and after
  its end nothing about it changes, its log included. This is the part of `EveryCallEnds` that needs no fairness:
  no call runs in circles.
* `Refinement`: `Spec => Promise!Spec`. Initial states map to initial states; an attempt maps to
  `Spend` or `End` of `ModelCall` (the last request is part of the end), for an unserved model to a
  stutter or an `End` without a request; sleeps and wakes map to stutters, under the invariant.

**QueryServiceProofs**, for any calls, contexts, entities, questions and operations. `IInv` has, per call, `CallOK`
(what it has when it is in a phase: a plan in execution is the question's own or the approved one),
`OutcomeOK` (what a call that ended well has returned), `ProposalOK` and `TraceOK`. `ProposalOK` is the heart: a
confirmation that was let through holds an outcome that an ask did return and that has not changed since, so
that the plan it runs was resolved against the question. From it follow `TypeCorrect`, `ScopeCorrect`,
`PlanCorrect`, `EvidenceCorrect` (the evidence of an answer is read in a workspace that is pinned, in one snapshot
that has every record the plan names) and `TraceCorrect`, and

* `GuessCorrect`: a plan that goes on from its resolution names, for each reference of the proposal, the one record
  that it matches in the snapshot; none is picked out of several and none is dropped.

* `Refinement`: `Spec => Promise!Spec`, with `Evidence` instantiated by the snapshots. The entry of a call maps
  to `Ask` or `Confirm`, its end to the end that fits its outcome, a phase between them to a stutter.
* `ForwardCorrect`: every step of a call takes it further in a count (`Stage`) that ends at 9, or leaves it as
  it was, and an ended call keeps its outcome and trace: a call ends if it goes on.

**AnswerServiceProofs**, for any calls, contexts, questions, plans and pages: `TypeCorrect`, `QuestionCorrect`,
`VerdictCorrect` and `TraceCorrect`. `IInv` has `PhaseOK`, `QueryOK` (an outcome belongs to the ask that planned
it), `PendingOK` and `TurnOK`. `PendingOK` ties each part of a pending turn to the call it came from: they
need not be of one call. Only of a request that is as a call returned it does it say that the question is that of the
query, and of no other is this proved of the answer.

**RepositoriesProofs**, for any blocks, connections, workspaces, codes, ids and tables of the schema:
`TypeCorrect`, `IsolationCorrect`, `ConstraintsCorrect`, `AtomicityCorrect`, `PagesCorrect`. `IInv` adds `SettingsOK` (the setting
of a connection is that of the block which holds it, and none when nobody does), `KnownRows`, `MadeOK` (a pending
row has one maker, which is at work) and the constraints over the rows that are committed or may yet be (`KeysOK`,
`ParentsOK`): over the committed ones alone they are not inductive, since two pending rows could clash. For the pages
there is `PagesOK`: a half-read page holds what its first statement saw, and in a `query_session` that is what the
second will see; `PageStays` is that rows once read are never rewritten, so that a page remains what it was.
`WaitingCorrect` follows from `MadeOK`: a block waits only for one that is still at work, so when none can go on,
all that are at work wait for one another, which is what the deadlock detector (`Knot`, of any length) ends.

**LifecycleProofs**, for any set of callers, ranks, statuses and times:

* `TypeCorrect` (which includes that one transaction at a time holds the row) and `LifecycleCorrect`.
  The inductive invariant adds `Validated` (a call that went on asked for something valid and read
  something valid), `DraftIsMerge` (while a call holds the row, its draft is the merge with the row as it
  is now committed: the row lock is what makes this inductive) and `ReturnedDraft`.
* `PairCorrect`, `ColumnsCorrect`, `ReturnCorrect`: the action properties of the run, from the same
  invariant. The lemma `CheckIsValid` is that the constraints and the validator are one rule, and
  `MergedPair` that a merge that passes the constraints takes status and time from one side.

**WorkspaceSeedingProofs**, for any number of seeders and writers, any manifests and rows, and every safety
property the runs check. The inductive invariant `IInv` adds to the types:

* `SeederLocks`: a seeder is past `publish` exactly while it has the advisory lock, so one at a time, and
  what it compared in `publish` still holds; from its decision on it has the workspace row, if there is one.
* `SeederWork`: what it decided is still true when it commits. A new copy finds the tables empty, a refresh
  has deleted exactly what is committed, a kept copy touches nothing.
* `WriterLocks`: while a seeder has the workspace row no writer has a lock of it, so none has an uncommitted
  INSERT; a unit about to be committed is of the pinned release and its writer holds the row FOR SHARE.
* `Apart`: no writer is at a row a seeder has deleted. An update of an incident locks nothing of the workspace, so
  without it a refresh could commit over an update in flight.

`Invariance` has one lemma per action. Most go through `SeederOnly` or `WriterOnly` (a step of one process
that commits nothing leaves the others' parts alone); `CommitIInv`, `OwnerPinIInv` and `CommitWriterIInv` are
the steps others see, and `VisibleSteps` says that there are no more of them, which gives the action
properties: `PinForever`, `CommitCorrect`, `BaselineCorrect` and `UpdateCorrect`. `PinnedReleaseCorrect` and
`PublishedCorrect` are parts of the invariant.

`WaitingCorrect` is that not everyone waits for everyone: while a transaction is not over, a seeder or a writer can
take its next step, or a seeder and a writer are `Deadlocked` and `BreakDeadlock` can end one of them. It needs
`HoldersWrite` (only a writer that has written holds a lock) besides `IInv`. "Can take its step" is the guards of the
statements, `SeederReady` and `WriterReady`, since the prover has no rules for ENABLED; TLC finds them equal to
`ENABLED SeederStep(s)` and `ENABLED WriterStep(w)` in every state of both seeding instances.

**EvaluationRunProofs**, for any processes, directories (finitely many), cases, repetitions and edits, every
property of the run: `TypeCorrect`, `InterruptedCorrect`, `ExitCorrect`, `AcceptedCorrect`, `BatchCorrect` and the
action property `FolderCorrect`. `IInv` has `OwnersOK` (no directory has two processes), `OwnAt` (place by
place, what a process and its directory hold) and `FolderOK`: the run a report names is past its last case,
so what a copy says cannot become false. That is what an assessment of a copied or edited report rests on. Two
lemmas, `ProcessStep` and `FolderStep`, do the frame reasoning once for all actions. `BatchCorrect` counts the runs of
a batch by a bijection with its directories.

**EvidenceProofs**, for any snapshots the schema allows, any plans, pages, budgets and limits, every property of the run:
`ResultsAreValid`, `PagesAreTiles`, `EvidenceIsWhole`, `FiltersDoSplit`, `ClaimsHold` and `TextHasReferences`. The
behaviour has two steps, so the inductive invariant `EvidenceInv` says little more than which function of the snapshot,
the plan and the page the result is (`Outcome`), and which function of the result the answer. That the contract's
validators reject nothing an executor computes is what makes it inductive (`OutcomeValid`): without it the result of
`Execute` could be a failure that no property expects. The work is in the lemmas about the operators:

* `Ranks`, `CanBeSorted`, `SortedIs`: in a finite set of codes the number of smaller ones runs from 0 to one less than
  the size, so the ascending list exists (`Sorted` is a CHOOSE) and has at each place the code of that rank.
* `WindowIs`, `LimitedIs`: what OFFSET and LIMIT leave of it. `PagesMeet` and `PagesReachTheEnd` draw the conclusion for
  a caller that turns pages: pages that follow each other share nothing and join without a gap, up to the end.
* `EquipmentBudget`, `StockBudget`: each lookup reads at most one row more than the budget has left, and that one
  row is enough to know that the evidence would be cut.
* `OverdueIs` and the `...Splits`: SQL's three truth values collapse to two once NULL is excluded by name.
* `SummaryIs`, `WholeIs`: a page of as many rows as the total is all there is, which the claims rest on.
* `RowCovers`, one lemma per kind of row: the walk over the keys and the five sentences meet the same records.

* `OrderIs`: the preferred facts and then the rest are a permutation of the page, so a preference drops nothing.

**Only model-checked** is liveness: `EveryCallEnds` of `ModelService`, `TransactionsEnd` and
`EveryUpdateEnds`. The prover has no rules for fairness and ENABLED. What can be said without them is proved: `ProgressCorrect` and
`ForwardCorrect` bound the steps of a call, and `WaitingCorrect` is that the transactions cannot all be stuck.
That the interesting cases occur (a page that is cut, a budget that is met, a mixed-up context) is what the runs
and their mutants show; a theorem about all instances does not.

## Not modelled

Provider configuration (values read once at start), CI, grants, indexes and the order of the migrations, routing and
the problem details of the HTTP API, text validation in the repositories, inventory updates (as units'), the
shared catalog, which no request writes, the scoring of a plan against a case, the validation of fixtures and the smoke
test. Of the filters, those on priorities, severities and locations (`operations.py:180`, `252`, `80`), which have the
shape of the modelled ones; of the assessments, the separate rates for declined and cautious answers, so that the one
rate of `AcceptsBatch` counts all cases, and `cautious_and_scope_correct`, without which the model accepts more than
the code; of a trace,
what an interrupt (a BaseException that is no Exception) writes; UNIQUE on the version of a baseline, which refuses
nothing that `publish` does not. The order of a page is total (codes are unique), so a missing tie-breaker would
not show. Texts, prompts, tokens, durations and formatting are abstracted throughout: `Evidence` keeps of a
rendered text which records and facts it claims.

## Plan

Done: the modules above. What is left, in this order:

1. `ApiLifespan`: startup, the owned or borrowed database, disposal.
2. `Scoring`: `score_case` and `automatic_checks` over plans with their filters, as operators.
3. `Evidence` composed with `Repositories`, so that a snapshot is what a `query_session` sees of concurrent blocks.

-------------------------- MODULE WorkspaceSeeding --------------------------
(***************************************************************************)
(* One workspace, its catalog pin and its operational rows, between        *)
(* seeders (scripts/seed_dataset.py run by bootstrap_development.py, one   *)
(* transaction each), the owner's direct UPDATE of the pin, and            *)
(* application writers (one repository call in a workspace_session each).  *)
(*                                                                         *)
(* Transactions are READ COMMITTED: a statement sees the committed rows    *)
(* and its own transaction's, and the locks it takes last until its        *)
(* transaction ends.  The triggers are those of migration 0010.  A row is  *)
(* a unit (inventory items carry the same trigger) or an incident (as the  *)
(* other tables, which have none).                                         *)
(***************************************************************************)
EXTENDS FiniteSets

CONSTANTS Seeders, Writers,
          Manifests,   \* [version, release, catalog, rows] records
          Releases,    \* catalog releases a unit may refer to
          LegacyRows,  \* rows an unpinned workspace may already hold
          History,     \* sets of baselines earlier seeders may have published
          Absent, Unpinned, Nobody, NoRelease

Kinds == {"unit", "incident"}

\* Columns that a repository updates.
ColumnsOf == [unit |-> {"operational_status"}, incident |-> {"severity", "status"}]

Columns == UNION {ColumnsOf[k] : k \in Kinds}

ManifestRows == UNION {m.rows : m \in Manifests}

Ids(R) == {r.id : r \in R}

Row == [id : Ids(ManifestRows \cup LegacyRows) \cup Writers, kind : Kinds,
        release : Releases \cup {NoRelease}, edited : SUBSET Columns]

\* A primary key, in every manifest and table.
Keyed(R) == \A r1, r2 \in R : r1.id = r2.id => r1 = r2

\* A manifest names rows of its own release; another manifest may claim the same
\* version or release with other content (an edited dataset file).
ASSUME ManifestAssumption ==
  /\ LegacyRows \subseteq Row /\ Keyed(LegacyRows)
  /\ \A m \in Manifests : /\ m.rows \subseteq Row /\ Keyed(m.rows)
                          /\ \A r \in m.rows : r.kind = "unit" => r.release = m.release

\* A version names one baseline and a release one catalog content.
Consistent(P) == \A p, q \in P : /\ p.version = q.version => p = q
                                 /\ p.release = q.release => p.catalog = q.catalog

ASSUME HistoryAssumption == \A P \in History : P \subseteq Manifests /\ Consistent(P)

ASSUME SentinelAssumption ==
  /\ Absent \notin Manifests /\ Unpinned \notin Manifests /\ Absent # Unpinned
  /\ Nobody \notin Seeders \cup Writers /\ Seeders \cap Writers = {}

VARIABLES pin,        \* committed workspace: Absent, Unpinned or its baseline
          published,  \* committed baselines
          rows,       \* committed operational rows of the workspace
          pc,         \* where each transaction is
          advisory,   \* holder of pg_advisory_xact_lock(150015)
          exclusive,  \* holder of the workspace row FOR UPDATE
          held,       \* lock of each writer on the workspace row
          job,        \* a seeder's arguments and what it decided
          write       \* the record of a writer's call, and the columns it set

vars == <<pin, published, rows, pc, advisory, exclusive, held, job, write>>

-----------------------------------------------------------------------------
NoJob == [mode |-> "none"]

NoWrite == [row |-> Nobody]

Options == {"none", "validate", "refresh"}   \* of bootstrap_development.py

\* What a seeder finds: nothing to copy over, a copy to keep, or one to restore.
Modes == {"fresh", "keep", "refresh"}

\* What a statement of seeder s sees of the operational tables.
View(s) == IF job[s] = NoJob THEN rows ELSE (rows \ job[s].gone) \cup job[s].added

\* Rows some seeder has deleted and not committed.
Gone == UNION {job[s].gone : s \in {t \in Seeders : job[t] # NoJob}}

\* Writers whose transaction holds the lock of the row with this id.
RowHolders(id) == {w \in Writers : pc[w] \in {"trigger", "updated"} /\ write[w].row.id = id}

\* Publish: released content is compared, never replaced.
Publishable(m) ==
  \A p \in published : /\ p.release = m.release => p.catalog = m.catalog
                       /\ p.version = m.version => p = m

\* enforce_workspace_catalog: a unit of a pinned workspace is of its release.
CatalogAllows(row) == (row.kind = "unit" /\ pin \in Manifests) => row.release = pin.release

\* Variant for mutation: the trigger that forbids another pin is left out.
PinMayChangeAlways == \A r \in rows : r.kind # "unit"

\* protect_workspace_pin: only an unpinned workspace without units is pinned.
PinMayChange == pin = Unpinned /\ \A r \in rows : r.kind # "unit"

\* Variant for mutation: the trigger reads the pin without a row lock.
LockOfForeignKey(row) == "key"

\* What writing a row locks in workspaces: the trigger of units FOR SHARE, the
\* foreign key of the others FOR KEY SHARE.
LockOf(row) == IF row.kind = "unit" THEN "share" ELSE "key"

\* The workspace is new, legacy, or a copy an earlier seeder has made.
Init == /\ published \in History
        /\ pin \in {Absent, Unpinned} \cup published
        /\ rows \in IF pin = Absent THEN {{}}
                    ELSE IF pin = Unpinned THEN SUBSET LegacyRows ELSE {pin.rows}
        /\ pc = [t \in Seeders \cup Writers |-> "idle"]
        /\ advisory = Nobody /\ exclusive = Nobody
        /\ held = [w \in Writers |-> "none"]
        /\ job = [s \in Seeders |-> NoJob]
        /\ write = [w \in Writers |-> NoWrite]

-----------------------------------------------------------------------------
(* Seeders: seed_workspace in one Database.session transaction.            *)

Goto(t, label) == pc' = [pc EXCEPT ![t] = label]

\* Variant for mutation: a session-level lock, kept by a failed transaction.
AdvisoryKept(s) == IF pc[s] = "commit" THEN Nobody ELSE advisory

\* The lock of publish ends with the transaction, whatever its outcome.
AdvisoryAfter(s) == IF advisory = s THEN Nobody ELSE advisory

\* The transaction of s ends: its locks and its uncommitted work go.
EndSeeder(s, outcome) ==
  /\ Goto(s, outcome)
  /\ advisory' = AdvisoryAfter(s)
  /\ exclusive' = IF exclusive = s THEN Nobody ELSE exclusive
  /\ job' = [job EXCEPT ![s] = NoJob]

Rollback(s) == /\ EndSeeder(s, "failed")
               /\ UNCHANGED <<pin, published, rows, held, write>>

\* Variant for mutation: publishers are not serialized.
AdvisoryIgnored == TRUE

AdvisoryFree == advisory = Nobody

Bootstrap(s, m, option) ==
  /\ pc[s] = "idle"
  /\ job' = [job EXCEPT ![s] = [manifest |-> m, option |-> option, mode |-> "keep",
                                 gone |-> {}, added |-> {}]]
  /\ Goto(s, "publish")
  /\ UNCHANGED <<pin, published, rows, advisory, exclusive, held, write>>

\* publish waits for the publishers before it and compares with what they left.  UNIQUE on
\* the version is left out: it could only refuse what the comparison refuses.
Publish(s) ==
  /\ pc[s] = "publish" /\ AdvisoryFree
  /\ IF Publishable(job[s].manifest)
     THEN /\ Goto(s, "lock") /\ advisory' = s
          /\ UNCHANGED <<pin, published, rows, exclusive, held, job, write>>
     ELSE Rollback(s)

\* Variant for mutation: the workspace is read without FOR UPDATE.
ExclusiveOfPlainRead(s) == exclusive

\* The workspace row, if there is one to lock.
ExclusiveOf(s) == IF pin = Absent THEN exclusive ELSE s

\* SELECT ... FOR UPDATE waits for every other lock of the row.
LockWorkspace(s) ==
  /\ pc[s] = "lock"
  /\ pin # Absent => (exclusive = Nobody /\ \A w \in Writers : held[w] = "none")
  /\ exclusive' = ExclusiveOf(s)
  /\ Goto(s, "decide")
  /\ UNCHANGED <<pin, published, rows, advisory, held, job, write>>

\* A copy is created in a new or an empty unpinned workspace, and an existing
\* copy of the same baseline is kept or restored; anything else is refused.
Decide(s) ==
  LET m == job[s].manifest
      fresh == pin = Absent \/ (pin = Unpinned /\ View(s) = {})
      refresh == pin = m /\ job[s].option = "refresh"
  IN  /\ pc[s] = "decide"
      /\ IF fresh \/ pin = m
         THEN /\ job' = [job EXCEPT ![s].mode = IF fresh THEN "fresh"
                                                ELSE IF refresh THEN "refresh" ELSE "keep"]
              /\ Goto(s, IF fresh THEN "restore" ELSE IF refresh THEN "clear"
                         ELSE IF job[s].option = "validate" THEN "validate" ELSE "commit")
              /\ UNCHANGED <<pin, published, rows, advisory, exclusive, held, write>>
         ELSE Rollback(s)

\* Variant for mutation: each DELETE commits.
RowsAfterClearAutocommit == {}

RowsAfterClear == rows

\* The DELETEs wait for the transactions that are updating a row.
Clear(s) ==
  /\ pc[s] = "clear"
  /\ \A r \in rows : RowHolders(r.id) = {}
  /\ job' = [job EXCEPT ![s].gone = rows]
  /\ rows' = RowsAfterClear
  /\ Goto(s, "restore")
  /\ UNCHANGED <<pin, published, advisory, exclusive, held, write>>

\* The INSERTs of baseline_rows.
Restore(s) ==
  /\ pc[s] = "restore"
  /\ job' = [job EXCEPT ![s].added = job[s].manifest.rows]
  /\ Goto(s, "validate")
  /\ UNCHANGED <<pin, published, rows, advisory, exclusive, held, write>>

\* validate_workspace, on a copy just made or on --validate or --refresh.
Validate(s) ==
  /\ pc[s] = "validate"
  /\ IF View(s) = job[s].manifest.rows
     THEN /\ Goto(s, "commit")
          /\ UNCHANGED <<pin, published, rows, advisory, exclusive, held, job, write>>
     ELSE Rollback(s)

\* The transaction commits.  An UPDATE that was waiting for a deleted row finds
\* it gone: no row matches, and the writer's flush fails.
Commit(s) ==
  /\ pc[s] = "commit"
  /\ published' = published \cup {job[s].manifest}
  /\ pin' = job[s].manifest
  /\ rows' = View(s)
  /\ advisory' = AdvisoryAfter(s)
  /\ exclusive' = IF exclusive = s THEN Nobody ELSE exclusive
  /\ job' = [job EXCEPT ![s] = NoJob]
  /\ pc' = [t \in Seeders \cup Writers |->
              IF t = s THEN "done"
              ELSE IF t \in Writers /\ pc[t] = "updating" /\ write[t].row.id \in Ids(job[s].gone)
              THEN "failed" ELSE pc[t]]
  /\ UNCHANGED <<held, write>>

\* A crash, a lost connection or an exception rolls the transaction back.
AbortSeeder(s) == pc[s] \notin {"idle", "done", "failed"} /\ Rollback(s)

\* The owner pins the workspace by hand; its UPDATE waits for FOR SHARE.
OwnerPin(m) ==
  /\ exclusive = Nobody /\ \A w \in Writers : held[w] # "share"
  /\ m \in published /\ pin \notin {m, Absent} /\ PinMayChange
  /\ pin' = m
  /\ UNCHANGED <<published, rows, pc, advisory, exclusive, held, job, write>>

-----------------------------------------------------------------------------
(* Writers: one repository call in a workspace_session.                    *)

EndWriter(w, outcome) == /\ Goto(w, outcome)
                         /\ held' = [held EXCEPT ![w] = "none"]

\* create of a unit or an incident: the INSERT waits for FOR UPDATE on the
\* workspace, and fails without a workspace or against its catalog.
Insert(w, row) ==
  /\ pc[w] = "idle" /\ exclusive = Nobody
  /\ IF pin # Absent /\ CatalogAllows(row)
     THEN /\ Goto(w, "inserted")
          /\ write' = [write EXCEPT ![w] = [row |-> row, asked |-> {}]]
          /\ held' = [held EXCEPT ![w] = LockOf(row)]
     ELSE EndWriter(w, "failed") /\ UNCHANGED write
  /\ UNCHANGED <<pin, published, rows, advisory, exclusive, job>>

\* update_operational_status, update_lifecycle: the row is read and given other values
\* in some columns (what repeats a value that was read is not sent), ...
Read(w, row, asked) ==
  /\ pc[w] = "idle" /\ row \in rows
  /\ asked # {} /\ asked \subseteq ColumnsOf[row.kind] /\ asked \cap row.edited = {}
  /\ write' = [write EXCEPT ![w] = [row |-> [row EXCEPT !.edited = @ \cup asked],
                                    asked |-> asked]]
  /\ Goto(w, "read")
  /\ UNCHANGED <<pin, published, rows, advisory, exclusive, held, job>>

Found(w) == write[w].row.id \in Ids(rows)

\* ... the flush starts an UPDATE, which fails when the row has gone, ...
StartUpdate(w) ==
  /\ pc[w] = "read"
  /\ IF Found(w) THEN Goto(w, "updating") /\ UNCHANGED held
     ELSE EndWriter(w, "failed")
  /\ UNCHANGED <<pin, published, rows, advisory, exclusive, job, write>>

\* ... waits for the row, ...
LockRow(w) ==
  /\ pc[w] = "updating"
  /\ write[w].row.id \notin Ids(Gone) /\ RowHolders(write[w].row.id) = {}
  /\ Goto(w, "trigger")
  /\ UNCHANGED <<pin, published, rows, advisory, exclusive, held, job, write>>

\* ... and a unit's BEFORE UPDATE trigger then waits for the workspace row.
Trigger(w) ==
  /\ pc[w] = "trigger"
  /\ write[w].row.kind = "unit" => exclusive = Nobody
  /\ IF \A r \in rows : r.id = write[w].row.id => CatalogAllows(r)
     THEN /\ Goto(w, "updated")
          /\ held' = [held EXCEPT ![w] = IF write[w].row.kind = "unit" THEN LockOf(write[w].row)
                                       ELSE @]
     ELSE EndWriter(w, "failed")
  /\ UNCHANGED <<pin, published, rows, advisory, exclusive, job, write>>

\* Variant for mutation: an UPDATE sets every column, to what the record holds.
UpdatedWhole(w, r) == write[w].row

\* An UPDATE sets the columns asked for of the row it finds, which need not be the one
\* that was read.
Updated(w, r) == [r EXCEPT !.edited = @ \cup write[w].asked]

\* The committed rows with the inserted or the updated row.
Written(w) ==
  LET id == write[w].row.id
      old == {r \in rows : r.id = id}
  IN  (rows \ old) \cup IF pc[w] = "inserted" THEN {write[w].row} ELSE {Updated(w, r) : r \in old}

CommitWriter(w) ==
  /\ pc[w] \in {"inserted", "updated"}
  /\ rows' = Written(w)
  /\ EndWriter(w, "done")
  /\ UNCHANGED <<pin, published, advisory, exclusive, job, write>>

AbortWriter(w) ==
  /\ pc[w] \notin {"idle", "done", "failed"}
  /\ EndWriter(w, "failed")
  /\ UNCHANGED <<pin, published, rows, advisory, exclusive, job, write>>

\* A refresh that waits for a unit whose writer waits for the workspace row:
\* PostgreSQL ends one of the two.
Deadlocked(s, w) == /\ pc[s] = "clear" /\ exclusive = s
                    /\ pc[w] = "trigger" /\ write[w].row.kind = "unit"

BreakDeadlock(s, w) ==
  /\ Deadlocked(s, w)
  /\ \/ Rollback(s)
     \/ /\ EndWriter(w, "failed")
        /\ UNCHANGED <<pin, published, rows, advisory, exclusive, job, write>>

-----------------------------------------------------------------------------
Created(w) == {[id |-> w, kind |-> "incident", release |-> NoRelease, edited |-> {}]} \cup
              {[id |-> w, kind |-> "unit", release |-> r, edited |-> {}] : r \in Releases}

AnyBootstrap(s) == \E m \in Manifests, option \in Options : Bootstrap(s, m, option)

SeederStep(s) == \/ Publish(s) \/ LockWorkspace(s) \/ Decide(s)
                 \/ Clear(s) \/ Restore(s) \/ Validate(s) \/ Commit(s)

WriterStep(w) == StartUpdate(w) \/ LockRow(w) \/ Trigger(w) \/ CommitWriter(w)

AnyBreak == \E s \in Seeders, w \in Writers : BreakDeadlock(s, w)

Next ==
  \/ \E s \in Seeders : AnyBootstrap(s) \/ SeederStep(s) \/ AbortSeeder(s)
  \/ \E w \in Writers : \/ \E row \in Created(w) : Insert(w, row)
                        \/ \E row \in rows, asked \in SUBSET Columns : Read(w, row, asked)
                        \/ WriterStep(w) \/ AbortWriter(w)
  \/ \E m \in Manifests : OwnerPin(m)
  \/ AnyBreak

\* Statements that can run do, and the deadlock detector runs; that a seeder or
\* a writer starts, aborts, or that the owner acts, is not assumed.
Fairness == /\ \A s \in Seeders : WF_vars(SeederStep(s))
            /\ \A w \in Writers : WF_vars(WriterStep(w))
            /\ WF_vars(AnyBreak)

Spec == Init /\ [][Next]_vars /\ Fairness

-----------------------------------------------------------------------------
Jobs == [manifest : Manifests, option : Options, mode : Modes,
         gone : SUBSET Row, added : SUBSET Row]

Writes == [row : Row, asked : SUBSET Columns]

SeederLabels == {"idle", "publish", "lock", "decide", "clear", "restore", "validate",
                 "commit", "done", "failed"}

WriterLabels == {"idle", "inserted", "read", "updating", "trigger", "updated", "done", "failed"}

\* Types, and the primary key of the operational tables: a transaction that
\* inserts, updates or restores rows never leaves two with one id.
TypeOK == /\ pin \in Manifests \cup {Absent, Unpinned}
          /\ published \subseteq Manifests
          /\ rows \subseteq Row /\ Keyed(rows)
          /\ pc \in [Seeders \cup Writers -> SeederLabels \cup WriterLabels]
          /\ \A s \in Seeders : pc[s] \in SeederLabels
          /\ \A w \in Writers : pc[w] \in WriterLabels
          /\ advisory \in Seeders \cup {Nobody}
          /\ exclusive \in Seeders \cup {Nobody}
          /\ held \in [Writers -> {"none", "key", "share"}]
          /\ job \in [Seeders -> Jobs \cup {NoJob}]
          /\ write \in [Writers -> Writes \cup {NoWrite}]

(***************************************************************************)
(* Every unit of a pinned workspace is of the pinned catalog release: the  *)
(* trigger that checks a unit and the one that checks a pin read what the  *)
(* other writes, and may run at the same time.  (0010, lines 57 to 105.)   *)
(***************************************************************************)
PinnedReleaseOnly ==
  pin \in Manifests => \A r \in rows : r.kind = "unit" => r.release = pin.release

(***************************************************************************)
(* A workspace never moves from one baseline to another, by a seeder or    *)
(* by the owner's hand ("Create a new workspace to select another          *)
(* baseline", 0010, line 92).                                              *)
(***************************************************************************)
PinIsForever == [][pin' # pin => pin \notin Manifests]_vars

(***************************************************************************)
(* A seeder that copies or restores commits exactly the baseline, whatever *)
(* the writers did between its validation and its commit; one that keeps   *)
(* the copy commits no change to it.  (seed_workspace, lines 230 to 271.)  *)
(***************************************************************************)
CommitLeavesBaseline ==
  [][\A s \in Seeders :
       (pc[s] = "commit" /\ pc'[s] = "done") =>
         /\ pin' = job[s].manifest
         /\ rows' = IF job[s].mode = "keep" THEN rows ELSE job[s].manifest.rows]_vars

(***************************************************************************)
(* Once a reader has seen the whole baseline, no reader ever sees a part   *)
(* of it: a refresh deletes and restores in one transaction, and a         *)
(* refresh that fails half way leaves the copy as it was.                  *)
(***************************************************************************)
BaselineNeverHalfVisible ==
  [][(pin \in Manifests /\ Ids(pin.rows) \subseteq Ids(rows))
       => Ids(pin.rows) \subseteq Ids(rows')]_vars

(***************************************************************************)
(* An update that is acknowledged changed what was asked of the row that   *)
(* is there and nothing else: a writer that read a row before a refresh    *)
(* removed it is told so and never puts it back, and one whose row has     *)
(* been created again under its id does not bring the old row back in its  *)
(* place.  (update_operational_status and update_lifecycle flush an ORM    *)
(* record: an UPDATE of the changed columns, which fails on no row.)       *)
(***************************************************************************)
AcknowledgedUpdateHappened ==
  [][\A w \in Writers :
       (pc[w] = "updated" /\ pc'[w] = "done") =>
          \E r \in rows :
            /\ r.id = write[w].row.id
            /\ rows' = (rows \ {r}) \cup {[r EXCEPT !.edited = @ \cup write[w].asked]}]_vars

(***************************************************************************)
(* A version names one baseline and a release one catalog content, even    *)
(* when two publishers compare and publish at the same time.  (publish,    *)
(* lines 41 and 42 and its comparisons.)                                   *)
(***************************************************************************)
PublishedOnce == Consistent(published)

(***************************************************************************)
(* Every transaction that was begun ends, committed or not: no lock of a   *)
(* finished seeder stops the next one, and the refresh and the unit writer *)
(* that wait for each other do not wait forever.                           *)
(***************************************************************************)
TransactionsEnd ==
  \A t \in Seeders \cup Writers : pc[t] # "idle" ~> pc[t] \in {"done", "failed"}
=============================================================================

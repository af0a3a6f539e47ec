----------------------- MODULE WorkspaceSeedingProofs -----------------------
(***************************************************************************)
(* WorkspaceSeeding for any number of seeders, writers and manifests.      *)
(*                                                                         *)
(* The safety properties rest on who may change what while a seeder works: *)
(* one seeder is past the advisory lock; from its decision on it has the   *)
(* workspace row, if there is one, so that no writer has a lock of it and  *)
(* the pin stays; and from its DELETEs on no writer is at a deleted row,   *)
(* so that the committed rows stay as it found them.                       *)
(***************************************************************************)
EXTENDS WorkspaceSeeding, TLAPS

Over == {"idle", "done", "failed"}

Holding == {"lock", "decide", "clear", "restore", "validate", "commit"}

Deciding == {"decide", "clear", "restore", "validate", "commit"}

\* The locks a seeder holds, and that nothing was published since it compared.
SeederLocks(s) ==
  /\ pc[s] \in Holding <=> advisory = s
  /\ exclusive = s => pc[s] \in Deciding
  /\ pc[s] \in Deciding /\ pin # Absent => exclusive = s
  /\ job[s] = NoJob <=> pc[s] \in Over
  /\ pc[s] \in Holding => Publishable(job[s].manifest)

\* What a seeder decided, and that it still holds.
SeederWork(s) ==
  /\ pc[s] \in {"publish", "lock", "decide", "clear"} => job[s].gone = {} /\ job[s].added = {}
  /\ pc[s] = "clear" => job[s].mode = "refresh"
  /\ pc[s] \in {"clear", "restore", "validate", "commit"} =>
       /\ job[s].mode = "fresh" => pin \in {Absent, Unpinned} /\ rows = {} /\ job[s].gone = {}
       /\ job[s].mode = "refresh" =>
            pin = job[s].manifest /\ (pc[s] # "clear" => job[s].gone = rows)
       /\ job[s].mode = "keep" =>
            /\ pin = job[s].manifest /\ job[s].gone = {} /\ job[s].added = {}
            /\ pc[s] # "restore"
  /\ pc[s] \in {"validate", "commit"} /\ job[s].mode # "keep" => job[s].added = job[s].manifest.rows

\* The locks a writer holds, and what they protect.
WriterLocks(w) ==
  /\ exclusive # Nobody => held[w] = "none"
  /\ pc[w] \in {"inserted", "read", "updating", "trigger", "updated"} => write[w] \in Writes
  /\ pc[w] = "inserted" => held[w] # "none" /\ pin # Absent
  /\ pc[w] \in {"inserted", "updated"} /\ write[w].row.kind = "unit" => held[w] = "share"
  /\ pc[w] = "inserted" /\ write[w].row.kind = "unit" /\ pin \in Manifests =>
       write[w].row.release = pin.release
  /\ pc[w] \in {"updating", "trigger", "updated"} => write[w].row.id \in Ids(rows)

\* No writer has a row that a seeder has deleted.
Apart(s, w) ==
  pc[w] \in {"trigger", "updated"} /\ pc[s] \notin Over => write[w].row.id \notin Ids(job[s].gone)

Processes == /\ \A s \in Seeders : SeederLocks(s) /\ SeederWork(s)
             /\ \A w \in Writers : WriterLocks(w)
             /\ \A s \in Seeders, w \in Writers : Apart(s, w)

World == /\ PublishedOnce /\ PinnedReleaseOnly
         /\ pin = Absent => rows = {}

IInv == TypeOK /\ World /\ Processes

USE DEF Over, Holding, Deciding

-----------------------------------------------------------------------------
LEMMA JobFields ==
  /\ NoJob \notin Jobs
  /\ \A j \in Jobs : /\ j.manifest \in Manifests /\ j.option \in Options /\ j.mode \in Modes
                     /\ j.gone \in SUBSET Row /\ j.added \in SUBSET Row
BY DEF Jobs, NoJob, Modes

LEMMA ManifestFacts ==
  ASSUME NEW m \in Manifests
  PROVE  /\ m.rows \in SUBSET Row /\ Keyed(m.rows)
         /\ \A r \in m.rows : r.kind = "unit" => r.release = m.release
BY ManifestAssumption

LEMMA WriteFields ==
  ASSUME NEW wr \in Writes PROVE wr.row \in Row /\ wr.asked \in SUBSET Columns
BY DEF Writes

\* An edited row is the row but for its edits.
LEMMA EditedRow ==
  ASSUME NEW row \in Row, NEW asked \in SUBSET Columns, NEW e,
         e = [row EXCEPT !.edited = @ \cup asked]
  PROVE  e \in Row /\ e.id = row.id /\ e.kind = row.kind /\ e.release = row.release
BY DEF Row

LEMMA CreatedRow ==
  ASSUME NEW w \in Writers, NEW row \in Created(w) PROVE row \in Row
BY DEF Created, Row, Kinds

\* Writing one row keeps the table's key and its ids, and an UPDATE the releases.
LEMMA WrittenRows ==
  ASSUME NEW w \in Writers, rows \in SUBSET Row, Keyed(rows), write[w] \in Writes
  PROVE  /\ Written(w) \in SUBSET Row /\ Keyed(Written(w))
         /\ write[w].row.id \in Ids(rows) \/ pc[w] = "inserted" =>
              Ids(rows) \subseteq Ids(Written(w))
         /\ \A r \in Written(w) :
              \/ pc[w] = "inserted" /\ r = write[w].row
              \/ \E q \in rows : r.kind = q.kind /\ r.release = q.release
<1> DEFINE id == write[w].row.id
           old == {r \in rows : r.id = id}
           new == IF pc[w] = "inserted" THEN {write[w].row} ELSE {Updated(w, r) : r \in old}
<1>1. write[w].row \in Row /\ write[w].asked \in SUBSET Columns
  BY WriteFields
<1>2. ASSUME NEW r \in old
      PROVE  /\ Updated(w, r) \in Row /\ Updated(w, r).id = id
             /\ Updated(w, r).kind = r.kind /\ Updated(w, r).release = r.release
  <2>1. r \in Row
    OBVIOUS
  <2>2. Updated(w, r) = [r EXCEPT !.edited = @ \cup write[w].asked]
    BY DEF Updated
  <2> HIDE DEF old
  <2>3. /\ Updated(w, r) \in Row /\ Updated(w, r).id = r.id
        /\ Updated(w, r).kind = r.kind /\ Updated(w, r).release = r.release
    BY <1>1, <2>1, <2>2, EditedRow
  <2> QED
    BY <2>3 DEF old
<1>3. Written(w) = (rows \ old) \cup new
  BY DEF Written
<1>4. /\ \A r \in rows \ old : r \in Row /\ r.id # id
      /\ \A r \in new : r \in Row /\ r.id = id
  BY <1>1, <1>2
<1>5. \A r1, r2 \in old : r1 = r2
  BY DEF Keyed
<1>6. \A r1, r2 \in new : r1 = r2
  BY <1>5
<1>7. \A r \in new : \/ pc[w] = "inserted" /\ r = write[w].row
                     \/ \E q \in rows : r.kind = q.kind /\ r.release = q.release
  <2> SUFFICES ASSUME NEW r \in new, pc[w] # "inserted"
               PROVE  \E q \in rows : r.kind = q.kind /\ r.release = q.release
    OBVIOUS
  <2>1. PICK q \in old : r = Updated(w, q)
    OBVIOUS
  <2> QED
    BY <1>2, <2>1
<1>8. id \in Ids(rows) \/ pc[w] = "inserted" => new # {}
  BY DEF Ids
<1> HIDE DEF new
<1>9. Keyed(Written(w))
  BY <1>3, <1>4, <1>6 DEF Keyed
<1>10. id \in Ids(rows) \/ pc[w] = "inserted" => Ids(rows) \subseteq Ids(Written(w))
  BY <1>3, <1>4, <1>8 DEF Ids
<1> QED
  BY <1>3, <1>4, <1>7, <1>9, <1>10

\* What the commit of a seeder leaves: the copy it kept, or its manifest's.
LEMMA CommittedView ==
  ASSUME IInv, NEW s \in Seeders, pc[s] = "commit"
  PROVE  /\ job[s] \in Jobs
         /\ View(s) = IF job[s].mode = "keep" THEN rows ELSE job[s].manifest.rows
<1>1. job[s] \in Jobs /\ job[s] # NoJob
  BY DEF IInv, TypeOK, Processes, SeederLocks
<1>2. job[s].mode \in {"fresh", "keep", "refresh"}
  BY <1>1, JobFields DEF Modes
<1>3. SeederWork(s)
  BY DEF IInv, Processes
<1>4. CASE job[s].mode = "keep"
  BY <1>1, <1>3, <1>4 DEF SeederWork, View
<1>5. CASE job[s].mode # "keep"
  BY <1>1, <1>2, <1>3, <1>5 DEF SeederWork, View
<1> QED
  BY <1>1, <1>4, <1>5

-----------------------------------------------------------------------------
(* What a step leaves alone.                                               *)

LEMMA SeederFrame ==
  ASSUME NEW s \in Seeders, SeederLocks(s), SeederWork(s), UNCHANGED <<pin, rows, published>>,
         pc'[s] = pc[s], job'[s] = job[s],
         advisory' = s <=> advisory = s, exclusive' = s <=> exclusive = s
  PROVE  SeederLocks(s)' /\ SeederWork(s)'
BY DEF SeederLocks, SeederWork, Publishable

LEMMA WriterFrame ==
  ASSUME NEW w \in Writers, WriterLocks(w), UNCHANGED <<pin, rows>>,
         pc'[w] = pc[w], held'[w] = held[w], write'[w] = write[w],
         exclusive' # Nobody => held[w] = "none"
  PROVE  WriterLocks(w)'
BY DEF WriterLocks

LEMMA WorldFrame ==
  ASSUME World, UNCHANGED <<pin, rows, published>> PROVE World'
BY DEF World, PublishedOnce, PinnedReleaseOnly, Consistent

\* A step of one seeder that commits nothing.
LEMMA SeederOnly ==
  ASSUME IInv, TypeOK', NEW s \in Seeders,
         UNCHANGED <<pin, rows, published, held, write>>,
         \A t \in (Seeders \cup Writers) \ {s} : pc'[t] = pc[t],
         \A t \in Seeders \ {s} : /\ job'[t] = job[t] /\ (advisory' = t <=> advisory = t)
                                 /\ (exclusive' = t <=> exclusive = t),
         exclusive' # Nobody => \A w \in Writers : held[w] = "none",
         SeederLocks(s)', SeederWork(s)', \A w \in Writers : Apart(s, w)'
  PROVE  IInv'
<1>1. World'
  BY WorldFrame DEF IInv
<1>2. ASSUME NEW t \in Seeders PROVE SeederLocks(t)' /\ SeederWork(t)'
  <2>1. CASE t = s
    BY <2>1
  <2>2. CASE t # s
    <3>1. SeederLocks(t) /\ SeederWork(t)
      BY DEF IInv, Processes
    <3> QED
      BY <2>2, <3>1, SeederFrame
  <2> QED
    BY <2>1, <2>2
<1>3. \A w \in Writers : w # s /\ pc'[w] = pc[w]
  BY SentinelAssumption
<1>4. ASSUME NEW w \in Writers PROVE WriterLocks(w)'
  <2>1. WriterLocks(w)
    BY DEF IInv, Processes
  <2> QED
    BY <1>3, <2>1, WriterFrame
<1>5. ASSUME NEW t \in Seeders, NEW w \in Writers PROVE Apart(t, w)'
  <2>1. CASE t = s
    BY <2>1
  <2>2. CASE t # s
    BY <2>2, <1>3 DEF IInv, Processes, Apart
  <2> QED
    BY <2>1, <2>2
<1> QED
  BY <1>1, <1>2, <1>4, <1>5 DEF IInv, Processes

\* A step of one writer that commits nothing.
LEMMA WriterOnly ==
  ASSUME IInv, TypeOK', NEW w \in Writers,
         UNCHANGED <<pin, rows, published, advisory, exclusive, job>>,
         \A t \in (Seeders \cup Writers) \ {w} : pc'[t] = pc[t],
         \A v \in Writers \ {w} : held'[v] = held[v] /\ write'[v] = write[v],
         WriterLocks(w)', \A s \in Seeders : Apart(s, w)'
  PROVE  IInv'
<1>1. World'
  BY WorldFrame DEF IInv
<1>2. \A s \in Seeders : s # w /\ pc'[s] = pc[s]
  BY SentinelAssumption
<1>3. ASSUME NEW s \in Seeders PROVE SeederLocks(s)' /\ SeederWork(s)'
  <2>1. SeederLocks(s) /\ SeederWork(s)
    BY DEF IInv, Processes
  <2> QED
    BY <1>2, <2>1, SeederFrame
<1>4. ASSUME NEW v \in Writers PROVE WriterLocks(v)'
  <2>1. CASE v = w
    BY <2>1
  <2>2. CASE v # w
    <3>1. WriterLocks(v)
      BY DEF IInv, Processes
    <3>2. exclusive' # Nobody => held[v] = "none"
      BY <3>1 DEF WriterLocks
    <3> QED
      BY <2>2, <3>1, <3>2, WriterFrame
  <2> QED
    BY <2>1, <2>2
<1>5. ASSUME NEW s \in Seeders, NEW v \in Writers PROVE Apart(s, v)'
  <2>1. CASE v = w
    BY <2>1
  <2>2. CASE v # w
    BY <2>2, <1>2 DEF IInv, Processes, Apart
  <2> QED
    BY <2>1, <2>2
<1> QED
  BY <1>1, <1>3, <1>4, <1>5 DEF IInv, Processes

-----------------------------------------------------------------------------
(* The initial states, and the steps of seeders.                           *)

LEMMA InitIInv == ASSUME Init PROVE IInv
<1> USE SentinelAssumption DEF Init
<1>1. /\ pin = Absent => rows = {}
      /\ pin = Unpinned => rows \subseteq LegacyRows
      /\ pin \notin {Absent, Unpinned} => rows = pin.rows
  OBVIOUS
<1>2. /\ published \subseteq Manifests /\ Consistent(published)
      /\ pin \in Manifests \cup {Absent, Unpinned}
  BY HistoryAssumption
<1>3. rows \subseteq Row /\ Keyed(rows)
  BY <1>1, <1>2, ManifestAssumption DEF Keyed
<1>4. TypeOK
  BY <1>2, <1>3 DEF TypeOK, SeederLabels, WriterLabels
<1>5. World
  BY <1>1, <1>2, ManifestFacts DEF World, PublishedOnce, PinnedReleaseOnly
<1>6. ASSUME NEW s \in Seeders PROVE SeederLocks(s) /\ SeederWork(s)
  BY DEF SeederLocks, SeederWork
<1>7. ASSUME NEW w \in Writers PROVE WriterLocks(w)
  BY DEF WriterLocks
<1>8. ASSUME NEW s \in Seeders, NEW w \in Writers PROVE Apart(s, w)
  BY DEF Apart
<1> QED
  BY <1>4, <1>5, <1>6, <1>7, <1>8 DEF IInv, Processes

\* A transaction that ends without a commit leaves nothing behind.
LEMMA RollbackIInv ==
  ASSUME IInv, NEW s \in Seeders, pc[s] \notin Over, Rollback(s) PROVE IInv'
<1> USE DEF Rollback, EndSeeder, Goto, AdvisoryAfter
<1>1. TypeOK'
  BY SentinelAssumption DEF IInv, TypeOK, SeederLabels
<1>2. SeederLocks(s)'
  BY SentinelAssumption DEF IInv, TypeOK, SeederLocks
<1>3. SeederWork(s)'
  BY DEF IInv, TypeOK, SeederWork
<1>4. \A w \in Writers : Apart(s, w)'
  BY DEF IInv, TypeOK, Apart
<1>5. \A t \in Seeders \ {s} : /\ job'[t] = job[t] /\ (advisory' = t <=> advisory = t)
                                /\ (exclusive' = t <=> exclusive = t)
  BY SentinelAssumption DEF IInv, TypeOK
<1>6. \A t \in (Seeders \cup Writers) \ {s} : pc'[t] = pc[t]
  BY DEF IInv, TypeOK
<1>7. exclusive' # Nobody => \A w \in Writers : held[w] = "none"
  BY DEF IInv, Processes, WriterLocks
<1> QED
  BY <1>1, <1>2, <1>3, <1>4, <1>5, <1>6, <1>7, SeederOnly

LEMMA BootstrapIInv ==
  ASSUME IInv, NEW s \in Seeders, NEW m \in Manifests, NEW option \in Options,
         Bootstrap(s, m, option)
  PROVE  IInv'
<1> USE DEF Bootstrap, Goto
<1>1. job' \in [Seeders -> Jobs \cup {NoJob}] /\ job'[s] \in Jobs
      /\ job'[s].gone = {} /\ job'[s].added = {}
  BY DEF IInv, TypeOK, Jobs, Modes
<1>2. TypeOK'
  BY <1>1, SentinelAssumption DEF IInv, TypeOK, SeederLabels
<1>3. SeederLocks(s)'
  BY <1>1, JobFields DEF IInv, TypeOK, Processes, SeederLocks
<1>4. SeederWork(s)'
  BY <1>1 DEF IInv, TypeOK, SeederWork
<1>5. \A w \in Writers : Apart(s, w)'
  BY <1>1 DEF Apart, Ids
<1>6. \A t \in (Seeders \cup Writers) \ {s} : pc'[t] = pc[t]
  BY DEF IInv, TypeOK
<1>7. \A t \in Seeders \ {s} : job'[t] = job[t]
  BY DEF IInv, TypeOK
<1>8. exclusive' # Nobody => \A w \in Writers : held[w] = "none"
  BY DEF IInv, Processes, WriterLocks
<1> QED
  BY <1>2, <1>3, <1>4, <1>5, <1>6, <1>7, <1>8, SeederOnly

LEMMA PublishIInv ==
  ASSUME IInv, NEW s \in Seeders, Publish(s) PROVE IInv'
<1> USE DEF Publish, Goto
<1>1. CASE ~Publishable(job[s].manifest)
  BY <1>1, RollbackIInv
<1>2. CASE Publishable(job[s].manifest)
  <2> USE <1>2
  <2>1. TypeOK'
    BY SentinelAssumption DEF IInv, TypeOK, SeederLabels
  <2>2. SeederLocks(s)'
    BY SentinelAssumption DEF IInv, TypeOK, Processes, SeederLocks, Publishable
  <2>3. SeederWork(s)'
    BY DEF IInv, TypeOK, Processes, SeederWork
  <2>4. \A w \in Writers : Apart(s, w)'
    BY SentinelAssumption DEF IInv, TypeOK, Processes, Apart
  <2>5. \A t \in (Seeders \cup Writers) \ {s} : pc'[t] = pc[t]
    BY DEF IInv, TypeOK
  <2>6. \A t \in Seeders \ {s} : advisory' = t <=> advisory = t
    BY SentinelAssumption DEF AdvisoryFree
  <2>7. exclusive' # Nobody => \A w \in Writers : held[w] = "none"
    BY DEF IInv, Processes, WriterLocks
  <2> QED
    BY <2>1, <2>2, <2>3, <2>4, <2>5, <2>6, <2>7, SeederOnly
<1> QED
  BY <1>1, <1>2

LEMMA LockWorkspaceIInv ==
  ASSUME IInv, NEW s \in Seeders, LockWorkspace(s) PROVE IInv'
<1> USE DEF LockWorkspace, Goto, ExclusiveOf
<1>1. TypeOK'
  BY SentinelAssumption DEF IInv, TypeOK, SeederLabels
<1>2. SeederLocks(s)'
  BY SentinelAssumption DEF IInv, TypeOK, Processes, SeederLocks, Publishable
<1>3. SeederWork(s)'
  BY DEF IInv, TypeOK, Processes, SeederWork
<1>4. \A w \in Writers : Apart(s, w)'
  BY SentinelAssumption DEF IInv, TypeOK, Processes, Apart
<1>5. \A t \in (Seeders \cup Writers) \ {s} : pc'[t] = pc[t]
  BY DEF IInv, TypeOK
<1>6. \A t \in Seeders \ {s} : exclusive' = t <=> exclusive = t
  BY SentinelAssumption
<1>7. exclusive' # Nobody => \A w \in Writers : held[w] = "none"
  BY DEF IInv, Processes, WriterLocks
<1> QED
  BY <1>1, <1>2, <1>3, <1>4, <1>5, <1>6, <1>7, SeederOnly

LEMMA DecideIInv ==
  ASSUME IInv, NEW s \in Seeders, Decide(s) PROVE IInv'
<1> DEFINE fresh == pin = Absent \/ (pin = Unpinned /\ View(s) = {})
<1>1. job[s] \in Jobs /\ job[s] # NoJob
  BY DEF IInv, TypeOK, Processes, SeederLocks, Decide
<1>2. View(s) = rows
  BY <1>1 DEF View, IInv, Processes, SeederWork, Decide
<1>3. fresh => rows = {} /\ pin \in {Absent, Unpinned}
  BY <1>2 DEF IInv, World
<1>4. CASE ~(fresh \/ pin = job[s].manifest)
  BY <1>4, RollbackIInv DEF Decide
<1>5. CASE fresh \/ pin = job[s].manifest
  <2> DEFINE refresh == pin = job[s].manifest /\ job[s].option = "refresh"
             mode == IF fresh THEN "fresh" ELSE IF refresh THEN "refresh" ELSE "keep"
             label == IF fresh THEN "restore" ELSE IF refresh THEN "clear"
                      ELSE IF job[s].option = "validate" THEN "validate" ELSE "commit"
  <2>1. /\ pc[s] = "decide" /\ pc' = [pc EXCEPT ![s] = label]
        /\ job' = [job EXCEPT ![s].mode = mode]
        /\ UNCHANGED <<pin, published, rows, advisory, exclusive, held, write>>
    BY <1>5 DEF Decide, Goto
  <2>2. mode \in Modes /\ label \in {"restore", "clear", "validate", "commit"}
    BY DEF Modes
  <2>3. /\ job' \in [Seeders -> Jobs \cup {NoJob}] /\ job'[s] \in Jobs /\ job'[s].mode = mode
        /\ job'[s].manifest = job[s].manifest /\ job'[s].gone = {} /\ job'[s].added = {}
        /\ \A t \in Seeders \ {s} : job'[t] = job[t]
    <3> HIDE DEF mode, label
    <3>1. job'[s] = [job[s] EXCEPT !.mode = mode] /\ \A t \in Seeders \ {s} : job'[t] = job[t]
      BY <2>1 DEF IInv, TypeOK
    <3>2. job[s].gone = {} /\ job[s].added = {}
      BY <2>1 DEF IInv, Processes, SeederWork
    <3>3. /\ job'[s] \in Jobs /\ job'[s].mode = mode /\ job'[s].manifest = job[s].manifest
          /\ job'[s].gone = {} /\ job'[s].added = {}
      BY <1>1, <2>2, <3>1, <3>2 DEF Jobs
    <3> QED
      BY <2>1, <3>1, <3>3 DEF IInv, TypeOK
  <2>4. TypeOK'
    <3> HIDE DEF label
    <3> QED
      BY <2>1, <2>2, <2>3, SentinelAssumption DEF IInv, TypeOK, SeederLabels
  <2>5. pc'[s] = label /\ \A t \in (Seeders \cup Writers) \ {s} : pc'[t] = pc[t]
    <3> HIDE DEF label
    <3> QED
      BY <2>1 DEF IInv, TypeOK
  <2>6. SeederLocks(s)'
    BY <2>1, <2>2, <2>3, <2>5, JobFields DEF IInv, TypeOK, Processes, SeederLocks, Publishable
  <2>7. SeederWork(s)'
    BY <1>3, <1>5, <2>1, <2>3, <2>5 DEF SeederWork
  <2>8. \A w \in Writers : Apart(s, w)'
    BY <2>3 DEF Apart, Ids
  <2>9. exclusive' # Nobody => \A w \in Writers : held[w] = "none"
    BY <2>1 DEF IInv, Processes, WriterLocks
  <2> HIDE DEF mode, label, refresh
  <2> QED
    BY <2>1, <2>3, <2>4, <2>5, <2>6, <2>7, <2>8, <2>9, SeederOnly
<1> QED
  BY <1>4, <1>5

\* The DELETEs: every row is gone, and no writer has one of them.
LEMMA ClearIInv ==
  ASSUME IInv, NEW s \in Seeders, Clear(s) PROVE IInv'
<1> USE DEF Clear, Goto, RowsAfterClear
<1>1. job[s] \in Jobs /\ rows \in SUBSET Row
  BY DEF IInv, TypeOK, Processes, SeederLocks
<1>2. job'[s] = [job[s] EXCEPT !.gone = rows] /\ \A t \in Seeders \ {s} : job'[t] = job[t]
  BY DEF IInv, TypeOK
<1>3. /\ job'[s] \in Jobs /\ job'[s].gone = rows
      /\ job'[s].manifest = job[s].manifest /\ job'[s].mode = job[s].mode
      /\ job'[s].added = job[s].added
  BY <1>1, <1>2 DEF Jobs
<1>4. job' \in [Seeders -> Jobs \cup {NoJob}]
  BY <1>3 DEF IInv, TypeOK
<1>5. TypeOK'
  BY <1>4, SentinelAssumption DEF IInv, TypeOK, SeederLabels
<1>6. pc'[s] = "restore" /\ \A t \in (Seeders \cup Writers) \ {s} : pc'[t] = pc[t]
  BY DEF IInv, TypeOK
<1>7. SeederLocks(s)'
  BY <1>3, <1>6, JobFields DEF IInv, TypeOK, Processes, SeederLocks, Publishable
<1>8. SeederWork(s)'
  BY <1>3, <1>6 DEF IInv, Processes, SeederWork
<1>9. \A w \in Writers : Apart(s, w)'
  <2> SUFFICES ASSUME NEW w \in Writers, pc[w] \in {"trigger", "updated"}
               PROVE  write[w].row.id \notin Ids(rows)
    BY <1>3, <1>6, SentinelAssumption DEF Apart
  <2> QED
    BY DEF RowHolders, Ids
<1>10. exclusive' # Nobody => \A w \in Writers : held[w] = "none"
  BY DEF IInv, Processes, WriterLocks
<1> QED
  BY <1>2, <1>5, <1>6, <1>7, <1>8, <1>9, <1>10, SeederOnly

LEMMA RestoreIInv ==
  ASSUME IInv, NEW s \in Seeders, Restore(s) PROVE IInv'
<1> USE DEF Restore, Goto
<1>1. job[s] \in Jobs
  BY DEF IInv, TypeOK, Processes, SeederLocks
<1>2. /\ job'[s] = [job[s] EXCEPT !.added = job[s].manifest.rows]
      /\ \A t \in Seeders \ {s} : job'[t] = job[t]
  BY DEF IInv, TypeOK
<1>3. job[s].manifest.rows \in SUBSET Row
  BY <1>1, JobFields, ManifestFacts
<1>4. /\ job'[s] \in Jobs /\ job'[s].added = job[s].manifest.rows
      /\ job'[s].manifest = job[s].manifest /\ job'[s].mode = job[s].mode
      /\ job'[s].gone = job[s].gone
  BY <1>1, <1>2, <1>3 DEF Jobs
<1>5. job' \in [Seeders -> Jobs \cup {NoJob}]
  BY <1>4 DEF IInv, TypeOK
<1>6. TypeOK'
  BY <1>5, SentinelAssumption DEF IInv, TypeOK, SeederLabels
<1>7. pc'[s] = "validate" /\ \A t \in (Seeders \cup Writers) \ {s} : pc'[t] = pc[t]
  BY DEF IInv, TypeOK
<1>8. SeederLocks(s)'
  BY <1>4, <1>7, JobFields DEF IInv, TypeOK, Processes, SeederLocks, Publishable
<1>9. SeederWork(s)'
  BY <1>4, <1>7 DEF IInv, Processes, SeederWork
<1>10. \A w \in Writers : Apart(s, w)'
  BY <1>4, <1>7, SentinelAssumption DEF IInv, Processes, Apart
<1>11. exclusive' # Nobody => \A w \in Writers : held[w] = "none"
  BY DEF IInv, Processes, WriterLocks
<1> QED
  BY <1>2, <1>6, <1>7, <1>8, <1>9, <1>10, <1>11, SeederOnly

LEMMA ValidateIInv ==
  ASSUME IInv, NEW s \in Seeders, Validate(s) PROVE IInv'
<1>1. CASE View(s) # job[s].manifest.rows
  BY <1>1, RollbackIInv DEF Validate
<1>2. CASE View(s) = job[s].manifest.rows
  <2> USE <1>2 DEF Validate, Goto
  <2>1. TypeOK'
    BY SentinelAssumption DEF IInv, TypeOK, SeederLabels
  <2>2. pc'[s] = "commit" /\ \A t \in (Seeders \cup Writers) \ {s} : pc'[t] = pc[t]
    BY DEF IInv, TypeOK
  <2>3. SeederLocks(s)'
    BY <2>2 DEF IInv, Processes, SeederLocks, Publishable
  <2>4. SeederWork(s)'
    BY <2>2 DEF IInv, Processes, SeederWork
  <2>5. \A w \in Writers : Apart(s, w)'
    BY <2>2, SentinelAssumption DEF IInv, Processes, Apart
  <2>6. exclusive' # Nobody => \A w \in Writers : held[w] = "none"
    BY DEF IInv, Processes, WriterLocks
  <2> QED
    BY <2>1, <2>2, <2>3, <2>4, <2>5, <2>6, SeederOnly
<1> QED
  BY <1>1, <1>2

-----------------------------------------------------------------------------
(* The steps of writers.                                                   *)

\* A writer that fails leaves its locks.
LEMMA WriterFailsIInv ==
  ASSUME IInv, NEW w \in Writers, EndWriter(w, "failed"),
         UNCHANGED <<pin, published, rows, advisory, exclusive, job, write>>
  PROVE  IInv'
<1> USE DEF EndWriter, Goto
<1>1. TypeOK'
  BY SentinelAssumption DEF IInv, TypeOK, WriterLabels
<1>2. /\ pc'[w] = "failed" /\ held'[w] = "none"
      /\ \A t \in (Seeders \cup Writers) \ {w} : pc'[t] = pc[t]
      /\ \A v \in Writers \ {w} : held'[v] = held[v]
  BY DEF IInv, TypeOK
<1>3. WriterLocks(w)' /\ \A s \in Seeders : Apart(s, w)'
  BY <1>2 DEF WriterLocks, Apart
<1> QED
  BY <1>1, <1>2, <1>3, WriterOnly

LEMMA InsertIInv ==
  ASSUME IInv, NEW w \in Writers, NEW row \in Created(w), Insert(w, row) PROVE IInv'
<1>1. CASE ~(pin # Absent /\ CatalogAllows(row))
  BY <1>1, WriterFailsIInv DEF Insert
<1>2. CASE pin # Absent /\ CatalogAllows(row)
  <2> USE <1>2 DEF Insert, Goto
  <2>1. row \in Row /\ LockOf(row) \in {"key", "share"}
    BY CreatedRow DEF LockOf
  <2>2. TypeOK'
    BY <2>1, SentinelAssumption DEF IInv, TypeOK, WriterLabels, Writes
  <2>3. /\ pc'[w] = "inserted" /\ held'[w] = LockOf(row)
        /\ write'[w] = [row |-> row, asked |-> {}] /\ write'[w] \in Writes
        /\ \A t \in (Seeders \cup Writers) \ {w} : pc'[t] = pc[t]
        /\ \A v \in Writers \ {w} : held'[v] = held[v] /\ write'[v] = write[v]
    BY <2>1 DEF IInv, TypeOK, Writes
  <2>4. WriterLocks(w)'
    BY <2>1, <2>3 DEF WriterLocks, LockOf, CatalogAllows
  <2>5. \A s \in Seeders : Apart(s, w)'
    BY <2>3 DEF Apart
  <2> QED
    BY <2>2, <2>3, <2>4, <2>5, WriterOnly
<1> QED
  BY <1>1, <1>2

LEMMA ReadIInv ==
  ASSUME IInv, NEW w \in Writers, NEW row \in rows, NEW asked \in SUBSET Columns,
         Read(w, row, asked)
  PROVE  IInv'
<1> DEFINE record == [row EXCEPT !.edited = @ \cup asked]
           edited == [row |-> record, asked |-> asked]
<1>1. edited \in Writes
  <2>1. row \in Row
    BY DEF IInv, TypeOK
  <2>2. record \in Row
    BY <2>1, EditedRow
  <2> HIDE DEF record
  <2> QED
    BY <2>2 DEF Writes
<1>2. /\ write' = [write EXCEPT ![w] = edited] /\ pc' = [pc EXCEPT ![w] = "read"]
      /\ UNCHANGED <<pin, published, rows, advisory, exclusive, held, job>>
  BY DEF Read, Goto
<1> HIDE DEF edited
<1>3. TypeOK'
  BY <1>1, <1>2, SentinelAssumption DEF IInv, TypeOK, WriterLabels
<1>4. /\ pc'[w] = "read" /\ write'[w] = edited
      /\ \A t \in (Seeders \cup Writers) \ {w} : pc'[t] = pc[t]
      /\ \A v \in Writers \ {w} : write'[v] = write[v]
  BY <1>2 DEF IInv, TypeOK
<1>5. WriterLocks(w)' /\ \A s \in Seeders : Apart(s, w)'
  BY <1>1, <1>2, <1>4 DEF IInv, Processes, WriterLocks, Apart
<1> QED
  BY <1>2, <1>3, <1>4, <1>5, WriterOnly

LEMMA StartUpdateIInv ==
  ASSUME IInv, NEW w \in Writers, StartUpdate(w) PROVE IInv'
<1>1. CASE ~Found(w)
  BY <1>1, WriterFailsIInv DEF StartUpdate
<1>2. CASE Found(w)
  <2> USE <1>2 DEF StartUpdate, Goto
  <2>1. TypeOK'
    BY SentinelAssumption DEF IInv, TypeOK, WriterLabels
  <2>2. pc'[w] = "updating" /\ \A t \in (Seeders \cup Writers) \ {w} : pc'[t] = pc[t]
    BY DEF IInv, TypeOK
  <2>3. WriterLocks(w)' /\ \A s \in Seeders : Apart(s, w)'
    BY <2>2 DEF IInv, Processes, WriterLocks, Apart, Found
  <2> QED
    BY <2>1, <2>2, <2>3, WriterOnly
<1> QED
  BY <1>1, <1>2

LEMMA LockRowIInv ==
  ASSUME IInv, NEW w \in Writers, LockRow(w) PROVE IInv'
<1> USE DEF LockRow, Goto
<1>1. TypeOK'
  BY SentinelAssumption DEF IInv, TypeOK, WriterLabels
<1>2. pc'[w] = "trigger" /\ \A t \in (Seeders \cup Writers) \ {w} : pc'[t] = pc[t]
  BY DEF IInv, TypeOK
<1>3. WriterLocks(w)'
  BY <1>2 DEF IInv, Processes, WriterLocks
<1>4. ASSUME NEW s \in Seeders PROVE Apart(s, w)'
  <2> SUFFICES ASSUME pc[s] \notin Over PROVE write[w].row.id \notin Ids(job[s].gone)
    BY <1>2, SentinelAssumption DEF Apart
  <2>1. job[s] # NoJob
    BY DEF IInv, Processes, SeederLocks
  <2>2. \A r \in job[s].gone : r \in Gone
    BY <2>1 DEF Gone
  <2> QED
    BY <2>2 DEF Ids
<1> QED
  BY <1>1, <1>2, <1>3, <1>4, WriterOnly

LEMMA TriggerIInv ==
  ASSUME IInv, NEW w \in Writers, Trigger(w) PROVE IInv'
<1> DEFINE Allowed == \A r \in rows : r.id = write[w].row.id => CatalogAllows(r)
<1>1. CASE ~Allowed
  BY <1>1, WriterFailsIInv DEF Trigger
<1>2. CASE Allowed
  <2> USE <1>2 DEF Trigger, Goto
  <2>1. TypeOK'
    BY SentinelAssumption DEF IInv, TypeOK, WriterLabels, LockOf
  <2>2. /\ pc'[w] = "updated"
        /\ held'[w] = IF write[w].row.kind = "unit" THEN "share" ELSE held[w]
        /\ \A t \in (Seeders \cup Writers) \ {w} : pc'[t] = pc[t]
        /\ \A v \in Writers \ {w} : held'[v] = held[v]
    BY DEF IInv, TypeOK, LockOf
  <2>3. WriterLocks(w)'
    BY <2>2 DEF IInv, Processes, WriterLocks, CatalogAllows
  <2>4. \A s \in Seeders : Apart(s, w)'
    BY <2>2, SentinelAssumption DEF IInv, Processes, Apart
  <2> QED
    BY <2>1, <2>2, <2>3, <2>4, WriterOnly
<1> QED
  BY <1>1, <1>2

-----------------------------------------------------------------------------
(* The steps that change what others see.                                  *)

\* A seeder that commits is alone past the advisory lock, and no writer is at
\* a row that its commit removes or has a unit it has not committed.
LEMMA AloneAtCommit ==
  ASSUME IInv, NEW s \in Seeders, pc[s] = "commit"
  PROVE  /\ \A t \in Seeders \ {s} : pc[t] \notin Holding /\ exclusive # t /\ advisory # t
         /\ exclusive \in {s, Nobody} /\ (pin # Absent => exclusive = s)
         /\ \A w \in Writers : pc[w] \in {"inserted", "updated"} => write[w].row.kind # "unit"
         /\ \A w \in Writers : pc[w] \in {"trigger", "updated"} =>
              job[s].mode = "keep" \/ (job[s].mode = "refresh" /\ write[w].row.id \notin Ids(job[s].gone))
<1>1. advisory = s /\ (pin # Absent => exclusive = s) /\ SeederWork(s)
  BY DEF IInv, Processes, SeederLocks
<1>2. \A t \in Seeders \ {s} : pc[t] \notin Holding /\ exclusive # t /\ advisory # t
  BY <1>1 DEF IInv, Processes, SeederLocks
<1>3. exclusive \in {s, Nobody}
  BY <1>2 DEF IInv, TypeOK
<1>4. ASSUME NEW w \in Writers PROVE pc[w] \in {"trigger", "updated"} => rows # {}
  BY DEF IInv, Processes, WriterLocks, Ids
<1>5. ASSUME NEW w \in Writers
      PROVE  pc[w] \in {"inserted", "updated"} => write[w].row.kind # "unit"
  <2> SUFFICES ASSUME pc[w] \in {"inserted", "updated"}, write[w].row.kind = "unit" PROVE FALSE
    OBVIOUS
  <2>1. held[w] = "share" /\ WriterLocks(w)
    BY DEF IInv, Processes, WriterLocks
  <2>2. pin = Absent
    BY <1>1, <2>1, SentinelAssumption DEF WriterLocks
  <2> QED
    BY <1>4, <2>1, <2>2 DEF WriterLocks, IInv, World
<1>6. ASSUME NEW w \in Writers, pc[w] \in {"trigger", "updated"}
      PROVE  job[s].mode = "keep" \/ (job[s].mode = "refresh" /\ write[w].row.id \notin Ids(job[s].gone))
  <2>1. job[s].mode \in {"fresh", "keep", "refresh"}
    BY CommittedView, JobFields DEF Modes
  <2>2. job[s].mode # "fresh"
    BY <1>1, <1>4, <1>6 DEF SeederWork
  <2>3. Apart(s, w)
    BY DEF IInv, Processes
  <2> QED
    BY <1>6, <2>1, <2>2, <2>3 DEF Apart
<1> QED
  BY <1>1, <1>2, <1>3, <1>5, <1>6

LEMMA CommitIInv ==
  ASSUME IInv, NEW s \in Seeders, Commit(s) PROVE IInv'
<1> DEFINE m == job[s].manifest
<1>0. pc[s] = "commit"
  BY DEF Commit
<1>1. /\ job[s] \in Jobs /\ m \in Manifests /\ job[s].mode \in {"fresh", "keep", "refresh"}
      /\ rows' = IF job[s].mode = "keep" THEN rows ELSE m.rows
      /\ pin' = m /\ published' = published \cup {m} /\ held' = held /\ write' = write
  BY <1>0, CommittedView, JobFields DEF Commit, Modes
<1>2. job[s].mode = "keep" => pin = m
  BY <1>0 DEF IInv, Processes, SeederWork
<1>3. /\ pc' \in [Seeders \cup Writers -> SeederLabels \cup WriterLabels]
      /\ pc'[s] = "done" /\ \A t \in Seeders \ {s} : pc'[t] = pc[t]
      /\ \A w \in Writers : pc'[w] =
            IF pc[w] = "updating" /\ write[w].row.id \in Ids(job[s].gone) THEN "failed" ELSE pc[w]
  BY SentinelAssumption DEF Commit, IInv, TypeOK, SeederLabels, WriterLabels
<1>4. /\ job' \in [Seeders -> Jobs \cup {NoJob}] /\ job'[s] = NoJob
      /\ \A t \in Seeders \ {s} : job'[t] = job[t]
  BY DEF Commit, IInv, TypeOK
<1>5. advisory' = Nobody /\ exclusive' = Nobody
  BY <1>0, AloneAtCommit DEF Commit, AdvisoryAfter, IInv, TypeOK
<1>6. rows' \in SUBSET Row /\ Keyed(rows')
  BY <1>1, ManifestFacts DEF IInv, TypeOK
<1>7. TypeOK'
  <2>1. \A t \in Seeders : pc'[t] \in SeederLabels
    BY <1>3 DEF IInv, TypeOK, SeederLabels
  <2>2. \A w \in Writers : pc'[w] \in WriterLabels
    BY <1>3 DEF IInv, TypeOK, WriterLabels
  <2> QED
    BY <1>1, <1>3, <1>4, <1>5, <1>6, <2>1, <2>2 DEF IInv, TypeOK
<1>8. World'
  <2>1. Consistent(published)'
    BY <1>0, <1>1 DEF IInv, World, PublishedOnce, Processes, SeederLocks, Consistent, Publishable
  <2>2. PinnedReleaseOnly'
    BY <1>1, <1>2, ManifestFacts DEF IInv, World, PinnedReleaseOnly
  <2> QED
    BY <1>1, <2>1, <2>2, SentinelAssumption DEF World, PublishedOnce
<1>9. ASSUME NEW t \in Seeders PROVE SeederLocks(t)' /\ SeederWork(t)'
  <2>1. CASE t = s
    BY <1>3, <1>4, <1>5, <2>1, SentinelAssumption DEF SeederLocks, SeederWork
  <2>2. CASE t # s
    <3>1. pc'[t] = pc[t] /\ job'[t] = job[t] /\ pc[t] \notin Holding /\ t # Nobody
      BY <1>0, <1>3, <1>4, <2>2, AloneAtCommit, SentinelAssumption
    <3>2. (job[t] = NoJob <=> pc[t] \in Over) /\ SeederWork(t)
      BY DEF IInv, Processes, SeederLocks
    <3> QED
      BY <1>5, <3>1, <3>2 DEF SeederLocks, SeederWork
  <2> QED
    BY <2>1, <2>2
<1>10. ASSUME NEW w \in Writers PROVE WriterLocks(w)'
  <2>1. WriterLocks(w)
    BY DEF IInv, Processes
  <2>2. /\ pc[w] \in {"inserted", "updated"} => write[w].row.kind # "unit"
        /\ pc[w] \in {"trigger", "updated"} =>
             job[s].mode = "keep" \/ (job[s].mode = "refresh" /\ write[w].row.id \notin Ids(job[s].gone))
    BY <1>0, AloneAtCommit
  <2>3. pc'[w] \in {"updating", "trigger", "updated"} => write[w].row.id \in Ids(rows')
    <3> SUFFICES ASSUME pc'[w] \in {"updating", "trigger", "updated"}
                 PROVE  write[w].row.id \in Ids(rows')
      OBVIOUS
    <3>1. pc[w] = pc'[w] /\ (pc[w] = "updating" => write[w].row.id \notin Ids(job[s].gone))
      BY <1>3
    <3>2. write[w].row.id \in Ids(rows)
      BY <2>1, <3>1 DEF WriterLocks
    <3>3. /\ job[s].mode = "fresh" => rows = {}
          /\ job[s].mode = "refresh" => job[s].gone = rows
      BY <1>0 DEF IInv, Processes, SeederWork
    <3>4. job[s].mode # "fresh"
      BY <3>2, <3>3 DEF Ids
    <3>5. job[s].mode # "refresh"
      BY <2>2, <3>1, <3>2, <3>3
    <3> QED
      BY <1>1, <3>2, <3>4, <3>5
  <2>4. pc'[w] = pc[w] \/ pc'[w] = "failed"
    BY <1>3
  <2> QED
    BY <1>1, <1>5, <2>1, <2>2, <2>3, <2>4, SentinelAssumption DEF WriterLocks
<1>11. ASSUME NEW t \in Seeders, NEW w \in Writers PROVE Apart(t, w)'
  <2>1. pc'[w] = pc[w] \/ pc'[w] = "failed"
    BY <1>3
  <2>2. Apart(t, w)
    BY DEF IInv, Processes
  <2> QED
    BY <1>1, <1>3, <1>4, <2>1, <2>2 DEF Apart
<1> QED
  BY <1>7, <1>8, <1>9, <1>10, <1>11 DEF IInv, Processes

\* The owner's UPDATE has no seeder past its decision and no unit in sight.
LEMMA OwnerPinIInv ==
  ASSUME IInv, NEW m \in Manifests, OwnerPin(m) PROVE IInv'
<1> USE DEF OwnerPin, PinMayChange
<1>1. TypeOK'
  BY DEF IInv, TypeOK
<1>2. World'
  BY SentinelAssumption DEF IInv, World, PublishedOnce, PinnedReleaseOnly
<1>3. \A s \in Seeders : pc[s] \notin Deciding
  BY SentinelAssumption DEF IInv, Processes, SeederLocks
<1>4. ASSUME NEW s \in Seeders PROVE SeederLocks(s)' /\ SeederWork(s)'
  BY <1>3 DEF IInv, Processes, SeederLocks, SeederWork, Publishable
<1>5. ASSUME NEW w \in Writers PROVE WriterLocks(w)'
  BY SentinelAssumption DEF IInv, Processes, WriterLocks
<1>6. ASSUME NEW s \in Seeders, NEW w \in Writers PROVE Apart(s, w)'
  BY DEF IInv, Processes, Apart
<1> QED
  BY <1>1, <1>2, <1>4, <1>5, <1>6 DEF IInv, Processes

\* A writer commits while no seeder has decided on what it writes.
LEMMA CommitWriterIInv ==
  ASSUME IInv, NEW w \in Writers, CommitWriter(w) PROVE IInv'
<1> USE DEF CommitWriter, EndWriter, Goto
<1>1. /\ Written(w) \in SUBSET Row /\ Keyed(Written(w)) /\ Ids(rows) \subseteq Ids(Written(w))
      /\ \A r \in Written(w) : \/ pc[w] = "inserted" /\ r = write[w].row
                               \/ \E q \in rows : r.kind = q.kind /\ r.release = q.release
  BY WrittenRows DEF IInv, TypeOK, Processes, WriterLocks
<1>2. TypeOK'
  BY <1>1, SentinelAssumption DEF IInv, TypeOK, WriterLabels
<1>3. /\ pc'[w] = "done" /\ held'[w] = "none"
      /\ \A t \in (Seeders \cup Writers) \ {w} : pc'[t] = pc[t]
      /\ \A v \in Writers \ {w} : held'[v] = held[v]
  BY DEF IInv, TypeOK
<1>4. WriterLocks(w)
  BY DEF IInv, Processes
<1>5. pc[w] = "updated" => rows # {} /\ write[w].row.id \in Ids(rows)
  BY <1>4 DEF WriterLocks, Ids
<1>6. pin # Absent
  BY <1>4, <1>5 DEF WriterLocks, IInv, World
<1>7. World'
  <2>1. PinnedReleaseOnly'
    BY <1>1, <1>4 DEF IInv, World, PinnedReleaseOnly, WriterLocks, CatalogAllows
  <2> QED
    BY <1>6, <2>1 DEF IInv, World, PublishedOnce, Consistent
<1>8. ASSUME NEW s \in Seeders PROVE SeederLocks(s)' /\ SeederWork(s)'
  <2>1. pc'[s] = pc[s] /\ SeederLocks(s) /\ SeederWork(s) /\ Apart(s, w)
    BY <1>3, SentinelAssumption DEF IInv, Processes
  <2>2. SeederLocks(s)'
    BY <2>1 DEF SeederLocks, Publishable
  <2>3. pc[s] \in Deciding => pc[w] = "updated"
    BY <1>4, <1>6, <2>1, SentinelAssumption DEF SeederLocks, WriterLocks
  <2>4. pc[s] \in {"clear", "restore", "validate", "commit"} =>
          /\ job[s].mode # "fresh"
          /\ job[s].mode = "refresh" => pc[s] = "clear"
    BY <1>5, <2>1, <2>3 DEF SeederWork, Apart
  <2> QED
    BY <2>1, <2>2, <2>4 DEF SeederWork
<1>9. ASSUME NEW v \in Writers PROVE WriterLocks(v)'
  <2>1. CASE v = w
    BY <1>3, <2>1 DEF WriterLocks
  <2>2. CASE v # w
    BY <1>1, <1>3, <2>2 DEF IInv, Processes, WriterLocks
  <2> QED
    BY <2>1, <2>2
<1>10. ASSUME NEW s \in Seeders, NEW v \in Writers PROVE Apart(s, v)'
  <2>1. pc'[s] = pc[s] /\ Apart(s, v)
    BY <1>3, SentinelAssumption DEF IInv, Processes
  <2> QED
    BY <1>3, <2>1 DEF Apart
<1> QED
  BY <1>2, <1>7, <1>8, <1>9, <1>10 DEF IInv, Processes

-----------------------------------------------------------------------------
LEMMA NextIInv == ASSUME IInv, [Next]_vars PROVE IInv'
<1>1. CASE UNCHANGED vars
  <2>1. TypeOK'
    BY <1>1 DEF vars, IInv, TypeOK
  <2>2. World'
    BY <1>1, WorldFrame DEF vars, IInv
  <2>3. Processes'
    BY <1>1 DEF vars, IInv, Processes, SeederLocks, SeederWork, WriterLocks, Apart, Publishable
  <2> QED
    BY <2>1, <2>2, <2>3 DEF IInv
<1>2. ASSUME NEW s \in Seeders, AnyBootstrap(s) PROVE IInv'
  BY <1>2, BootstrapIInv DEF AnyBootstrap
<1>3. ASSUME NEW s \in Seeders, SeederStep(s) PROVE IInv'
  BY <1>3, PublishIInv, LockWorkspaceIInv, DecideIInv, ClearIInv, RestoreIInv, ValidateIInv,
     CommitIInv DEF SeederStep
<1>4. ASSUME NEW s \in Seeders, AbortSeeder(s) PROVE IInv'
  BY <1>4, RollbackIInv DEF AbortSeeder
<1>5. ASSUME NEW w \in Writers, NEW row \in Created(w), Insert(w, row) PROVE IInv'
  BY <1>5, InsertIInv
<1>6. ASSUME NEW w \in Writers, NEW row \in rows, NEW asked \in SUBSET Columns, Read(w, row, asked)
      PROVE  IInv'
  BY <1>6, ReadIInv
<1>7. ASSUME NEW w \in Writers, WriterStep(w) PROVE IInv'
  BY <1>7, StartUpdateIInv, LockRowIInv, TriggerIInv, CommitWriterIInv DEF WriterStep
<1>8. ASSUME NEW w \in Writers, AbortWriter(w) PROVE IInv'
  BY <1>8, WriterFailsIInv DEF AbortWriter
<1>9. ASSUME NEW m \in Manifests, OwnerPin(m) PROVE IInv'
  BY <1>9, OwnerPinIInv
<1>10. ASSUME NEW s \in Seeders, NEW w \in Writers, BreakDeadlock(s, w) PROVE IInv'
  <2>1. CASE Rollback(s)
    BY <1>10, <2>1, RollbackIInv DEF BreakDeadlock, Deadlocked
  <2>2. CASE ~Rollback(s)
    BY <1>10, <2>2, WriterFailsIInv DEF BreakDeadlock
  <2> QED
    BY <2>1, <2>2
<1> QED
  BY <1>1, <1>2, <1>3, <1>4, <1>5, <1>6, <1>7, <1>8, <1>9, <1>10 DEF Next, AnyBreak

\* Only the commits and the owner's pin change what is committed, and only a
\* commit ends a transaction well.
LEMMA VisibleSteps ==
  ASSUME TypeOK, Next
  PROVE  \/ \E s \in Seeders : Commit(s)
         \/ \E w \in Writers : CommitWriter(w)
         \/ /\ \E m \in Manifests : OwnerPin(m)
            /\ UNCHANGED <<published, rows, pc>>
         \/ /\ UNCHANGED <<pin, published, rows>>
            /\ \A t \in Seeders \cup Writers : pc'[t] = "done" => pc[t] = "done"
<1> DEFINE Hidden == /\ UNCHANGED <<pin, published, rows>>
                     /\ \A t \in Seeders \cup Writers : pc'[t] = "done" => pc[t] = "done"
<1> USE DEF Goto
<1>1. ASSUME NEW s \in Seeders, Rollback(s) PROVE Hidden
  BY <1>1 DEF Rollback, EndSeeder, TypeOK
<1>2. ASSUME NEW s \in Seeders, AnyBootstrap(s) PROVE Hidden
  BY <1>2 DEF AnyBootstrap, Bootstrap, TypeOK
<1>3. ASSUME NEW s \in Seeders, SeederStep(s) PROVE Commit(s) \/ Hidden
  <2>1. CASE Publish(s)
    BY <1>1, <2>1 DEF Publish, TypeOK
  <2>2. CASE LockWorkspace(s)
    BY <2>2 DEF LockWorkspace, TypeOK
  <2>3. CASE Decide(s)
    BY <1>1, <2>3 DEF Decide, TypeOK
  <2>4. CASE Clear(s)
    BY <2>4 DEF Clear, RowsAfterClear, TypeOK
  <2>5. CASE Restore(s)
    BY <2>5 DEF Restore, TypeOK
  <2>6. CASE Validate(s)
    BY <1>1, <2>6 DEF Validate, TypeOK
  <2> QED
    BY <1>3, <2>1, <2>2, <2>3, <2>4, <2>5, <2>6 DEF SeederStep
<1>4. ASSUME NEW w \in Writers, EndWriter(w, "failed"), UNCHANGED <<pin, published, rows>>
      PROVE  Hidden
  BY <1>4 DEF EndWriter, TypeOK
<1>5. ASSUME NEW w \in Writers, NEW row, Insert(w, row) PROVE Hidden
  BY <1>4, <1>5 DEF Insert, TypeOK
<1>6. ASSUME NEW w \in Writers, NEW row, NEW asked, Read(w, row, asked) PROVE Hidden
  BY <1>6 DEF Read, TypeOK
<1>7. ASSUME NEW w \in Writers, WriterStep(w) PROVE CommitWriter(w) \/ Hidden
  <2>1. CASE StartUpdate(w)
    BY <1>4, <2>1 DEF StartUpdate, TypeOK
  <2>2. CASE LockRow(w)
    BY <2>2 DEF LockRow, TypeOK
  <2>3. CASE Trigger(w)
    BY <1>4, <2>3 DEF Trigger, TypeOK
  <2> QED
    BY <1>7, <2>1, <2>2, <2>3 DEF WriterStep
<1>8. ASSUME NEW w \in Writers, AbortWriter(w) PROVE Hidden
  BY <1>4, <1>8 DEF AbortWriter
<1>9. ASSUME AnyBreak PROVE Hidden
  BY <1>1, <1>4, <1>9 DEF AnyBreak, BreakDeadlock
<1>10. ASSUME NEW s \in Seeders, AbortSeeder(s) PROVE Hidden
  BY <1>1, <1>10 DEF AbortSeeder
<1>11. ASSUME NEW m \in Manifests, OwnerPin(m) PROVE UNCHANGED <<published, rows, pc>>
  BY <1>11 DEF OwnerPin
<1> HIDE DEF Hidden
<1>12. (\E s \in Seeders : Commit(s)) \/ (\E w \in Writers : CommitWriter(w))
       \/ (\E m \in Manifests : OwnerPin(m)) \/ Hidden
  BY <1>2, <1>3, <1>5, <1>6, <1>7, <1>8, <1>9, <1>10 DEF Next
<1> QED
  BY <1>11, <1>12 DEF Hidden

-----------------------------------------------------------------------------
(***************************************************************************)
(* The inductive invariant holds in every reachable state.                 *)
(***************************************************************************)
THEOREM Invariance == Spec => []IInv
<1>1. Init => IInv
  BY InitIInv
<1>2. IInv /\ [Next]_vars => IInv'
  BY NextIInv
<1> QED
  BY <1>1, <1>2, PTL DEF Spec

(***************************************************************************)
(* Types, and the primary key of the operational tables.                   *)
(***************************************************************************)
THEOREM TypeCorrect == Spec => []TypeOK
<1>1. IInv => TypeOK
  BY DEF IInv
<1> QED
  BY <1>1, Invariance, PTL

(***************************************************************************)
(* The two catalog triggers and the row lock between them leave no unit of *)
(* another release in a pinned workspace (migration 0010).                 *)
(***************************************************************************)
THEOREM PinnedReleaseCorrect == Spec => []PinnedReleaseOnly
<1>1. IInv => PinnedReleaseOnly
  BY DEF IInv, World
<1> QED
  BY <1>1, Invariance, PTL

(***************************************************************************)
(* The advisory lock makes publish's comparison and its insertion one      *)
(* step: a version never names two baselines.                              *)
(***************************************************************************)
THEOREM PublishedCorrect == Spec => []PublishedOnce
<1>1. IInv => PublishedOnce
  BY DEF IInv, World
<1> QED
  BY <1>1, Invariance, PTL

(***************************************************************************)
(* No step moves a workspace from one baseline to another.                 *)
(***************************************************************************)
THEOREM PinForever == Spec => PinIsForever
<1>1. ASSUME IInv, [Next]_vars PROVE [pin' # pin => pin \notin Manifests]_vars
  <2> SUFFICES ASSUME Next, pin' # pin, pin \in Manifests PROVE FALSE
    BY <1>1
  <2>1. CASE \E s \in Seeders : Commit(s)
    <3>1. PICK s \in Seeders : Commit(s)
      BY <2>1
    <3>2. /\ job[s].mode \in {"fresh", "keep", "refresh"} /\ pin' = job[s].manifest
          /\ pc[s] = "commit" /\ SeederWork(s)
      BY <1>1, <3>1, CommittedView, JobFields DEF Commit, Modes, IInv, Processes
    <3> QED
      BY <3>2, SentinelAssumption DEF SeederWork
  <2>2. CASE \E m \in Manifests : OwnerPin(m)
    BY <2>2, SentinelAssumption DEF OwnerPin, PinMayChange
  <2>3. CASE \E w \in Writers : CommitWriter(w)
    BY <2>3 DEF CommitWriter
  <2> QED
    BY <1>1, <2>1, <2>2, <2>3, VisibleSteps DEF IInv
<1> QED
  BY <1>1, Invariance, PTL DEF Spec, PinIsForever

(***************************************************************************)
(* A seeder commits its baseline's rows, or none at all when it keeps the  *)
(* copy: nothing gets between its validation and its commit.               *)
(***************************************************************************)
THEOREM CommitCorrect == Spec => CommitLeavesBaseline
<1> DEFINE Left(s) == /\ pin' = job[s].manifest
                      /\ rows' = IF job[s].mode = "keep" THEN rows ELSE job[s].manifest.rows
           Good == \A s \in Seeders : (pc[s] = "commit" /\ pc'[s] = "done") => Left(s)
<1>1. ASSUME IInv, [Next]_vars PROVE [Good]_vars
  <2> SUFFICES ASSUME Next, NEW s \in Seeders, pc[s] = "commit", pc'[s] = "done" PROVE Left(s)
    BY <1>1
  <2>1. CASE \E t \in Seeders : Commit(t)
    <3>1. PICK t \in Seeders : Commit(t)
      BY <2>1
    <3>2. t = s
      BY <3>1, SentinelAssumption DEF Commit
    <3> QED
      BY <1>1, <3>1, <3>2, CommittedView DEF Commit
  <2>2. CASE \E w \in Writers : CommitWriter(w)
    BY <1>1, <2>2, SentinelAssumption DEF CommitWriter, EndWriter, Goto, IInv, TypeOK
  <2>3. CASE UNCHANGED pc
    BY <2>3
  <2> QED
    BY <1>1, <2>1, <2>2, <2>3, VisibleSteps DEF IInv
<1>2. [Good]_vars => [\A s \in Seeders :
                        (pc[s] = "commit" /\ pc'[s] = "done") =>
                          /\ pin' = job[s].manifest
                          /\ rows' = IF job[s].mode = "keep" THEN rows
                                     ELSE job[s].manifest.rows]_vars
  OBVIOUS
<1> HIDE DEF Good
<1> QED
  BY <1>1, <1>2, Invariance, PTL DEF Spec, CommitLeavesBaseline

(***************************************************************************)
(* What every reader sees of the tables never loses a part of a baseline   *)
(* that was there whole.                                                   *)
(***************************************************************************)
THEOREM BaselineCorrect == Spec => BaselineNeverHalfVisible
<1> DEFINE Whole == Ids(pin.rows) \subseteq Ids(rows)
           Kept == (pin \in Manifests /\ Whole) => Ids(pin.rows) \subseteq Ids(rows')
<1>1. ASSUME IInv, [Next]_vars PROVE [Kept]_vars
  <2> SUFFICES ASSUME Next, pin \in Manifests, Whole PROVE Ids(pin.rows) \subseteq Ids(rows')
    BY <1>1
  <2>1. CASE \E s \in Seeders : Commit(s)
    <3>1. PICK s \in Seeders : Commit(s)
      BY <2>1
    <3>2. /\ job[s].mode \in {"fresh", "keep", "refresh"}
          /\ rows' = IF job[s].mode = "keep" THEN rows ELSE job[s].manifest.rows
          /\ pc[s] = "commit" /\ SeederWork(s)
      BY <1>1, <3>1, CommittedView, JobFields DEF Commit, Modes, IInv, Processes
    <3>3. job[s].mode # "keep" => pin = job[s].manifest
      BY <3>2, SentinelAssumption DEF SeederWork
    <3> QED
      BY <3>2, <3>3
  <2>2. CASE \E w \in Writers : CommitWriter(w)
    <3>1. PICK w \in Writers : CommitWriter(w)
      BY <2>2
    <3>2. Ids(rows) \subseteq Ids(Written(w)) /\ rows' = Written(w)
      BY <1>1, <3>1, WrittenRows DEF CommitWriter, IInv, TypeOK, Processes, WriterLocks
    <3> QED
      BY <3>2
  <2>3. CASE UNCHANGED rows
    BY <2>3
  <2> QED
    BY <1>1, <2>1, <2>2, <2>3, VisibleSteps DEF IInv
<1>2. [Kept]_vars => [(pin \in Manifests /\ Ids(pin.rows) \subseteq Ids(rows))
                        => Ids(pin.rows) \subseteq Ids(rows')]_vars
  OBVIOUS
<1> HIDE DEF Kept
<1> QED
  BY <1>1, <1>2, Invariance, PTL DEF Spec, BaselineNeverHalfVisible

(***************************************************************************)
(* An update whose transaction commits found a row of its id, and changed  *)
(* nothing but the columns asked for of it, whatever became of the row     *)
(* that was read.                                                          *)
(***************************************************************************)
THEOREM UpdateCorrect == Spec => AcknowledgedUpdateHappened
<1> DEFINE Changed(w, r) == (rows \ {r}) \cup {[r EXCEPT !.edited = @ \cup write[w].asked]}
           Happened ==
             \A w \in Writers : (pc[w] = "updated" /\ pc'[w] = "done") =>
               \E r \in rows : r.id = write[w].row.id /\ rows' = Changed(w, r)
<1>1. ASSUME IInv, [Next]_vars PROVE [Happened]_vars
  <2> SUFFICES ASSUME Next, NEW w \in Writers, pc[w] = "updated", pc'[w] = "done"
               PROVE  \E r \in rows : r.id = write[w].row.id /\ rows' = Changed(w, r)
    BY <1>1
  <2>1. CASE \E v \in Writers : CommitWriter(v)
    <3>1. PICK v \in Writers : CommitWriter(v)
      BY <2>1
    <3>2. v = w
      BY <1>1, <3>1 DEF CommitWriter, EndWriter, Goto, IInv, TypeOK
    <3>3. PICK r \in rows : r.id = write[w].row.id
      BY <1>1 DEF IInv, Processes, WriterLocks, Ids
    <3>4. {q \in rows : q.id = write[w].row.id} = {r}
      BY <1>1, <3>3 DEF IInv, TypeOK, Keyed
    <3>5. rows' = Written(w)
      BY <3>1, <3>2 DEF CommitWriter
    <3>6. Written(w) = (rows \ {r}) \cup {Updated(w, q) : q \in {r}}
      BY <3>4 DEF Written
    <3>7. rows' = Changed(w, r)
      BY <3>5, <3>6 DEF Updated
    <3> QED
      BY <3>3, <3>7
  <2>2. CASE \E s \in Seeders : Commit(s)
    BY <2>2, SentinelAssumption DEF Commit
  <2>3. CASE UNCHANGED pc
    BY <2>3
  <2> QED
    BY <1>1, <2>1, <2>2, <2>3, VisibleSteps DEF IInv
<1>2. [Happened]_vars =>
        [\A w \in Writers :
           (pc[w] = "updated" /\ pc'[w] = "done") =>
             \E r \in rows :
               /\ r.id = write[w].row.id
               /\ rows' = (rows \ {r}) \cup {[r EXCEPT !.edited = @ \cup write[w].asked]}]_vars
  OBVIOUS
<1> HIDE DEF Happened
<1> QED
  BY <1>1, <1>2, Invariance, PTL DEF Spec, AcknowledgedUpdateHappened

-----------------------------------------------------------------------------
(***************************************************************************)
(* Waiting.  What each statement waits for, as the guard of its action: a  *)
(* transaction that is ready can take its next step now.                   *)
(***************************************************************************)
Unfinished(t) == pc[t] \notin {"idle", "done", "failed"}

SeederReady(s) ==
  \/ pc[s] = "publish" /\ advisory = Nobody
  \/ pc[s] = "lock" /\ (pin # Absent => exclusive = Nobody /\ \A w \in Writers : held[w] = "none")
  \/ pc[s] = "clear" /\ \A r \in rows : RowHolders(r.id) = {}
  \/ pc[s] \in {"decide", "restore", "validate", "commit"}

WriterReady(w) ==
  \/ pc[w] \in {"inserted", "read", "updated"}
  \/ pc[w] = "updating" /\ write[w].row.id \notin Ids(Gone) /\ RowHolders(write[w].row.id) = {}
  \/ pc[w] = "trigger" /\ (write[w].row.kind = "unit" => exclusive = Nobody)

SomebodyGoesOn ==
  (\E t \in Seeders \cup Writers : Unfinished(t)) =>
    \/ \E s \in Seeders : SeederReady(s)
    \/ \E w \in Writers : WriterReady(w)
    \/ \E s \in Seeders, w \in Writers : Deadlocked(s, w)

\* Nobody has a lock of the workspace row but a writer about to commit, besides a seeder.
HoldersWrite == \A w \in Writers : held[w] # "none" => pc[w] \in {"inserted", "updated"}

LEMMA SeederLeavesHolders ==
  ASSUME TypeOK, HoldersWrite, UNCHANGED held,
         \A w \in Writers : pc'[w] = pc[w] \/ pc[w] = "updating"
  PROVE  HoldersWrite'
BY DEF HoldersWrite

LEMMA WriterLeavesHolders ==
  ASSUME TypeOK, HoldersWrite, NEW w \in Writers,
         \A v \in Writers \ {w} : pc'[v] = pc[v] /\ held'[v] = held[v],
         held'[w] # "none" => pc'[w] \in {"inserted", "updated"}
  PROVE  HoldersWrite'
BY DEF HoldersWrite

LEMMA HoldersStay == IInv /\ HoldersWrite /\ [Next]_vars => HoldersWrite'
<1> SUFFICES ASSUME IInv, HoldersWrite, [Next]_vars PROVE HoldersWrite'
  OBVIOUS
<1> USE DEF Goto
<1>0. TypeOK
  BY DEF IInv
<1>1. ASSUME NEW s \in Seeders, Rollback(s) PROVE HoldersWrite'
  <2>1. UNCHANGED held /\ \A w \in Writers : pc'[w] = pc[w] \/ w = s
    BY <1>0, <1>1 DEF Rollback, EndSeeder, TypeOK
  <2> QED
    BY <1>0, <2>1, SeederLeavesHolders, SentinelAssumption
<1>2. ASSUME NEW s \in Seeders, AnyBootstrap(s) \/ SeederStep(s) \/ AbortSeeder(s)
      PROVE  HoldersWrite'
  <2>1. CASE Rollback(s)
    BY <1>1, <2>1
  <2>2. CASE Commit(s)
    <3>1. UNCHANGED held /\ \A w \in Writers : pc'[w] = pc[w] \/ pc[w] = "updating"
      BY <1>0, <2>2, SentinelAssumption DEF Commit, TypeOK
    <3> QED
      BY <1>0, <3>1, SeederLeavesHolders
  <2>3. CASE ~Rollback(s) /\ ~Commit(s)
    <3>1. UNCHANGED held /\ \E label : pc' = [pc EXCEPT ![s] = label]
      BY <1>2, <2>3 DEF AnyBootstrap, SeederStep, AbortSeeder, Bootstrap, Publish, LockWorkspace,
                        Decide, Clear, Restore, Validate
    <3>2. \A w \in Writers : pc'[w] = pc[w]
      BY <1>0, <3>1, SentinelAssumption DEF TypeOK
    <3> QED
      BY <1>0, <3>1, <3>2, SeederLeavesHolders
  <2> QED
    BY <2>1, <2>2, <2>3
<1>3. ASSUME NEW w \in Writers, NEW outcome, EndWriter(w, outcome) PROVE HoldersWrite'
  <2>1. /\ held'[w] = "none"
        /\ \A v \in Writers \ {w} : pc'[v] = pc[v] /\ held'[v] = held[v]
    BY <1>0, <1>3 DEF EndWriter, TypeOK
  <2> QED
    BY <1>0, <2>1, WriterLeavesHolders
<1>4. ASSUME NEW w \in Writers, NEW label, pc' = [pc EXCEPT ![w] = label], pc[w] # "inserted", pc[w] # "updated",
             UNCHANGED held
      PROVE  HoldersWrite'
  <2>1. /\ held'[w] = "none"
        /\ \A v \in Writers \ {w} : pc'[v] = pc[v] /\ held'[v] = held[v]
    BY <1>0, <1>4 DEF HoldersWrite, TypeOK
  <2> QED
    BY <1>0, <2>1, WriterLeavesHolders
<1>5. ASSUME NEW w \in Writers, NEW label \in {"inserted", "updated"}, NEW lock,
             pc' = [pc EXCEPT ![w] = label], held' = [held EXCEPT ![w] = lock]
      PROVE  HoldersWrite'
  <2>1. /\ pc'[w] \in {"inserted", "updated"}
        /\ \A v \in Writers \ {w} : pc'[v] = pc[v] /\ held'[v] = held[v]
    BY <1>0, <1>5 DEF TypeOK
  <2> QED
    BY <1>0, <2>1, WriterLeavesHolders
<1>6. ASSUME NEW w \in Writers, NEW row, Insert(w, row) PROVE HoldersWrite'
  BY <1>3, <1>5, <1>6 DEF Insert
<1>7. ASSUME NEW w \in Writers, NEW row, NEW asked, Read(w, row, asked) PROVE HoldersWrite'
  BY <1>4, <1>7 DEF Read
<1>8. ASSUME NEW w \in Writers, WriterStep(w) PROVE HoldersWrite'
  <2>1. CASE StartUpdate(w)
    BY <1>3, <1>4, <2>1 DEF StartUpdate
  <2>2. CASE LockRow(w)
    BY <1>4, <2>2 DEF LockRow
  <2>3. CASE Trigger(w)
    <3>1. CASE EndWriter(w, "failed")
      BY <1>3, <3>1
    <3>2. CASE ~EndWriter(w, "failed")
      <4>1. pc' = [pc EXCEPT ![w] = "updated"] /\ \E lock : held' = [held EXCEPT ![w] = lock]
        BY <2>3, <3>2 DEF Trigger
      <4> QED
        BY <1>5, <4>1
    <3> QED
      BY <3>1, <3>2
  <2>4. CASE CommitWriter(w)
    BY <1>3, <2>4 DEF CommitWriter
  <2> QED
    BY <1>8, <2>1, <2>2, <2>3, <2>4 DEF WriterStep
<1>9. ASSUME NEW w \in Writers, AbortWriter(w) PROVE HoldersWrite'
  BY <1>3, <1>9 DEF AbortWriter
<1>10. ASSUME NEW m \in Manifests, OwnerPin(m) PROVE HoldersWrite'
  BY <1>10 DEF OwnerPin, HoldersWrite
<1>11. ASSUME AnyBreak PROVE HoldersWrite'
  BY <1>1, <1>3, <1>11 DEF AnyBreak, BreakDeadlock
<1>12. CASE UNCHANGED vars
  BY <1>12 DEF vars, HoldersWrite
<1> QED
  BY <1>2, <1>6, <1>7, <1>8, <1>9, <1>10, <1>11, <1>12 DEF Next

(***************************************************************************)
(* A seeder that is past the advisory lock can go on, or a writer can that *)
(* it waits for, or the two wait for each other, which PostgreSQL ends.    *)
(***************************************************************************)
LEMMA SeederGoesOn ==
  ASSUME IInv, HoldersWrite, NEW s \in Seeders, pc[s] \in Holding
  PROVE  \/ SeederReady(s)
         \/ \E w \in Writers : WriterReady(w) \/ Deadlocked(s, w)
<1>1. advisory = s /\ \A t \in Seeders : pc[t] \in Holding <=> t = s
  BY SentinelAssumption DEF IInv, Processes, SeederLocks
<1>2. CASE pc[s] = "lock"
  <2>1. exclusive = Nobody
    <3>1. \A t \in Seeders : exclusive # t
      BY <1>1, <1>2 DEF IInv, Processes, SeederLocks
    <3> QED
      BY <3>1 DEF IInv, TypeOK
  <2>2. CASE \A w \in Writers : held[w] = "none"
    BY <1>2, <2>1, <2>2 DEF SeederReady
  <2>3. CASE \E w \in Writers : held[w] # "none"
    BY <2>3 DEF HoldersWrite, WriterReady
  <2> QED
    BY <2>2, <2>3
<1>3. CASE pc[s] = "clear"
  <2>1. CASE \A r \in rows : RowHolders(r.id) = {}
    BY <1>3, <2>1 DEF SeederReady
  <2>2. CASE \E r \in rows : RowHolders(r.id) # {}
    <3>1. PICK w \in Writers : pc[w] \in {"trigger", "updated"}
      BY <2>2 DEF RowHolders
    <3>2. pin # Absent
      BY <2>2 DEF IInv, World
    <3>3. exclusive = s
      BY <1>3, <3>2 DEF IInv, Processes, SeederLocks
    <3> QED
      BY <1>3, <3>1, <3>3 DEF WriterReady, Deadlocked
  <2> QED
    BY <2>1, <2>2
<1>4. CASE pc[s] \in {"decide", "restore", "validate", "commit"}
  BY <1>4 DEF SeederReady
<1> QED
  BY <1>2, <1>3, <1>4

(***************************************************************************)
(* Not everyone waits for everyone: as long as a transaction is not over,  *)
(* one of them can take its next step, or the deadlock detector can end    *)
(* the one cycle there is, a refresh and the writer of a unit.  The        *)
(* advisory lock, FOR UPDATE, FOR SHARE, FOR KEY SHARE and the row locks   *)
(* of any number of processes make no other.  (publish at 41, the lock of  *)
(* seed_workspace, and the trigger of migration 0010.)                     *)
(***************************************************************************)
THEOREM WaitingCorrect == Spec => []SomebodyGoesOn
<1>1. Init => HoldersWrite
  BY DEF Init, HoldersWrite
<1>2. IInv /\ HoldersWrite => SomebodyGoesOn
  <2> SUFFICES ASSUME IInv, HoldersWrite, NEW t \in Seeders \cup Writers, Unfinished(t)
               PROVE  \/ \E s \in Seeders : SeederReady(s)
                      \/ \E w \in Writers : WriterReady(w)
                      \/ \E s \in Seeders, w \in Writers : Deadlocked(s, w)
    BY DEF SomebodyGoesOn
  <2>1. CASE \E s \in Seeders : pc[s] \in Holding
    BY <2>1, SeederGoesOn
  <2>2. CASE \A s \in Seeders : pc[s] \notin Holding
    <3>1. advisory = Nobody /\ exclusive = Nobody
      BY <2>2 DEF IInv, TypeOK, Processes, SeederLocks
    <3>2. CASE t \in Seeders
      <4>1. pc[t] = "publish"
        BY <2>2, <3>2 DEF IInv, TypeOK, SeederLabels, Unfinished
      <4> QED
        BY <3>1, <3>2, <4>1 DEF SeederReady
    <3>3. CASE t \in Writers
      <4>1. Gone = {}
        <5>1. \A s \in Seeders : job[s] # NoJob => job[s].gone = {}
          BY <2>2 DEF IInv, TypeOK, SeederLabels, Processes, SeederLocks, SeederWork
        <5> QED
          BY <5>1 DEF Gone
      <4>2. CASE pc[t] = "updating" /\ RowHolders(write[t].row.id) # {}
        <5>1. PICK w \in Writers : pc[w] \in {"trigger", "updated"}
          BY <4>2 DEF RowHolders
        <5> QED
          BY <3>1, <5>1 DEF WriterReady
      <4>3. CASE pc[t] = "updating" /\ RowHolders(write[t].row.id) = {}
        <5>1. write[t].row.id \notin Ids(Gone)
          BY <4>1 DEF Ids
        <5> QED
          BY <3>3, <4>3, <5>1 DEF WriterReady
      <4>4. pc[t] \in {"inserted", "read", "updating", "trigger", "updated"}
        BY <3>3 DEF IInv, TypeOK, WriterLabels, Unfinished
      <4> QED
        BY <3>1, <3>3, <4>2, <4>3, <4>4 DEF WriterReady
    <3> QED
      BY <3>2, <3>3
  <2> QED
    BY <2>1, <2>2
<1> QED
  BY <1>1, <1>2, HoldersStay, Invariance, PTL DEF Spec
=============================================================================

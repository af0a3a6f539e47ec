---------------------------- MODULE Repositories ----------------------------
(***************************************************************************)
(* The sessions of app/database.py and what the repositories do in them    *)
(* (app/facilities, app/equipment, app/operations): blocks of reads and    *)
(* creates over a pool of connections, under the row security policies     *)
(* and the constraints of the schema.                                      *)
(*                                                                         *)
(* A row has its table, workspace, code (a code, tag, or the component of  *)
(* an inventory item) and references.  Rows are created here and removed   *)
(* by the owner's refresh; their updates are Lifecycle's.  A page is the   *)
(* set of its rows.                                                        *)
(***************************************************************************)
EXTENDS Naturals, FiniteSets

CONSTANTS Sessions,    \* blocks, each entered once by a thread of its own
          Connections, \* of the pool
          Workspaces,
          Tables,      \* those of DOMAIN ParentsOf that the instance has
          Codes,
          Ids,         \* row ids in the order they are given out
          Limit,       \* of a page
          Offsets,
          None

\* What a row refers to, by table: each column with the table it is of.
ParentsOf == [facilities |-> [none |-> "none"],
              equipment_units |-> [facility |-> "facilities"],
              inventory_items |-> [facility |-> "facilities"],
              incidents |-> [facility |-> "facilities", unit |-> "equipment_units"],
              work_orders |-> [facility |-> "facilities", unit |-> "equipment_units",
                               incident |-> "incidents"]]

Columns == {"facility", "unit", "incident"}

ASSUME RepositoryAssumption ==
  /\ Tables \subseteq DOMAIN ParentsOf
  /\ Codes \subseteq Nat /\ Ids \subseteq Nat /\ IsFiniteSet(Ids) /\ Offsets \subseteq Nat /\ Limit \in Nat \ {0}
  /\ None \notin Ids \cup Sessions \cup Connections \cup Workspaces
  /\ \A ids \in SUBSET Ids : ids # None
  /\ None \notin {"returned", "unheard", "raised", "session", "workspace_session", "query_session"}

VARIABLES rows,    \* each id's row, from its insertion on
          fate,    \* what has become of it
          setting, \* app.workspace_id of each connection
          sess     \* where each block is

vars == <<rows, fate, setting, sess>>

Rows == [table : Tables, workspace : Workspaces, code : Codes, refs : [Columns -> Ids \cup {None}]]

Fates == {"unused", "pending", "committed", "removed", "undone"}

NoPage == [query |-> None, total |-> None, rows |-> {}, of |-> {}, counted |-> {}]

NoSession == [pc |-> "idle", kind |-> None, workspace |-> None, conn |-> None, snap |-> None,
              wants |-> None, made |-> {}, page |-> NoPage, outcome |-> None]

Init ==
  /\ rows = [i \in Ids |-> None]
  /\ fate = [i \in Ids |-> "unused"]
  /\ setting = [c \in Connections |-> None]
  /\ sess = [s \in Sessions |-> NoSession]

Live == {i \in Ids : fate[i] = "committed"}

Pending(s) == {i \in sess[s].made : fate[i] = "pending"}

-----------------------------------------------------------------------------
\* Variant for mutation: set_config for the session, not for the transaction.
ForSession(c) == setting[c]

\* What is left of the setting when a transaction ends.
AfterTransaction(c) == None

\* The transaction ends, its connection goes back to the pool, and the block is left.
Leave(s, outcome, to) ==
  /\ fate' = [i \in Ids |-> IF i \in Pending(s) THEN to ELSE fate[i]]
  /\ setting' = [setting EXCEPT ![sess[s].conn] = AfterTransaction(sess[s].conn)]
  /\ sess' = [sess EXCEPT ![s] = [@ EXCEPT !.pc = "ended", !.conn = None, !.snap = None, !.wants = None,
                                           !.page = NoPage, !.outcome = outcome]]
  /\ UNCHANGED rows

\* Variant for mutation: what was flushed before the exception is committed.
CommitsOnError == "committed"

Undone == "undone"

Rollback(s) == Leave(s, "raised", Undone)

\* session, workspace_session or query_session is entered; the pool has a connection or
\* times out.
Enter(s, kind, workspace) ==
  /\ sess[s].pc = "idle" /\ (kind = "session") = (workspace = None)
  /\ \/ \E c \in Connections :
          /\ \A t \in Sessions : sess[t].conn # c
          /\ sess' = [sess EXCEPT ![s] = [@ EXCEPT !.pc = IF kind = "session" THEN "ready" ELSE "set",
                                                   !.kind = kind, !.workspace = workspace, !.conn = c]]
     \/ /\ \A c \in Connections : \E t \in Sessions : sess[t].conn = c
        /\ sess' = [sess EXCEPT ![s] = [@ EXCEPT !.pc = "ended", !.kind = kind, !.workspace = workspace,
                                                 !.outcome = "raised"]]
  /\ UNCHANGED <<rows, fate, setting>>

\* set_config for the transaction; it is the first statement to take a query's snapshot.
SetWorkspace(s) ==
  /\ sess[s].pc = "set"
  /\ setting' = [setting EXCEPT ![sess[s].conn] = sess[s].workspace]
  /\ sess' = [sess EXCEPT ![s] = [@ EXCEPT !.pc = "ready",
                                           !.snap = IF sess[s].kind = "query_session" THEN Live ELSE None]]
  /\ UNCHANGED <<rows, fate>>

-----------------------------------------------------------------------------
\* What a statement of s reads: the policies leave the rows of the workspace set.
Visible(s) ==
  {i \in IF sess[s].snap = None THEN Live \cup Pending(s) ELSE sess[s].snap :
     rows[i].workspace = setting[sess[s].conn]}

\* The statement of read_page, list_by_facility or get_by_id, before its page.
Selected(s, q) ==
  {i \in Visible(s) : /\ rows[i].workspace = q.workspace /\ rows[i].table = q.table
                      /\ q.facility # None => rows[i].refs["facility"] = q.facility}

\* Variant for mutation: the count has not the filters of the rows.
CountedAll(s, q) ==
  {i \in Visible(s) : rows[i].workspace = q.workspace /\ rows[i].table = q.table}

Counted(s, q) == Selected(s, q)

Before(i, j) == rows[i].code < rows[j].code \/ (rows[i].code = rows[j].code /\ i < j)

PageOf(S, offset) ==
  {i \in S : Cardinality({j \in S : Before(j, i)}) \in offset .. offset + Limit - 1}

Queries == [workspace : Workspaces, table : Tables, facility : Ids \cup {None}, offset : Offsets]

\* A list of facilities reads its rows first, read_page its total.
RowsFirst(q) == q.table = "facilities"

ListedRows(s, q, page) ==
  [page EXCEPT !.rows = PageOf(Selected(s, q), q.offset), !.of = Selected(s, q)]

CountedTotal(s, q, page) ==
  [page EXCEPT !.total = Cardinality(Counted(s, q)), !.counted = Selected(s, q)]

BeginPage(s, q) ==
  /\ sess[s].pc = "ready"
  /\ q.facility # None => q.table # "facilities"
  /\ LET page == [NoPage EXCEPT !.query = q]
     IN  sess' = [sess EXCEPT ![s] = [@ EXCEPT !.pc = "paging",
                    !.page = IF RowsFirst(q) THEN ListedRows(s, q, page) ELSE CountedTotal(s, q, page)]]
  /\ UNCHANGED <<rows, fate, setting>>

EndPage(s) ==
  /\ sess[s].pc = "paging"
  /\ LET q == sess[s].page.query
         page == IF RowsFirst(q) THEN CountedTotal(s, q, sess[s].page)
                 ELSE ListedRows(s, q, sess[s].page)
     IN  sess' = [sess EXCEPT ![s] = [@ EXCEPT !.pc = "ready", !.page = page]]
  /\ UNCHANGED <<rows, fate, setting>>

-----------------------------------------------------------------------------
\* What a create can be asked for: the references its table has, its facility one of them.
Creatable ==
  {row \in Rows :
     /\ \A col \in Columns : row.refs[col] # None => col \in DOMAIN ParentsOf[row.table]
     /\ "facility" \in DOMAIN ParentsOf[row.table] => row.refs["facility"] # None}

\* create: the statement is sent, and may wait for another transaction.
Create(s, row) ==
  /\ sess[s].pc = "ready" /\ \E i \in Ids : fate[i] = "unused"
  /\ sess' = [sess EXCEPT ![s] = [@ EXCEPT !.pc = "inserting", !.wants = row, !.page = NoPage]]
  /\ UNCHANGED <<rows, fate, setting>>

\* The unique constraints: a code in a workspace, a component at a facility of it.
SameKey(r1, r2) ==
  /\ r1.table = r2.table /\ r1.workspace = r2.workspace /\ r1.code = r2.code
  /\ r1.table = "inventory_items" => r1.refs["facility"] = r2.refs["facility"]

Duplicates(row, S) == \E i \in S : SameKey(rows[i], row)

\* s must wait for t, which has inserted the same key and may yet roll back.
WaitsFor(s, t) == s # t /\ sess[s].pc = "inserting" /\ Duplicates(sess[s].wants, Pending(t))

\* The foreign keys: the parent is of the workspace and, but for the facility itself, at
\* the same facility.
ParentHolds(row, col, S) ==
  row.refs[col] # None =>
    \E i \in S : /\ i = row.refs[col] /\ rows[i].table = ParentsOf[row.table][col]
                 /\ rows[i].workspace = row.workspace
                 /\ col # "facility" => rows[i].refs["facility"] = row.refs["facility"]

Allowed(s, row) ==
  /\ sess[s].kind # "query_session"
  /\ row.workspace = setting[sess[s].conn]
  /\ ~Duplicates(row, Live \cup Pending(s))
  /\ \A col \in Columns : ParentHolds(row, col, Live \cup Pending(s))

\* The next row id.
Fresh(i) == fate[i] = "unused" /\ \A j \in Ids : fate[j] = "unused" => i <= j

\* flush: the row is inserted, or its transaction is over and the error leaves the block.
Insert(s) ==
  /\ sess[s].pc = "inserting" /\ \A t \in Sessions : ~WaitsFor(s, t)
  /\ \E i \in Ids :
       /\ Fresh(i)
       /\ IF Allowed(s, sess[s].wants)
          THEN /\ rows' = [rows EXCEPT ![i] = sess[s].wants]
               /\ fate' = [fate EXCEPT ![i] = "pending"]
               /\ sess' = [sess EXCEPT ![s] = [@ EXCEPT !.pc = "ready", !.wants = None,
                                                        !.made = sess[s].made \cup {i}]]
               /\ UNCHANGED setting
          ELSE Rollback(s)

\* Transactions that wait for one another, two or more: nobody outside can end it.
Knot(S) == S # {} /\ \A t \in S : \E u \in S : WaitsFor(t, u)

\* PostgreSQL fails the statement of one of them.
DeadlockVictim(s) ==
  /\ \E S \in SUBSET Sessions : s \in S /\ Knot(S)
  /\ Rollback(s)

-----------------------------------------------------------------------------
\* The end of the block, and commit.
Commit(s) == sess[s].pc = "ready" /\ Leave(s, "returned", "committed")

\* An exception of the block's own, a statement that fails, or a lost connection.
Raise(s) == sess[s].conn # None /\ Rollback(s)

\* The connection is lost when the commit has been done and not been acknowledged.
CommitUnheard(s) == sess[s].pc = "ready" /\ Leave(s, "unheard", "committed")

\* Variant for mutation: a referenced row is not locked until its child is committed.
UnlockedParents == Live

Referring == {i \in Ids : fate[i] \in {"pending", "committed"}}

\* The owner's refresh removes a row that nothing refers to, or waits.
Remove(i) ==
  /\ fate[i] = "committed"
  /\ \A j \in Referring, col \in Columns : rows[j].refs[col] # i
  /\ fate' = [fate EXCEPT ![i] = "removed"]
  /\ UNCHANGED <<rows, setting, sess>>

Kinds == {"session", "workspace_session", "query_session"}

AnyEnter(s) == \E kind \in Kinds, workspace \in Workspaces \cup {None} : Enter(s, kind, workspace)

AnyPage(s) == \E q \in Queries : BeginPage(s, q)

AnyCreate(s) == \E row \in Creatable : Create(s, row)

Step(s) == SetWorkspace(s) \/ EndPage(s) \/ Insert(s) \/ DeadlockVictim(s) \/ Commit(s)

Next ==
  \/ \E s \in Sessions : \/ AnyEnter(s) \/ AnyPage(s) \/ AnyCreate(s) \/ Step(s)
                         \/ Raise(s) \/ CommitUnheard(s)
  \/ \E i \in Ids : Remove(i)

Spec == Init /\ [][Next]_vars

-----------------------------------------------------------------------------
Pages == [query : Queries \cup {None}, total : Nat \cup {None}, rows : SUBSET Ids,
          of : SUBSET Ids, counted : SUBSET Ids]

Blocks ==
  [pc : {"idle", "set", "ready", "paging", "inserting", "ended"}, kind : Kinds \cup {None},
   workspace : Workspaces \cup {None}, conn : Connections \cup {None},
   snap : (SUBSET Ids) \cup {None}, wants : Rows \cup {None}, made : SUBSET Ids,
   page : Pages, outcome : {"returned", "unheard", "raised", None}]

\* Types, and the pool: no two blocks share a connection.
TypeOK ==
  /\ rows \in [Ids -> Rows \cup {None}] /\ fate \in [Ids -> Fates]
  /\ \A i \in Ids : fate[i] # "unused" => rows[i] \in Rows
  /\ setting \in [Connections -> Workspaces \cup {None}]
  /\ sess \in [Sessions -> Blocks]
  /\ \A s, t \in Sessions : (s # t /\ sess[s].conn # None) => sess[s].conn # sess[t].conn

\* Whatever a repository is asked for, a block reads rows of the workspace it was opened
\* for, none if it was opened for none, and writes no others: also on a connection that
\* blocks of other workspaces have used before, with transactions that failed.
\* (workspace_session and query_session, and the policies of the migrations.)
OwnWorkspaceOnly ==
  \A s \in Sessions : \A i \in sess[s].page.rows \cup sess[s].made : rows[i].workspace = sess[s].workspace

\* Committed rows have unique codes and the parents they name, of their workspace and at
\* their facility, however blocks and the owner's deletions interleave.
ConstraintsHold ==
  /\ \A i, j \in Live : i # j => ~SameKey(rows[i], rows[j])
  /\ \A i \in Live, col \in Columns : ParentHolds(rows[i], col, Live)

\* The rows a block has created are committed together: all of them when the block was left
\* without an exception, none when with one, be it of another block's row or of a deadlock;
\* only when the commit was not heard of can they be there after an exception.  A
\* query_session creates none.
BlockIsAllOrNothing ==
  \A s \in Sessions :
    LET kept == {i \in sess[s].made : fate[i] \in {"committed", "removed"}}
    IN  /\ sess[s].outcome \in {"returned", "unheard"} => kept = sess[s].made
        /\ sess[s].outcome \in {None, "raised"} => kept = {}
        /\ sess[s].kind = "query_session" => sess[s].made = {}

\* A page holds as many rows as its total says there are from its offset on, up to its
\* limit, unless rows were committed or removed between its two statements, which cannot
\* disturb a query_session.
PageAddsUp ==
  \A s \in Sessions :
    LET page == sess[s].page
    IN  sess[s].pc = "ready" /\ page.total # None =>
          /\ page.of = page.counted =>
               Cardinality(page.rows) = Cardinality({n \in 0 .. page.total - 1 :
                                           n \in page.query.offset .. page.query.offset + Limit - 1})
          /\ sess[s].kind = "query_session" => page.of = page.counted
==============================================================================

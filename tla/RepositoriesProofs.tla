------------------------- MODULE RepositoriesProofs -------------------------
(***************************************************************************)
(* Isolation, constraints and atomicity of the repositories' blocks, and   *)
(* their pages, for every number of blocks, connections, workspaces,       *)
(* tables and rows.                                                        *)
(***************************************************************************)
EXTENDS Repositories, FiniteSetTheorems, TLAPS

(***************************************************************************)
(* The strengthening.  A block holds a connection exactly while it works,  *)
(* and the setting of a connection is that of the block that holds it, or  *)
(* none: that is what keeps blocks apart that use a connection in turn.    *)
(***************************************************************************)
Working(s) == sess[s].pc \in {"set", "ready", "paging", "inserting"}

BlocksOK ==
  \A s \in Sessions :
    /\ Working(s) <=> sess[s].conn # None
    /\ sess[s].pc = "ended" <=> sess[s].outcome # None
    /\ sess[s].pc = "idle" => sess[s].made = {} /\ sess[s].page = NoPage
    /\ sess[s].pc \in {"idle", "set"} => sess[s].made = {}
    /\ sess[s].pc = "inserting" => sess[s].wants \in Rows

SettingsOK ==
  /\ \A s \in Sessions : sess[s].conn # None =>
       setting[sess[s].conn] = IF sess[s].pc = "set" THEN None ELSE sess[s].workspace
  /\ \A c \in Connections : (\A s \in Sessions : sess[s].conn # c) => setting[c] = None

\* What a block knows of exists, so that its workspace cannot change any more.
KnownRows ==
  \A s \in Sessions :
    /\ \A i \in sess[s].page.rows \cup sess[s].made : fate[i] # "unused"
    /\ sess[s].snap # None => \A i \in sess[s].snap : fate[i] # "unused"

\* A row that waits for a commit was made by one working block.
MadeOK ==
  /\ \A s, t \in Sessions : s # t => sess[s].made \cap sess[t].made = {}
  /\ \A i \in Ids : fate[i] = "pending" => \E s \in Sessions : i \in sess[s].made /\ Working(s)
  /\ \A s \in Sessions : \A i \in sess[s].made :
       /\ Working(s) => fate[i] = "pending"
       /\ sess[s].outcome \in {"returned", "unheard"} => fate[i] \in {"committed", "removed"}
       /\ sess[s].outcome = "raised" => fate[i] = "undone"
       /\ sess[s].kind # "query_session"

\* Keys are unique among all rows that are committed or may be.
KeysOK == \A i, j \in Referring : i # j => ~SameKey(rows[i], rows[j])

\* A row has its parents among those its own commit finds.
ParentsOK ==
  /\ \A i \in Live, col \in Columns : ParentHolds(rows[i], col, Live)
  /\ \A s \in Sessions : \A i \in Pending(s), col \in Columns :
       ParentHolds(rows[i], col, Live \cup Pending(s))

IInv == /\ TypeOK /\ BlocksOK /\ SettingsOK /\ KnownRows /\ OwnWorkspaceOnly
        /\ MadeOK /\ KeysOK /\ ParentsOK

-----------------------------------------------------------------------------
LEMMA InitIInv == Init => IInv
<1> SUFFICES ASSUME Init PROVE IInv
  OBVIOUS
<1>1. TypeOK
  <2>1. NoPage \in Pages
    BY DEF NoPage, Pages
  <2>2. NoSession \in Blocks
    BY <2>1 DEF NoSession, Blocks
  <2>3. NoSession.conn = None
    BY DEF NoSession
  <2> QED
    BY <2>2, <2>3 DEF Init, TypeOK, Fates
<1> USE RepositoryAssumption DEF Init, NoSession, NoPage
<1>2. BlocksOK /\ SettingsOK /\ KnownRows /\ OwnWorkspaceOnly
  BY DEF BlocksOK, Working, SettingsOK, KnownRows, OwnWorkspaceOnly
<1>3. MadeOK
  BY DEF MadeOK, Working
<1>4. KeysOK /\ ParentsOK
  BY DEF KeysOK, Referring, ParentsOK, Live, Pending
<1> QED
  BY <1>1, <1>2, <1>3, <1>4 DEF IInv

\* A step that changes neither rows nor fates, nor what any block has made, keeps all
\* that is said of the tables.
LEMMA TablesKept ==
  ASSUME IInv, UNCHANGED <<rows, fate>>, sess' \in [Sessions -> Blocks],
         \A s \in Sessions : sess'[s].made = sess[s].made
  PROVE  KeysOK' /\ ParentsOK'
<1>1. Live' = Live /\ Referring' = Referring /\ \A s \in Sessions : Pending(s)' = Pending(s)
  BY DEF Live, Referring, Pending
<1>2. KeysOK'
  BY <1>1 DEF IInv, KeysOK, SameKey
<1>3. ParentsOK'
  BY <1>1 DEF IInv, ParentsOK, ParentHolds
<1> QED
  BY <1>2, <1>3

LEMMA BlockChange ==
  ASSUME sess \in [Sessions -> Blocks], NEW s \in Sessions, NEW b \in Blocks,
         sess' = [sess EXCEPT ![s] = b]
  PROVE  /\ sess' \in [Sessions -> Blocks] /\ sess'[s] = b
         /\ \A t \in Sessions \ {s} : sess'[t] = sess[t]
  OBVIOUS

LEMMA EnterIInv ==
  ASSUME IInv, NEW s \in Sessions, NEW kind \in Kinds, NEW workspace \in Workspaces \cup {None},
         Enter(s, kind, workspace)
  PROVE  IInv'
<1> DEFINE old == sess[s]
           b == sess'[s]
<1>1. /\ old.pc = "idle" /\ old.conn = None /\ old.made = {} /\ old.page = NoPage
      /\ old.outcome = None /\ old \in Blocks /\ sess \in [Sessions -> Blocks]
      /\ UNCHANGED <<rows, fate, setting>> /\ (kind = "session") = (workspace = None)
  BY DEF Enter, IInv, TypeOK, BlocksOK, Working
<1>2. /\ sess' \in [Sessions -> Blocks] /\ UNCHANGED <<rows, fate, setting>>
      /\ \A t \in Sessions \ {s} : sess'[t] = sess[t]
      /\ b.made = {} /\ b.page = NoPage /\ b.snap = old.snap
      /\ b.kind = kind /\ b.workspace = workspace
      /\ \/ /\ b.conn \in Connections /\ \A t \in Sessions : sess[t].conn # b.conn
            /\ b.pc = (IF kind = "session" THEN "ready" ELSE "set") /\ b.outcome = None
         \/ b.pc = "ended" /\ b.conn = None /\ b.outcome = "raised"
  <2>1. ASSUME NEW c \in Connections, \A t \in Sessions : sess[t].conn # c,
               sess' = [sess EXCEPT ![s] = [@ EXCEPT !.pc = IF kind = "session" THEN "ready" ELSE "set",
                                              !.kind = kind, !.workspace = workspace, !.conn = c]]
        PROVE  <1>2
    <3> DEFINE X == [old EXCEPT !.pc = IF kind = "session" THEN "ready" ELSE "set",
                                !.kind = kind, !.workspace = workspace, !.conn = c]
    <3>1. /\ X \in Blocks /\ X.made = old.made /\ X.page = old.page /\ X.snap = old.snap
          /\ X.kind = kind /\ X.workspace = workspace /\ X.conn = c /\ X.outcome = old.outcome
          /\ X.pc = IF kind = "session" THEN "ready" ELSE "set"
      BY <1>1 DEF Blocks
    <3>2. sess' = [sess EXCEPT ![s] = X]
      BY <2>1
    <3> HIDE DEF X
    <3>3. sess' \in [Sessions -> Blocks] /\ b = X /\ \A t \in Sessions \ {s} : sess'[t] = sess[t]
      BY <1>1, <3>1, <3>2, BlockChange
    <3> QED
      BY <1>1, <2>1, <3>1, <3>3
  <2>2. ASSUME sess' = [sess EXCEPT ![s] = [@ EXCEPT !.pc = "ended", !.kind = kind,
                                              !.workspace = workspace, !.outcome = "raised"]]
        PROVE  <1>2
    <3> DEFINE X == [old EXCEPT !.pc = "ended", !.kind = kind, !.workspace = workspace,
                                !.outcome = "raised"]
    <3>1. /\ X \in Blocks /\ X.made = old.made /\ X.page = old.page /\ X.snap = old.snap
          /\ X.kind = kind /\ X.workspace = workspace /\ X.conn = old.conn /\ X.outcome = "raised"
          /\ X.pc = "ended"
      BY <1>1 DEF Blocks
    <3>2. sess' = [sess EXCEPT ![s] = X]
      BY <2>2
    <3> HIDE DEF X
    <3>3. sess' \in [Sessions -> Blocks] /\ b = X /\ \A t \in Sessions \ {s} : sess'[t] = sess[t]
      BY <1>1, <3>1, <3>2, BlockChange
    <3> QED
      BY <1>1, <2>2, <3>1, <3>3
  <2> QED
    BY <2>1, <2>2 DEF Enter
<1>4. TypeOK'
  BY <1>1, <1>2, RepositoryAssumption DEF IInv, TypeOK
<1>5. BlocksOK'
  BY <1>1, <1>2, RepositoryAssumption DEF IInv, BlocksOK, Working
<1>6. SettingsOK'
  <2>1. ASSUME NEW t \in Sessions, sess'[t].conn # None
        PROVE  setting'[sess'[t].conn] = IF sess'[t].pc = "set" THEN None ELSE sess'[t].workspace
    <3>1. CASE t = s
      BY <1>1, <1>2, <2>1, <3>1 DEF IInv, SettingsOK
    <3>2. CASE t # s
      BY <1>2, <2>1, <3>2 DEF IInv, SettingsOK
    <3> QED
      BY <3>1, <3>2
  <2>2. ASSUME NEW c \in Connections, \A t \in Sessions : sess'[t].conn # c PROVE setting'[c] = None
    <3>1. \A t \in Sessions : sess[t].conn # c
      BY <1>1, <1>2, <2>2, RepositoryAssumption
    <3> QED
      BY <1>2, <3>1 DEF IInv, SettingsOK
  <2> QED
    BY <2>1, <2>2 DEF SettingsOK
<1>7. KnownRows' /\ OwnWorkspaceOnly'
  BY <1>1, <1>2 DEF IInv, KnownRows, OwnWorkspaceOnly, NoPage
<1>8. MadeOK'
  <2>1. \A t \in Sessions : sess'[t].made = sess[t].made
    BY <1>1, <1>2
  <2>2. \A t \in Sessions : t # s => (Working(t)' <=> Working(t))
    BY <1>2 DEF Working
  <2> QED
    BY <1>1, <1>2, <2>1, <2>2 DEF IInv, MadeOK
<1>9. KeysOK' /\ ParentsOK'
  BY <1>1, <1>2, TablesKept
<1> QED
  BY <1>4, <1>5, <1>6, <1>7, <1>8, <1>9 DEF IInv

LEMMA SnapshotTaken ==
  ASSUME NEW b \in Blocks, NEW seen \in (SUBSET Ids) \cup {None}
  PROVE  [b EXCEPT !.pc = "ready", !.snap = seen] \in Blocks
  BY DEF Blocks

LEMMA SetWorkspaceIInv ==
  ASSUME IInv, NEW s \in Sessions, SetWorkspace(s) PROVE IInv'
<1> DEFINE old == sess[s]
           b == sess'[s]
           seen == IF old.kind = "query_session" THEN Live ELSE None
           X == [old EXCEPT !.pc = "ready", !.snap = seen]
<1>1. /\ old.pc = "set" /\ old.conn \in Connections /\ old.made = {} /\ old.outcome = None
      /\ old \in Blocks /\ sess \in [Sessions -> Blocks] /\ old.workspace \in Workspaces \cup {None}
  BY DEF SetWorkspace, IInv, TypeOK, Blocks, BlocksOK, Working
<1>2. /\ sess' \in [Sessions -> Blocks] /\ UNCHANGED <<rows, fate>>
      /\ \A t \in Sessions \ {s} : sess'[t] = sess[t]
      /\ b.pc = "ready" /\ b.outcome = None /\ b.conn = old.conn /\ b.workspace = old.workspace
      /\ b.made = {} /\ b.page = old.page /\ b.kind = old.kind /\ b.snap \in {None, Live}
  <2>1. X \in Blocks
    <3>1. seen \in (SUBSET Ids) \cup {None}
      BY DEF Live
    <3> HIDE DEF seen
    <3> QED
      BY <1>1, <3>1, SnapshotTaken
  <2>2. /\ X.pc = "ready" /\ X.outcome = old.outcome /\ X.conn = old.conn
        /\ X.workspace = old.workspace /\ X.made = old.made /\ X.page = old.page
        /\ X.kind = old.kind /\ X.snap \in {None, Live}
    BY <1>1 DEF Blocks
  <2>3. sess' = [sess EXCEPT ![s] = X] /\ UNCHANGED <<rows, fate>>
    BY DEF SetWorkspace
  <2> HIDE DEF X
  <2> QED
    BY <1>1, <2>1, <2>2, <2>3, BlockChange
<1>3. /\ setting' \in [Connections -> Workspaces \cup {None}]
      /\ setting'[sess[s].conn] = sess[s].workspace
      /\ \A c \in Connections : c # sess[s].conn => setting'[c] = setting[c]
  BY <1>1 DEF SetWorkspace, IInv, TypeOK
<1>4. TypeOK'
  BY <1>2, <1>3 DEF IInv, TypeOK
<1>5. BlocksOK'
  BY <1>1, <1>2 DEF IInv, BlocksOK, Working
<1>6. SettingsOK'
  <2>1. ASSUME NEW t \in Sessions, sess'[t].conn # None
        PROVE  setting'[sess'[t].conn] = IF sess'[t].pc = "set" THEN None ELSE sess'[t].workspace
    <3>1. CASE t = s
      BY <1>2, <1>3, <3>1
    <3>2. CASE t # s
      <4>1. sess[t].conn \in Connections /\ sess[t].conn # sess[s].conn
        BY <1>1, <1>2, <2>1, <3>2, RepositoryAssumption DEF IInv, TypeOK, Blocks
      <4> QED
        BY <1>2, <1>3, <2>1, <3>2, <4>1 DEF IInv, SettingsOK
    <3> QED
      BY <3>1, <3>2
  <2>2. ASSUME NEW c \in Connections, \A t \in Sessions : sess'[t].conn # c PROVE setting'[c] = None
    <3>1. \A t \in Sessions : sess[t].conn # c
      BY <1>2, <2>2
    <3> QED
      BY <1>3, <3>1 DEF IInv, SettingsOK
  <2> QED
    BY <2>1, <2>2 DEF SettingsOK
<1>7. KnownRows' /\ OwnWorkspaceOnly'
  BY <1>1, <1>2 DEF IInv, KnownRows, OwnWorkspaceOnly, Live
<1>8. MadeOK'
  <2>1. \A t \in Sessions : sess'[t].made = sess[t].made
    BY <1>1, <1>2
  <2>2. \A t \in Sessions : Working(t)' <=> Working(t)
    BY <1>1, <1>2 DEF Working
  <2> QED
    BY <1>1, <1>2, <2>1, <2>2 DEF IInv, MadeOK
<1>9. KeysOK' /\ ParentsOK'
  BY <1>1, <1>2, TablesKept
<1> QED
  BY <1>4, <1>5, <1>6, <1>7, <1>8, <1>9 DEF IInv

\* A statement of a block that changes no table: only the block's page, or what it wants.
LEMMA StatementIInv ==
  ASSUME IInv, NEW s \in Sessions, sess[s].pc \in {"ready", "paging"}, UNCHANGED <<rows, fate, setting>>,
         NEW X \in Blocks, sess' = [sess EXCEPT ![s] = X], X.pc \in {"ready", "paging", "inserting"},
         X.kind = sess[s].kind, X.workspace = sess[s].workspace, X.conn = sess[s].conn,
         X.snap = sess[s].snap, X.made = sess[s].made, X.outcome = sess[s].outcome,
         X.pc = "inserting" => X.wants \in Rows,
         \A i \in X.page.rows : fate[i] # "unused" /\ rows[i].workspace = sess[s].workspace
  PROVE  IInv'
<1>1. /\ sess' \in [Sessions -> Blocks] /\ sess'[s] = X
      /\ \A t \in Sessions \ {s} : sess'[t] = sess[t]
  BY BlockChange DEF IInv, TypeOK
<1>2. \A t \in Sessions : /\ sess'[t].made = sess[t].made /\ sess'[t].conn = sess[t].conn
                          /\ sess'[t].kind = sess[t].kind /\ sess'[t].workspace = sess[t].workspace
                          /\ sess'[t].snap = sess[t].snap /\ sess'[t].outcome = sess[t].outcome
                          /\ Working(t)' <=> Working(t)
  BY <1>1 DEF Working
<1>3. TypeOK'
  BY <1>1, <1>2 DEF IInv, TypeOK
<1>4. BlocksOK'
  <2>1. ASSUME NEW t \in Sessions, t # s
        PROVE  sess'[t].page = sess[t].page /\ sess'[t].pc = sess[t].pc /\ sess'[t].wants = sess[t].wants
    BY <1>1, <2>1
  <2> QED
    BY <1>1, <1>2, <2>1 DEF IInv, BlocksOK
<1>5. SettingsOK'
  <2>1. \A t \in Sessions : sess'[t].pc = "set" <=> sess[t].pc = "set"
    BY <1>1
  <2> QED
    BY <1>2, <2>1 DEF IInv, SettingsOK
<1>6. KnownRows' /\ OwnWorkspaceOnly'
  BY <1>1, <1>2 DEF IInv, KnownRows, OwnWorkspaceOnly
<1>7. MadeOK'
  BY <1>2 DEF IInv, MadeOK
<1>8. KeysOK' /\ ParentsOK'
  BY <1>1, <1>2, TablesKept
<1> QED
  BY <1>3, <1>4, <1>5, <1>6, <1>7, <1>8 DEF IInv

\* Row security: a statement finds rows of the block's own workspace.
LEMMA SelectedOwn ==
  ASSUME IInv, NEW s \in Sessions, sess[s].pc \in {"ready", "paging"}, NEW q
  PROVE  /\ Selected(s, q) \subseteq Ids
         /\ \A i \in Selected(s, q) : fate[i] # "unused" /\ rows[i].workspace = sess[s].workspace
         /\ Cardinality(Counted(s, q)) \in Nat
<1>1. setting[sess[s].conn] = sess[s].workspace
  BY DEF IInv, BlocksOK, Working, SettingsOK
<1>2. sess[s].made \subseteq Ids /\ (sess[s].snap # None => sess[s].snap \subseteq Ids)
  BY DEF IInv, TypeOK, Blocks
<1>3. \A i \in Visible(s) : i \in Ids /\ fate[i] # "unused" /\ rows[i].workspace = sess[s].workspace
  BY <1>1, <1>2 DEF Visible, Live, Pending, IInv, KnownRows
<1>4. Selected(s, q) \subseteq Visible(s)
  BY DEF Selected
<1>5. Cardinality(Counted(s, q)) \in Nat
  BY <1>3, <1>4, RepositoryAssumption, FS_Subset, FS_CardinalityType DEF Counted
<1> QED
  BY <1>3, <1>4, <1>5

LEMMA PagesFilled ==
  ASSUME IInv, NEW s \in Sessions, sess[s].pc \in {"ready", "paging"}, NEW q \in Queries \cup {None},
         NEW page \in Pages
  PROVE  /\ ListedRows(s, q, page) \in Pages /\ CountedTotal(s, q, page) \in Pages
         /\ ListedRows(s, q, page).rows \subseteq Selected(s, q)
         /\ CountedTotal(s, q, page).rows = page.rows
<1>1. Selected(s, q) \subseteq Ids /\ Cardinality(Counted(s, q)) \in Nat
  BY SelectedOwn
<1>2. PageOf(Selected(s, q), q.offset) \subseteq Selected(s, q)
  BY DEF PageOf
<1>3. ListedRows(s, q, page) \in Pages /\ ListedRows(s, q, page).rows \subseteq Selected(s, q)
  BY <1>1, <1>2 DEF ListedRows, Pages
<1>4. CountedTotal(s, q, page) \in Pages /\ CountedTotal(s, q, page).rows = page.rows
  BY <1>1 DEF CountedTotal, Pages
<1> QED
  BY <1>3, <1>4

LEMMA BeginPageIInv ==
  ASSUME IInv, NEW s \in Sessions, NEW q \in Queries, BeginPage(s, q) PROVE IInv'
<1> DEFINE blank == [NoPage EXCEPT !.query = q]
           page == IF RowsFirst(q) THEN ListedRows(s, q, blank) ELSE CountedTotal(s, q, blank)
           X == [sess[s] EXCEPT !.pc = "paging", !.page = page]
<1>1. sess[s].pc = "ready" /\ sess[s] \in Blocks /\ UNCHANGED <<rows, fate, setting>>
  BY DEF BeginPage, IInv, TypeOK
<1>2. blank \in Pages /\ blank.rows = {}
  BY DEF NoPage, Pages
<1>3. sess' = [sess EXCEPT ![s] = X]
  BY DEF BeginPage
<1> HIDE DEF blank
<1>4. page \in Pages /\ \A i \in page.rows : fate[i] # "unused" /\ rows[i].workspace = sess[s].workspace
  BY <1>1, <1>2, PagesFilled, SelectedOwn
<1> HIDE DEF page
<1>5. /\ X \in Blocks /\ X.pc = "paging" /\ X.page = page /\ X.kind = sess[s].kind
      /\ X.workspace = sess[s].workspace /\ X.conn = sess[s].conn /\ X.snap = sess[s].snap
      /\ X.made = sess[s].made /\ X.outcome = sess[s].outcome
  BY <1>1, <1>4 DEF Blocks
<1> HIDE DEF X
<1> QED
  BY <1>1, <1>3, <1>4, <1>5, StatementIInv

LEMMA EndPageIInv ==
  ASSUME IInv, NEW s \in Sessions, EndPage(s) PROVE IInv'
<1> DEFINE old == sess[s].page
           q == old.query
           page == IF RowsFirst(q) THEN CountedTotal(s, q, old) ELSE ListedRows(s, q, old)
           X == [sess[s] EXCEPT !.pc = "ready", !.page = page]
<1>1. sess[s].pc = "paging" /\ sess[s] \in Blocks /\ UNCHANGED <<rows, fate, setting>>
  BY DEF EndPage, IInv, TypeOK
<1>2. /\ old \in Pages /\ q \in Queries \cup {None}
      /\ \A i \in old.rows : fate[i] # "unused" /\ rows[i].workspace = sess[s].workspace
  BY <1>1 DEF Blocks, Pages, IInv, KnownRows, OwnWorkspaceOnly
<1>3. sess' = [sess EXCEPT ![s] = X]
  BY DEF EndPage
<1> HIDE DEF q
<1>4. page \in Pages /\ \A i \in page.rows : fate[i] # "unused" /\ rows[i].workspace = sess[s].workspace
  BY <1>1, <1>2, PagesFilled, SelectedOwn
<1> HIDE DEF page
<1>5. /\ X \in Blocks /\ X.pc = "ready" /\ X.page = page /\ X.kind = sess[s].kind
      /\ X.workspace = sess[s].workspace /\ X.conn = sess[s].conn /\ X.snap = sess[s].snap
      /\ X.made = sess[s].made /\ X.outcome = sess[s].outcome
  BY <1>1, <1>4 DEF Blocks
<1> HIDE DEF X
<1> QED
  BY <1>1, <1>3, <1>4, <1>5, StatementIInv

LEMMA CreateIInv ==
  ASSUME IInv, NEW s \in Sessions, NEW row \in Rows, Create(s, row) PROVE IInv'
<1> DEFINE X == [sess[s] EXCEPT !.pc = "inserting", !.wants = row, !.page = NoPage]
<1>1. sess[s].pc = "ready" /\ sess[s] \in Blocks /\ UNCHANGED <<rows, fate, setting>>
  BY DEF Create, IInv, TypeOK
<1>2. sess' = [sess EXCEPT ![s] = X]
  BY DEF Create
<1>3. NoPage \in Pages /\ NoPage.rows = {}
  BY DEF NoPage, Pages
<1>4. /\ X \in Blocks /\ X.pc = "inserting" /\ X.page = NoPage /\ X.kind = sess[s].kind
      /\ X.workspace = sess[s].workspace /\ X.conn = sess[s].conn /\ X.snap = sess[s].snap
      /\ X.made = sess[s].made /\ X.outcome = sess[s].outcome /\ X.wants = row
  BY <1>1, <1>3 DEF Blocks
<1> HIDE DEF X
<1> QED
  BY <1>1, <1>2, <1>3, <1>4, StatementIInv

LEMMA LeaveIInv ==
  ASSUME IInv, NEW s \in Sessions, sess[s].conn # None, NEW outcome, NEW to,
         \/ outcome \in {"returned", "unheard"} /\ to = "committed"
         \/ outcome = "raised" /\ to = "undone",
         Leave(s, outcome, to)
  PROVE  IInv'
<1> DEFINE old == sess[s]
           X == [old EXCEPT !.pc = "ended", !.conn = None, !.snap = None, !.wants = None,
                            !.page = NoPage, !.outcome = outcome]
<1>1. /\ Working(s) /\ old \in Blocks /\ old.conn \in Connections /\ old.made \subseteq Ids
      /\ UNCHANGED rows
  BY DEF IInv, TypeOK, Blocks, BlocksOK, Leave
<1>2. /\ X \in Blocks /\ X.pc = "ended" /\ X.conn = None /\ X.snap = None /\ X.page = NoPage
      /\ X.outcome = outcome /\ X.kind = old.kind /\ X.workspace = old.workspace /\ X.made = old.made
  <2>1. NoPage \in Pages
    BY DEF NoPage, Pages
  <2> QED
    BY <1>1, <2>1 DEF Blocks
<1>3. sess' = [sess EXCEPT ![s] = X]
  BY DEF Leave
<1> HIDE DEF X
<1>4. sess' \in [Sessions -> Blocks] /\ sess'[s] = X /\ \A t \in Sessions \ {s} : sess'[t] = sess[t]
  BY <1>2, <1>3, BlockChange DEF IInv, TypeOK
<1>5. /\ fate' \in [Ids -> Fates]
      /\ \A i \in Ids : fate'[i] = IF i \in old.made THEN to ELSE fate[i]
      /\ \A i \in old.made : fate[i] = "pending"
  <2>1. \A i \in old.made : fate[i] = "pending"
    BY <1>1 DEF IInv, MadeOK
  <2> QED
    BY <1>1, <2>1 DEF Leave, Pending, Fates, IInv, TypeOK
<1>6. /\ setting' \in [Connections -> Workspaces \cup {None}] /\ setting'[old.conn] = None
      /\ \A c \in Connections : c # old.conn => setting'[c] = setting[c]
  BY <1>1 DEF Leave, AfterTransaction, IInv, TypeOK
<1>7. \A i \in Ids : fate'[i] # "unused" <=> fate[i] # "unused"
  BY <1>5
<1>8. TypeOK'
  BY <1>1, <1>2, <1>4, <1>5, <1>6, <1>7 DEF IInv, TypeOK
<1>9. BlocksOK'
  BY <1>1, <1>2, <1>4, RepositoryAssumption DEF IInv, BlocksOK, Working
<1>10. SettingsOK'
  <2>1. ASSUME NEW t \in Sessions, sess'[t].conn # None
        PROVE  setting'[sess'[t].conn] = IF sess'[t].pc = "set" THEN None ELSE sess'[t].workspace
    <3>1. t # s /\ sess'[t] = sess[t]
      BY <1>2, <1>4, <2>1
    <3>2. sess[t].conn \in Connections /\ sess[t].conn # old.conn
      BY <2>1, <3>1, RepositoryAssumption DEF IInv, TypeOK, Blocks
    <3> QED
      BY <1>6, <2>1, <3>1, <3>2 DEF IInv, SettingsOK
  <2>2. ASSUME NEW c \in Connections, \A t \in Sessions : sess'[t].conn # c PROVE setting'[c] = None
    <3>1. c # old.conn => \A t \in Sessions : sess[t].conn # c
      BY <1>4, <2>2
    <3> QED
      BY <1>6, <3>1 DEF IInv, SettingsOK
  <2> QED
    BY <2>1, <2>2 DEF SettingsOK
<1>11. KnownRows' /\ OwnWorkspaceOnly'
  <2>1. NoPage.rows = {}
    BY DEF NoPage
  <2>2. \A t \in Sessions : /\ sess[t].made \subseteq Ids /\ sess[t].page.rows \subseteq Ids
                            /\ sess[t].snap # None => sess[t].snap \subseteq Ids
    BY DEF IInv, TypeOK, Blocks, Pages
  <2> QED
    BY <1>1, <1>2, <1>4, <1>7, <2>1, <2>2 DEF IInv, KnownRows, OwnWorkspaceOnly
<1>12. MadeOK'
  <2>1. \A t \in Sessions : sess'[t].made = sess[t].made /\ sess'[t].kind = sess[t].kind
    BY <1>2, <1>4
  <2>2. \A t \in Sessions : t # s => (Working(t)' <=> Working(t)) /\ sess'[t].outcome = sess[t].outcome
    BY <1>4 DEF Working
  <2>3. ~Working(s)' /\ sess'[s].outcome = outcome
    BY <1>2, <1>4 DEF Working
  <2>4. \A t \in Sessions : sess[t].made \subseteq Ids
    BY DEF IInv, TypeOK, Blocks
  <2>5. \A t \in Sessions : \A i \in sess[t].made : t # s => fate'[i] = fate[i]
    BY <1>5, <2>4 DEF IInv, MadeOK
  <2>6. ASSUME NEW i \in Ids, fate'[i] = "pending"
        PROVE  \E t \in Sessions : i \in sess'[t].made /\ Working(t)'
    <3>1. i \notin old.made /\ fate[i] = "pending"
      BY <1>5, <2>6
    <3>2. PICK t \in Sessions : i \in sess[t].made /\ Working(t)
      BY <3>1 DEF IInv, MadeOK
    <3> QED
      BY <2>1, <2>2, <3>1, <3>2
  <2>7. ASSUME NEW t \in Sessions, NEW i \in sess'[t].made
        PROVE  /\ Working(t)' => fate'[i] = "pending"
               /\ sess'[t].outcome \in {"returned", "unheard"} => fate'[i] \in {"committed", "removed"}
               /\ sess'[t].outcome = "raised" => fate'[i] = "undone"
               /\ sess'[t].kind # "query_session"
    <3>1. CASE t = s
      BY <1>5, <2>1, <2>3, <2>4, <2>7, <3>1 DEF IInv, MadeOK
    <3>2. CASE t # s
      BY <2>1, <2>2, <2>5, <2>7, <3>2 DEF IInv, MadeOK
    <3> QED
      BY <3>1, <3>2
  <2>8. \A t, u \in Sessions : t # u => sess'[t].made \cap sess'[u].made = {}
    BY <2>1 DEF IInv, MadeOK
  <2> QED
    BY <2>6, <2>7, <2>8 DEF MadeOK
<1>13. KeysOK'
  <2>1. Referring' \subseteq Referring
    BY <1>5 DEF Referring
  <2> QED
    BY <1>1, <2>1 DEF IInv, KeysOK, SameKey
<1>14. ParentsOK'
  <2>1. Pending(s)' = {} /\ \A t \in Sessions : t # s => Pending(t)' = Pending(t)
    <3>1. \A t \in Sessions : sess'[t].made = sess[t].made /\ sess[t].made \subseteq Ids
      BY <1>2, <1>4 DEF IInv, TypeOK, Blocks
    <3>2. \A t \in Sessions : t # s => \A i \in sess[t].made : i \notin old.made
      BY DEF IInv, MadeOK
    <3> QED
      BY <1>5, <3>1, <3>2 DEF Pending
  <2>2. Live \subseteq Live'
    BY <1>5 DEF Live
  <2>3. Live' \subseteq Live \cup Pending(s) /\ (Live' # Live => Pending(s) \subseteq Live')
    BY <1>1, <1>5 DEF Live, Pending
  <2>4. ASSUME NEW i \in Live', NEW col \in Columns PROVE ParentHolds(rows[i], col, Live)' 
    <3>1. CASE i \in Live
      <4>1. ParentHolds(rows[i], col, Live)
        BY <3>1 DEF IInv, ParentsOK
      <4> QED
        BY <1>1, <2>2, <4>1 DEF ParentHolds
    <3>2. CASE i \notin Live
      <4>1. i \in Pending(s) /\ Live \cup Pending(s) \subseteq Live'
        BY <2>2, <2>3, <2>4, <3>2
      <4>2. ParentHolds(rows[i], col, Live \cup Pending(s))
        BY <4>1 DEF IInv, ParentsOK
      <4> QED
        BY <1>1, <4>1, <4>2 DEF ParentHolds
    <3> QED
      BY <3>1, <3>2
  <2>5. ASSUME NEW t \in Sessions, NEW i \in Pending(t)', NEW col \in Columns
        PROVE  ParentHolds(rows[i], col, Live \cup Pending(t))'
    <3>1. t # s /\ Pending(t)' = Pending(t)
      BY <2>1, <2>5
    <3>2. ParentHolds(rows[i], col, Live \cup Pending(t))
      BY <2>5, <3>1 DEF IInv, ParentsOK
    <3> QED
      BY <1>1, <2>2, <3>1, <3>2 DEF ParentHolds
  <2> QED
    BY <2>4, <2>5 DEF ParentsOK
<1> QED
  BY <1>8, <1>9, <1>10, <1>11, <1>12, <1>13, <1>14 DEF IInv

\* Of two rows with the same key the second waits for the first, or fails.
LEMMA NoDuplicate ==
  ASSUME IInv, NEW s \in Sessions, sess[s].pc = "inserting", \A t \in Sessions : ~WaitsFor(s, t),
         ~Duplicates(sess[s].wants, Live \cup Pending(s))
  PROVE  \A j \in Referring : ~SameKey(rows[j], sess[s].wants)
<1> SUFFICES ASSUME NEW j \in Referring, SameKey(rows[j], sess[s].wants) PROVE FALSE
  OBVIOUS
<1>1. j \in Ids /\ fate[j] = "pending"
  BY DEF Duplicates, Referring, Live
<1>2. PICK t \in Sessions : j \in sess[t].made
  BY <1>1 DEF IInv, MadeOK
<1>3. j \in Pending(t)
  BY <1>1, <1>2 DEF Pending
<1>4. t # s
  BY <1>3 DEF Duplicates
<1> QED
  BY <1>3, <1>4 DEF WaitsFor, Duplicates

LEMMA InsertedIInv ==
  ASSUME IInv, NEW s \in Sessions, sess[s].pc = "inserting", \A t \in Sessions : ~WaitsFor(s, t),
         NEW i \in Ids, fate[i] = "unused", Allowed(s, sess[s].wants),
         rows' = [rows EXCEPT ![i] = sess[s].wants],
         fate' = [fate EXCEPT ![i] = "pending"],
         sess' = [sess EXCEPT ![s] = [@ EXCEPT !.pc = "ready", !.wants = None, !.made = sess[s].made \cup {i}]],
         UNCHANGED setting
  PROVE  IInv'
<1> DEFINE old == sess[s]
           row == old.wants
           X == [old EXCEPT !.pc = "ready", !.wants = None, !.made = sess[s].made \cup {i}]
<1>1. /\ Working(s) /\ old \in Blocks /\ old.made \subseteq Ids /\ row \in Rows /\ old.outcome = None
      /\ setting[old.conn] = old.workspace /\ old.conn # None
  <2>1. old \in Blocks /\ old.made \subseteq Ids
    BY DEF IInv, TypeOK, Blocks
  <2>2. Working(s) /\ old.conn # None /\ row \in Rows /\ old.outcome = None
    BY DEF IInv, BlocksOK, Working
  <2>3. setting[old.conn] = old.workspace
    BY <2>2 DEF IInv, SettingsOK
  <2> QED
    BY <2>1, <2>2, <2>3
<1>2. row.workspace = old.workspace /\ old.kind # "query_session"
  BY <1>1 DEF Allowed
<1>3. /\ X \in Blocks /\ X.pc = "ready" /\ X.made = old.made \cup {i} /\ X.conn = old.conn
      /\ X.snap = old.snap /\ X.page = old.page /\ X.outcome = old.outcome /\ X.kind = old.kind
      /\ X.workspace = old.workspace
  BY <1>1 DEF Blocks
<1>4. sess' = [sess EXCEPT ![s] = X]
  OBVIOUS
<1> HIDE DEF X
<1>5. sess' \in [Sessions -> Blocks] /\ sess'[s] = X /\ \A t \in Sessions \ {s} : sess'[t] = sess[t]
  BY <1>3, <1>4, BlockChange DEF IInv, TypeOK
<1>6. /\ rows' \in [Ids -> Rows \cup {None}] /\ rows'[i] = row
      /\ \A j \in Ids : j # i => rows'[j] = rows[j]
      /\ fate' \in [Ids -> Fates] /\ fate'[i] = "pending"
      /\ \A j \in Ids : j # i => fate'[j] = fate[j]
  BY <1>1 DEF IInv, TypeOK, Fates
<1>7. \A t \in Sessions : /\ sess[t].made \subseteq Ids /\ sess[t].page.rows \subseteq Ids
                          /\ sess[t].snap # None => sess[t].snap \subseteq Ids
  BY DEF IInv, TypeOK, Blocks, Pages
<1>8. \A t \in Sessions : /\ i \notin sess[t].made /\ i \notin sess[t].page.rows
                          /\ sess[t].snap # None => i \notin sess[t].snap
  BY DEF IInv, KnownRows
<1>9. \A t \in Sessions : /\ sess'[t].conn = sess[t].conn /\ sess'[t].kind = sess[t].kind
                          /\ sess'[t].workspace = sess[t].workspace /\ sess'[t].snap = sess[t].snap
                          /\ sess'[t].page = sess[t].page /\ sess'[t].outcome = sess[t].outcome
                          /\ sess'[t].made = IF t = s THEN old.made \cup {i} ELSE sess[t].made
                          /\ Working(t)' <=> Working(t)
  BY <1>1, <1>3, <1>5 DEF Working
<1>10. \A t \in Sessions : \A j \in sess[t].made \cup sess[t].page.rows :
         j # i /\ rows'[j] = rows[j] /\ fate'[j] = fate[j]
  BY <1>6, <1>7, <1>8
<1>11. \A t \in Sessions : sess[t].snap # None => \A j \in sess[t].snap : fate'[j] = fate[j]
  BY <1>6, <1>7, <1>8
<1>12. \A t \in Sessions : \A j \in sess'[t].made : (j = i /\ t = s) \/ j \in sess[t].made
  BY <1>9
<1>13. TypeOK'
  BY <1>1, <1>5, <1>6, <1>9 DEF IInv, TypeOK
<1>14. BlocksOK'
  <2>1. \A t \in Sessions : t # s => sess'[t] = sess[t]
    BY <1>5
  <2> QED
    BY <1>1, <1>3, <1>5, <1>9, <2>1 DEF IInv, BlocksOK
<1>15. SettingsOK'
  <2>1. \A t \in Sessions : sess'[t].pc = "set" <=> sess[t].pc = "set"
    BY <1>3, <1>5
  <2> QED
    BY <1>9, <2>1 DEF IInv, SettingsOK
<1>16. KnownRows'
  <2>1. \A t \in Sessions : \A j \in sess'[t].page.rows \cup sess'[t].made : fate'[j] # "unused"
    BY <1>6, <1>9, <1>10, <1>12 DEF IInv, KnownRows
  <2>2. \A t \in Sessions : sess'[t].snap # None => \A j \in sess'[t].snap : fate'[j] # "unused"
    BY <1>9, <1>11 DEF IInv, KnownRows
  <2> QED
    BY <2>1, <2>2 DEF KnownRows
<1>17. OwnWorkspaceOnly'
  <2> SUFFICES ASSUME NEW t \in Sessions, NEW j \in sess'[t].page.rows \cup sess'[t].made
               PROVE  rows'[j].workspace = sess'[t].workspace
    BY DEF OwnWorkspaceOnly
  <2>1. CASE j = i
    BY <1>2, <1>6, <1>8, <1>9, <2>1
  <2>2. CASE j # i
    BY <1>9, <1>10, <1>12, <2>2 DEF IInv, OwnWorkspaceOnly
  <2> QED
    BY <2>1, <2>2
<1>18. MadeOK'
  <2>1. \A t, u \in Sessions : t # u => sess'[t].made \cap sess'[u].made = {}
    BY <1>8, <1>9 DEF IInv, MadeOK
  <2>2. ASSUME NEW j \in Ids, fate'[j] = "pending"
        PROVE  \E t \in Sessions : j \in sess'[t].made /\ Working(t)'
    <3>1. CASE j = i
      BY <1>1, <1>9, <3>1
    <3>2. CASE j # i
      <4>1. PICK t \in Sessions : j \in sess[t].made /\ Working(t)
        BY <1>6, <2>2, <3>2 DEF IInv, MadeOK
      <4>2. j \in sess'[t].made /\ Working(t)'
        BY <1>9, <4>1
      <4> QED
        BY <4>2
    <3> QED
      BY <3>1, <3>2
  <2>3. ASSUME NEW t \in Sessions, NEW j \in sess'[t].made
        PROVE  /\ Working(t)' => fate'[j] = "pending"
               /\ sess'[t].outcome \in {"returned", "unheard"} => fate'[j] \in {"committed", "removed"}
               /\ sess'[t].outcome = "raised" => fate'[j] = "undone"
               /\ sess'[t].kind # "query_session"
    <3>1. CASE j = i
      <4>1. t = s
        BY <1>8, <1>9, <2>3, <3>1
      <4> QED
        BY <1>1, <1>2, <1>6, <1>9, <3>1, <4>1, RepositoryAssumption
    <3>2. CASE j # i
      <4>1. j \in sess[t].made /\ fate'[j] = fate[j]
        BY <1>10, <1>12, <2>3, <3>2
      <4> QED
        BY <1>9, <4>1 DEF IInv, MadeOK
    <3> QED
      BY <3>1, <3>2
  <2> QED
    BY <2>1, <2>2, <2>3 DEF MadeOK
<1>19. KeysOK'
  <2>1. \A j \in Referring : ~SameKey(rows[j], row)
    BY NoDuplicate DEF Allowed
  <2>2. \A j \in Referring' : j # i => j \in Referring /\ rows'[j] = rows[j]
    BY <1>6 DEF Referring
  <2>3. \A r1, r2 : SameKey(r1, r2) => SameKey(r2, r1)
    BY DEF SameKey
  <2>4. ASSUME NEW j \in Referring', NEW k \in Referring', j # k PROVE ~SameKey(rows'[j], rows'[k])
    <3>1. CASE j = i
      BY <1>6, <2>1, <2>2, <2>3, <2>4, <3>1
    <3>2. CASE k = i
      BY <1>6, <2>1, <2>2, <2>4, <3>2
    <3>3. CASE j # i /\ k # i
      BY <2>2, <2>4, <3>3 DEF IInv, KeysOK
    <3> QED
      BY <3>1, <3>2, <3>3
  <2> QED
    BY <2>4 DEF KeysOK, SameKey
<1>20. ParentsOK'
  <2>1. Live' = Live /\ i \notin Live /\ Live \subseteq Ids
    BY <1>6 DEF Live
  <2>2. \A t \in Sessions : Pending(t)' = IF t = s THEN Pending(s) \cup {i} ELSE Pending(t)
    BY <1>6, <1>7, <1>8, <1>9 DEF Pending
  <2>3. \A t \in Sessions : Pending(t) \subseteq Ids /\ i \notin Pending(t)
    BY <1>7, <1>8 DEF Pending
  <2>4. \A t \in Sessions : \A j \in Live \cup Pending(t) : rows'[j] = rows[j]
    BY <1>6, <2>1, <2>3
  <2>5. ASSUME NEW j \in Live', NEW col \in Columns PROVE ParentHolds(rows[j], col, Live)'
    <3>1. ParentHolds(rows[j], col, Live) /\ rows'[j] = rows[j]
      BY <2>1, <2>4, <2>5 DEF IInv, ParentsOK
    <3>2. \A k \in Live : rows'[k] = rows[k]
      BY <2>4
    <3> QED
      BY <2>1, <3>1, <3>2 DEF ParentHolds
  <2>6. ASSUME NEW t \in Sessions, NEW j \in Pending(t)', NEW col \in Columns
        PROVE  ParentHolds(rows[j], col, Live \cup Pending(t))'
    <3> DEFINE S == Live \cup Pending(t)
    <3>1. S \subseteq (Live \cup Pending(t))' /\ \A k \in S : rows'[k] = rows[k]
      BY <2>1, <2>2, <2>4
    <3>2. ParentHolds(rows'[j], col, S)
      <4>1. CASE j = i
        <5>1. t = s
          BY <2>2, <2>3, <2>6, <4>1
        <5> QED
          BY <1>6, <4>1, <5>1 DEF Allowed
      <4>2. CASE j # i
        <5>1. j \in Pending(t)
          BY <2>2, <2>6, <4>2
        <5> QED
          BY <2>4, <5>1 DEF IInv, ParentsOK
      <4> QED
        BY <4>1, <4>2
    <3> HIDE DEF S
    <3> QED
      BY <3>1, <3>2 DEF ParentHolds
  <2> QED
    BY <2>5, <2>6 DEF ParentsOK
<1> QED
  BY <1>13, <1>14, <1>15, <1>16, <1>17, <1>18, <1>19, <1>20 DEF IInv

LEMMA RollbackIInv ==
  ASSUME IInv, NEW s \in Sessions, sess[s].conn # None, Rollback(s) PROVE IInv'
  BY LeaveIInv DEF Rollback, Undone

LEMMA InsertIInv ==
  ASSUME IInv, NEW s \in Sessions, Insert(s) PROVE IInv'
<1>1. sess[s].pc = "inserting" /\ \A t \in Sessions : ~WaitsFor(s, t)
  BY DEF Insert
<1>2. PICK i \in Ids :
        /\ fate[i] = "unused"
        /\ IF Allowed(s, sess[s].wants)
           THEN /\ rows' = [rows EXCEPT ![i] = sess[s].wants]
                /\ fate' = [fate EXCEPT ![i] = "pending"]
                /\ sess' = [sess EXCEPT ![s] = [@ EXCEPT !.pc = "ready", !.wants = None,
                                                         !.made = sess[s].made \cup {i}]]
                /\ UNCHANGED setting
           ELSE Rollback(s)
  BY DEF Insert, Fresh
<1>3. CASE Allowed(s, sess[s].wants)
  BY <1>1, <1>2, <1>3, InsertedIInv
<1>4. CASE ~Allowed(s, sess[s].wants)
  <2>1. sess[s].conn # None
    BY <1>1 DEF IInv, BlocksOK, Working
  <2> QED
    BY <1>2, <1>4, <2>1, RollbackIInv
<1> QED
  BY <1>3, <1>4

LEMMA RemoveIInv ==
  ASSUME IInv, NEW i \in Ids, Remove(i) PROVE IInv'
<1>1. /\ fate[i] = "committed" /\ UNCHANGED <<rows, setting, sess>>
      /\ \A j \in Referring, col \in Columns : rows[j].refs[col] # i
      /\ fate' \in [Ids -> Fates] /\ fate'[i] = "removed"
      /\ \A j \in Ids : j # i => fate'[j] = fate[j]
  BY DEF Remove, IInv, TypeOK, Fates
<1>2. \A t \in Sessions : /\ sess[t].made \subseteq Ids /\ sess[t].page.rows \subseteq Ids
                          /\ sess[t].snap # None => sess[t].snap \subseteq Ids
  BY DEF IInv, TypeOK, Blocks, Pages
<1>3. \A j \in Ids : fate'[j] # "unused" <=> fate[j] # "unused"
  BY <1>1
<1>4. TypeOK' /\ BlocksOK' /\ SettingsOK' /\ OwnWorkspaceOnly'
  <2>1. TypeOK'
    BY <1>1, <1>3 DEF IInv, TypeOK
  <2>2. BlocksOK'
    BY <1>1 DEF IInv, BlocksOK, Working
  <2>3. SettingsOK'
    BY <1>1 DEF IInv, SettingsOK
  <2>4. OwnWorkspaceOnly'
    BY <1>1 DEF IInv, OwnWorkspaceOnly
  <2> QED
    BY <2>1, <2>2, <2>3, <2>4
<1>5. KnownRows'
  BY <1>1, <1>2, <1>3 DEF IInv, KnownRows
<1>6. MadeOK'
  <2>1. \A t \in Sessions : Working(t)' <=> Working(t)
    BY <1>1 DEF Working
  <2>2. ASSUME NEW t \in Sessions, NEW j \in sess[t].made
        PROVE  /\ Working(t) => fate'[j] = "pending"
               /\ sess[t].outcome \in {"returned", "unheard"} => fate'[j] \in {"committed", "removed"}
               /\ sess[t].outcome = "raised" => fate'[j] = "undone"
               /\ sess[t].kind # "query_session"
    <3>1. j \in Ids
      BY <1>2
    <3> QED
      BY <1>1, <3>1 DEF IInv, MadeOK
  <2> QED
    BY <1>1, <2>1, <2>2 DEF IInv, MadeOK
<1>7. KeysOK'
  <2>1. Referring' \subseteq Referring
    BY <1>1 DEF Referring
  <2> QED
    BY <1>1, <2>1 DEF IInv, KeysOK, SameKey
<1>8. ParentsOK'
  <2>1. Live' = Live \ {i}
    BY <1>1 DEF Live
  <2>2. \A t \in Sessions : Pending(t)' = Pending(t) /\ i \notin Pending(t) /\ Pending(t) \subseteq Referring
    BY <1>1, <1>2 DEF Pending, Referring
  <2>3. Live \subseteq Referring
    BY DEF Live, Referring
  <2>4. ASSUME NEW j \in Referring, NEW col \in Columns, NEW S, ParentHolds(rows[j], col, S)
        PROVE  ParentHolds(rows[j], col, S \ {i})
    BY <1>1, <2>4 DEF ParentHolds
  <2>5. ASSUME NEW j \in Live', NEW col \in Columns PROVE ParentHolds(rows[j], col, Live)'
    <3>1. ParentHolds(rows[j], col, Live \ {i})
      BY <2>1, <2>3, <2>4, <2>5 DEF IInv, ParentsOK
    <3> QED
      BY <1>1, <2>1, <3>1 DEF ParentHolds
  <2>6. ASSUME NEW t \in Sessions, NEW j \in Pending(t)', NEW col \in Columns
        PROVE  ParentHolds(rows[j], col, Live \cup Pending(t))'
    <3>1. ParentHolds(rows[j], col, (Live \cup Pending(t)) \ {i})
      BY <2>2, <2>4, <2>6 DEF IInv, ParentsOK
    <3> QED
      BY <1>1, <2>1, <2>2, <3>1 DEF ParentHolds
  <2> QED
    BY <2>5, <2>6 DEF ParentsOK
<1> QED
  BY <1>4, <1>5, <1>6, <1>7, <1>8 DEF IInv

LEMMA StutterIInv ==
  ASSUME IInv, UNCHANGED vars PROVE IInv'
<1>1. UNCHANGED <<rows, fate, setting, sess>>
  BY DEF vars
<1>2. TypeOK' /\ BlocksOK' /\ SettingsOK'
  BY <1>1 DEF IInv, TypeOK, BlocksOK, SettingsOK, Working
<1>3. KnownRows' /\ OwnWorkspaceOnly' /\ MadeOK'
  BY <1>1 DEF IInv, KnownRows, OwnWorkspaceOnly, MadeOK, Working
<1>4. KeysOK' /\ ParentsOK'
  BY <1>1, TablesKept DEF IInv, TypeOK
<1> QED
  BY <1>2, <1>3, <1>4 DEF IInv

LEMMA NextIInv == IInv /\ [Next]_vars => IInv'
<1> SUFFICES ASSUME IInv, [Next]_vars PROVE IInv'
  OBVIOUS
<1>1. CASE UNCHANGED vars
  BY <1>1, StutterIInv
<1>2. ASSUME NEW i \in Ids, Remove(i) PROVE IInv'
  BY <1>2, RemoveIInv
<1>3. ASSUME NEW s \in Sessions,
             AnyEnter(s) \/ AnyPage(s) \/ AnyCreate(s) \/ Step(s) \/ Raise(s) \/ CommitUnheard(s)
      PROVE  IInv'
  <2>1. sess[s].pc \in {"ready", "inserting"} => sess[s].conn # None
    BY DEF IInv, BlocksOK, Working
  <2>2. CASE AnyEnter(s)
    BY <2>2, EnterIInv DEF AnyEnter
  <2>3. CASE AnyPage(s)
    BY <2>3, BeginPageIInv DEF AnyPage
  <2>4. CASE AnyCreate(s)
    BY <2>4, CreateIInv DEF AnyCreate, Creatable
  <2>5. CASE SetWorkspace(s)
    BY <2>5, SetWorkspaceIInv
  <2>6. CASE EndPage(s)
    BY <2>6, EndPageIInv
  <2>7. CASE Insert(s)
    BY <2>7, InsertIInv
  <2>8. CASE DeadlockVictim(s)
    <3>1. sess[s].pc = "inserting" /\ Rollback(s)
      BY <2>8 DEF DeadlockVictim, Knot, WaitsFor
    <3> QED
      BY <2>1, <3>1, RollbackIInv
  <2>9. CASE Commit(s)
    BY <2>1, <2>9, LeaveIInv DEF Commit
  <2>10. CASE Raise(s)
    BY <2>10, RollbackIInv DEF Raise
  <2>11. CASE CommitUnheard(s)
    BY <2>1, <2>11, LeaveIInv DEF CommitUnheard
  <2> QED
    BY <1>3, <2>2, <2>3, <2>4, <2>5, <2>6, <2>7, <2>8, <2>9, <2>10, <2>11 DEF Step
<1> QED
  BY <1>1, <1>2, <1>3 DEF Next

LEMMA IInvAlways == Spec => []IInv
<1>1. Init => IInv
  BY InitIInv
<1>2. IInv /\ [Next]_vars => IInv'
  BY NextIInv
<1> QED
  BY <1>1, <1>2, PTL DEF Spec

-----------------------------------------------------------------------------
\* The variables keep their types, and the pool of app/database.py never gives one
\* connection to two blocks.
THEOREM TypeCorrect == Spec => []TypeOK
<1>1. IInv => TypeOK
  BY DEF IInv
<1> QED
  BY <1>1, IInvAlways, PTL

\* Whatever the repositories are asked for, a block of workspace_session or query_session
\* reads and writes rows of its own workspace, and a block of session none: on connections
\* that any number of blocks of other workspaces have used before it.
THEOREM IsolationCorrect == Spec => []OwnWorkspaceOnly
<1>1. IInv => OwnWorkspaceOnly
  BY DEF IInv
<1> QED
  BY <1>1, IInvAlways, PTL

\* Committed rows have unique codes and their parents, however many blocks create rows and
\* the owner's refresh removes them.
THEOREM ConstraintsCorrect == Spec => []ConstraintsHold
<1>1. IInv => ConstraintsHold
  <2> SUFFICES ASSUME IInv PROVE ConstraintsHold
    OBVIOUS
  <2>1. Live \subseteq Referring
    BY DEF Live, Referring
  <2> QED
    BY <2>1 DEF IInv, KeysOK, ParentsOK, ConstraintsHold
<1> QED
  BY <1>1, IInvAlways, PTL

\* What a block has created is committed as a whole or not at all, and a query_session
\* creates nothing.
THEOREM AtomicityCorrect == Spec => []BlockIsAllOrNothing
<1>1. IInv => BlockIsAllOrNothing
  <2> SUFFICES ASSUME IInv, NEW s \in Sessions
               PROVE  LET kept == {i \in sess[s].made : fate[i] \in {"committed", "removed"}}
                      IN  /\ sess[s].outcome \in {"returned", "unheard"} => kept = sess[s].made
                          /\ sess[s].outcome \in {None, "raised"} => kept = {}
                          /\ sess[s].kind = "query_session" => sess[s].made = {}
    BY DEF BlockIsAllOrNothing
  <2> DEFINE kept == {i \in sess[s].made : fate[i] \in {"committed", "removed"}}
  <2>1. sess[s].kind = "query_session" => sess[s].made = {}
    BY DEF IInv, MadeOK
  <2>2. sess[s].outcome \in {"returned", "unheard"} => kept = sess[s].made
    BY DEF IInv, MadeOK
  <2>3. sess[s].outcome = "raised" => kept = {}
    BY DEF IInv, MadeOK
  <2>4. sess[s].outcome = None => kept = {}
    <3>1. sess[s].outcome = None => Working(s) \/ sess[s].made = {}
      BY DEF IInv, TypeOK, Blocks, BlocksOK, Working
    <3>2. Working(s) => kept = {}
      BY DEF IInv, MadeOK
    <3> QED
      BY <3>1, <3>2
  <2> QED
    BY <2>1, <2>2, <2>3, <2>4
<1> QED
  BY <1>1, IInvAlways, PTL

-----------------------------------------------------------------------------
(***************************************************************************)
(* Pages.  The order of a page is total, so that the rank of a row, the    *)
(* number of rows before it, counts the rows from 0 on; and what the two   *)
(* statements of a page have read stays what they would read again, as     *)
(* long as a query_session has its snapshot.                               *)
(***************************************************************************)
LEMMA BeforeIsStrictOrder ==
  ASSUME NEW S \in SUBSET Ids, \A i \in S : rows[i] \in Rows
  PROVE  /\ \A i \in S : ~Before(i, i)
         /\ \A i, j \in S : i # j => Before(i, j) \/ Before(j, i)
         /\ \A i, j, k \in S : Before(i, j) /\ Before(j, k) => Before(i, k)
<1>1. S \subseteq Nat /\ \A i \in S : rows[i].code \in Nat
  BY RepositoryAssumption DEF Rows
<1> QED
  BY <1>1 DEF Before

\* As many rows have a rank on a page as there are places on it.
LEMMA PageCounts ==
  ASSUME NEW S \in SUBSET Ids, \A i \in S : rows[i] \in Rows, NEW offset \in Nat
  PROVE  Cardinality(PageOf(S, offset)) =
           Cardinality({n \in 0 .. Cardinality(S) - 1 : n \in offset .. offset + Limit - 1})
<1> DEFINE Below(i) == {j \in S : Before(j, i)}
           rank == [i \in S |-> Cardinality(Below(i))]
           N == Cardinality(S)
           places == {n \in 0 .. N - 1 : n \in offset .. offset + Limit - 1}
           P == PageOf(S, offset)
           place == [i \in P |-> Cardinality(Below(i))]
<1>1. IsFiniteSet(S) /\ N \in Nat
  BY RepositoryAssumption, FS_Subset, FS_CardinalityType
<1>2. ASSUME NEW i \in S PROVE IsFiniteSet(Below(i)) /\ Cardinality(Below(i)) \in 0 .. N - 1
  <2>1. Below(i) \in SUBSET S /\ Below(i) # S
    BY BeforeIsStrictOrder
  <2>2. /\ IsFiniteSet(Below(i)) /\ Cardinality(Below(i)) <= Cardinality(S)
        /\ Cardinality(S) = Cardinality(Below(i)) => S = Below(i)
    BY <1>1, <2>1, FS_Subset
  <2>3. Cardinality(Below(i)) \in Nat
    BY <2>2, FS_CardinalityType
  <2> HIDE DEF Below
  <2> QED
    BY <1>1, <2>1, <2>2, <2>3
<1>3. ASSUME NEW i \in S, NEW k \in S, Before(i, k) PROVE Cardinality(Below(i)) < Cardinality(Below(k))
  <2>1. Below(i) \in SUBSET Below(k) /\ i \in Below(k) /\ i \notin Below(i)
    BY <1>3, BeforeIsStrictOrder
  <2>2. /\ Cardinality(Below(i)) <= Cardinality(Below(k))
        /\ Cardinality(Below(k)) = Cardinality(Below(i)) => Below(k) = Below(i)
    BY <1>2, <2>1, FS_Subset
  <2> HIDE DEF Below
  <2>3. Cardinality(Below(i)) \in Nat /\ Cardinality(Below(k)) \in Nat
    BY <1>1, <1>2
  <2> QED
    BY <2>1, <2>2, <2>3
<1>4. \A i, k \in S : Cardinality(Below(i)) = Cardinality(Below(k)) => i = k
  <2> SUFFICES ASSUME NEW i \in S, NEW k \in S, i # k
               PROVE  Cardinality(Below(i)) # Cardinality(Below(k))
    OBVIOUS
  <2> HIDE DEF Below
  <2>1. Cardinality(Below(i)) \in Nat /\ Cardinality(Below(k)) \in Nat
    BY <1>1, <1>2
  <2>2. Before(i, k) \/ Before(k, i)
    BY BeforeIsStrictOrder
  <2> QED
    BY <1>3, <2>1, <2>2
<1>5. P = {i \in S : Cardinality(Below(i)) \in offset .. offset + Limit - 1}
  BY DEF PageOf
<1> HIDE DEF Below, P
<1>6. rank \in Injection(S, 0 .. N - 1)
  BY <1>2, <1>4 DEF Injection, IsInjective
<1>7. rank \in Surjection(S, 0 .. N - 1)
  <2>1. IsFiniteSet(0 .. N - 1) /\ Cardinality(0 .. N - 1) = N
    BY <1>1, FS_Interval
  <2> HIDE DEF rank
  <2> QED
    BY <1>6, <2>1, FS_Injection
<1>8. place \in Bijection(P, places)
  <2>1. P \subseteq S /\ \A i \in P : Cardinality(Below(i)) \in places
    BY <1>2, <1>5
  <2>2. place \in Injection(P, places)
    BY <1>4, <2>1 DEF Injection, IsInjective
  <2>3. ASSUME NEW n \in places PROVE \E i \in P : place[i] = n
    <3>1. PICK i \in S : rank[i] = n
      BY <1>7 DEF Surjection
    <3>2. i \in P
      BY <1>5, <3>1
    <3> QED
      BY <3>1, <3>2
  <2> HIDE DEF place, places
  <2>4. place \in Surjection(P, places)
    BY <2>2, <2>3 DEF Surjection, Injection
  <2> QED
    BY <2>2, <2>4 DEF Bijection
<1>9. IsFiniteSet(P)
  BY <1>1, <1>5, FS_Subset
<1> QED
  BY <1>8, <1>9, FS_Bijection DEF ExistsBijection, P

\* What the first statement of a page has read is there when the second one is sent, and a
\* page that is complete has the rows and the total of what was read.
PageOK(s) ==
  LET page == sess[s].page
      q == page.query
      listed == page.rows = PageOf(page.of, q.offset)
      counted == page.total = Cardinality(page.counted)
      query == sess[s].kind = "query_session"
  IN  /\ \A i \in page.of \cup page.counted : fate[i] # "unused"
      /\ IF sess[s].pc \in {"ready", "paging"} THEN query => sess[s].snap # None ELSE page = NoPage
      /\ sess[s].pc = "paging" =>
           /\ q \in Queries
           /\ RowsFirst(q) => page.total = None /\ listed /\ (query => page.of = Selected(s, q))
           /\ ~RowsFirst(q) => counted /\ (query => page.counted = Selected(s, q))
      /\ sess[s].pc = "ready" /\ page.total # None =>
           q \in Queries /\ listed /\ counted /\ (query => page.of = page.counted)

PagesOK == \A s \in Sessions : PageOK(s)

\* A row that is there stays as it is.
RowsKept == \A i \in Ids : fate[i] # "unused" => fate'[i] # "unused" /\ rows'[i] = rows[i]


LEMMA RowsAreKept == IInv /\ [Next]_vars => RowsKept
<1> SUFFICES ASSUME IInv, [Next]_vars PROVE RowsKept
  OBVIOUS
<1>1. rows \in [Ids -> Rows \cup {None}] /\ fate \in [Ids -> Fates]
  BY DEF IInv, TypeOK
<1>2. CASE UNCHANGED <<rows, fate>>
  BY <1>2 DEF RowsKept
<1>3. ASSUME NEW i \in Ids, Remove(i) PROVE RowsKept
  BY <1>1, <1>3 DEF Remove, RowsKept
<1>4. ASSUME NEW s \in Sessions, NEW outcome, NEW to \in {"committed", "undone"}, Leave(s, outcome, to)
      PROVE  RowsKept
  BY <1>1, <1>4 DEF Leave, RowsKept
<1>5. ASSUME NEW s \in Sessions, Insert(s) PROVE RowsKept
  <2>1. CASE Rollback(s)
    BY <1>4, <2>1 DEF Rollback, Undone
  <2>2. ASSUME NEW i \in Ids, Fresh(i), rows' = [rows EXCEPT ![i] = sess[s].wants],
               fate' = [fate EXCEPT ![i] = "pending"]
        PROVE  RowsKept
    BY <1>1, <2>2 DEF Fresh, RowsKept
  <2> QED
    BY <1>5, <2>1, <2>2 DEF Insert
<1>6. ASSUME NEW s \in Sessions,
             AnyEnter(s) \/ AnyPage(s) \/ AnyCreate(s) \/ Step(s) \/ Raise(s) \/ CommitUnheard(s)
      PROVE  RowsKept
  <2>1. AnyEnter(s) \/ AnyPage(s) \/ AnyCreate(s) \/ SetWorkspace(s) \/ EndPage(s)
          => UNCHANGED <<rows, fate>>
    BY DEF AnyEnter, Enter, AnyPage, BeginPage, AnyCreate, Creatable, Create, SetWorkspace, EndPage
  <2>2. DeadlockVictim(s) \/ Raise(s) => RowsKept
    BY <1>4 DEF DeadlockVictim, Raise, Rollback, Undone
  <2>3. Commit(s) \/ CommitUnheard(s) => RowsKept
    BY <1>4 DEF Commit, CommitUnheard
  <2> QED
    BY <1>2, <1>5, <1>6, <2>1, <2>2, <2>3 DEF Step
<1>7. UNCHANGED vars => UNCHANGED <<rows, fate>>
  BY DEF vars
<1> QED
  BY <1>2, <1>3, <1>6, <1>7 DEF Next

\* A page of rows that are there is the page of the same rows after any step.
LEMMA PageStays ==
  ASSUME TypeOK, RowsKept, NEW S \in SUBSET Ids, \A i \in S : fate[i] # "unused", NEW offset
  PROVE  PageOf(S, offset)' = PageOf(S, offset)
<1>1. \A i \in S : rows'[i] = rows[i]
  BY DEF RowsKept
<1>2. \A i \in S : \A j \in S : Before(j, i)' <=> Before(j, i)
  BY <1>1 DEF Before
<1>3. \A i \in S : {j \in S : Before(j, i)}' = {j \in S : Before(j, i)}
  BY <1>2
<1> QED
  BY <1>3 DEF PageOf

\* What a query_session selects is decided by its snapshot.
LEMMA SelectionStays ==
  ASSUME IInv, IInv', RowsKept, NEW s \in Sessions, NEW q,
         sess[s].pc \in {"ready", "paging"}, sess'[s].pc \in {"ready", "paging"},
         sess[s].snap # None, sess'[s].snap = sess[s].snap, sess'[s].workspace = sess[s].workspace
  PROVE  Selected(s, q)' = Selected(s, q)
<1> DEFINE snap == sess[s].snap
           W == sess[s].workspace
<1>1. setting[sess[s].conn] = W
  BY DEF IInv, BlocksOK, Working, SettingsOK
<1>2. (setting[sess[s].conn])' = W
  BY DEF IInv, BlocksOK, Working, SettingsOK
<1>3. snap \subseteq Ids /\ \A i \in snap : fate[i] # "unused"
  BY DEF IInv, TypeOK, Blocks, KnownRows
<1>4. \A i \in snap : rows'[i] = rows[i]
  BY <1>3 DEF RowsKept
<1>5. Visible(s) = {i \in snap : rows[i].workspace = W}
  BY <1>1 DEF Visible
<1>6. Visible(s)' = {i \in snap : rows'[i].workspace = W}
  BY <1>2 DEF Visible
<1>7. Visible(s)' = Visible(s) /\ Visible(s) \subseteq snap
  BY <1>4, <1>5, <1>6
<1> QED
  BY <1>4, <1>7 DEF Selected

\* A step of another block, or of the owner, leaves a page as it is.
LEMMA PageUntouched ==
  ASSUME IInv, IInv', RowsKept, NEW s \in Sessions, PageOK(s), sess'[s] = sess[s]
  PROVE  PageOK(s)'
<1> DEFINE page == sess[s].page
           q == page.query
<1>1. page.of \subseteq Ids /\ page.counted \subseteq Ids
  BY DEF IInv, TypeOK, Blocks, Pages
<1>2. \A i \in page.of \cup page.counted : fate[i] # "unused" /\ fate'[i] # "unused"
  BY <1>1 DEF PageOK, RowsKept
<1>3. PageOf(page.of, q.offset)' = PageOf(page.of, q.offset)
  <2>1. \A offset : PageOf(page.of, offset)' = PageOf(page.of, offset)
    BY <1>1, <1>2, PageStays DEF IInv
  <2> QED
    BY <2>1
<1>4. sess[s].kind = "query_session" /\ sess[s].pc = "paging" => Selected(s, q)' = Selected(s, q)
  BY SelectionStays DEF PageOK
<1> QED
  BY <1>2, <1>3, <1>4 DEF PageOK, RowsFirst

\* A block without a page has nothing to keep.
LEMMA NoPageOK ==
  ASSUME NEW s \in Sessions, sess'[s].page = NoPage, sess'[s].pc # "paging",
         sess'[s].pc = "ready" /\ sess'[s].kind = "query_session" => sess'[s].snap # None
  PROVE  PageOK(s)'
BY DEF PageOK, NoPage

LEMMA LeavePageOK ==
  ASSUME IInv, NEW s \in Sessions, NEW outcome, NEW to, Leave(s, outcome, to)
  PROVE  PageOK(s)' /\ \A t \in Sessions \ {s} : sess'[t] = sess[t]
<1> DEFINE X == [sess[s] EXCEPT !.pc = "ended", !.conn = None, !.snap = None, !.wants = None,
                                !.page = NoPage, !.outcome = outcome]
<1>1. sess[s] \in Blocks /\ sess \in [Sessions -> Blocks]
  BY DEF IInv, TypeOK
<1>2. X.page = NoPage /\ X.pc = "ended"
  BY <1>1 DEF Blocks
<1>3. sess' = [sess EXCEPT ![s] = X]
  BY DEF Leave
<1> HIDE DEF X
<1>4. sess'[s] = X /\ \A t \in Sessions \ {s} : sess'[t] = sess[t]
  BY <1>1, <1>3
<1> QED
  BY <1>2, <1>4, NoPageOK

LEMMA EnterPageOK ==
  ASSUME IInv, NEW s \in Sessions, AnyEnter(s)
  PROVE  PageOK(s)' /\ \A t \in Sessions \ {s} : sess'[t] = sess[t]
<1>1. PICK kind \in Kinds, workspace \in Workspaces \cup {None} : Enter(s, kind, workspace)
  BY DEF AnyEnter
<1>2. /\ sess[s].pc = "idle" /\ sess[s].page = NoPage /\ sess[s] \in Blocks
      /\ sess \in [Sessions -> Blocks]
  BY <1>1 DEF Enter, IInv, TypeOK, BlocksOK
<1> DEFINE Entered(X) == /\ sess' = [sess EXCEPT ![s] = X] /\ X.page = NoPage /\ X.kind = kind
                         /\ X.pc = "ended" \/ X.pc = IF kind = "session" THEN "ready" ELSE "set"
<1>3. \E X : Entered(X)
  <2>1. ASSUME NEW c, sess' = [sess EXCEPT ![s] = [@ EXCEPT !.pc = IF kind = "session" THEN "ready" ELSE "set",
                                                     !.kind = kind, !.workspace = workspace, !.conn = c]]
        PROVE  <1>3
    <3> DEFINE X == [sess[s] EXCEPT !.pc = IF kind = "session" THEN "ready" ELSE "set",
                                    !.kind = kind, !.workspace = workspace, !.conn = c]
    <3>1. X.page = NoPage /\ X.kind = kind /\ X.pc = IF kind = "session" THEN "ready" ELSE "set"
      BY <1>2 DEF Blocks
    <3> QED
      BY <2>1, <3>1
  <2>2. ASSUME sess' = [sess EXCEPT ![s] = [@ EXCEPT !.pc = "ended", !.kind = kind,
                                              !.workspace = workspace, !.outcome = "raised"]]
        PROVE  <1>3
    <3> DEFINE X == [sess[s] EXCEPT !.pc = "ended", !.kind = kind, !.workspace = workspace,
                                    !.outcome = "raised"]
    <3>1. X.page = NoPage /\ X.kind = kind /\ X.pc = "ended"
      BY <1>2 DEF Blocks
    <3> QED
      BY <2>2, <3>1
  <2> QED
    BY <1>1, <2>1, <2>2 DEF Enter
<1>4. PICK X : Entered(X)
  BY <1>3
<1>5. sess'[s] = X /\ \A t \in Sessions \ {s} : sess'[t] = sess[t]
  BY <1>2, <1>4
<1> QED
  BY <1>4, <1>5, NoPageOK

LEMMA SetWorkspacePageOK ==
  ASSUME IInv, NEW s \in Sessions, PageOK(s), SetWorkspace(s)
  PROVE  PageOK(s)' /\ \A t \in Sessions \ {s} : sess'[t] = sess[t]
<1> DEFINE X == [sess[s] EXCEPT !.pc = "ready",
                                !.snap = IF sess[s].kind = "query_session" THEN Live ELSE None]
<1>1. sess[s] \in Blocks /\ sess \in [Sessions -> Blocks] /\ sess[s].page = NoPage
  BY DEF IInv, TypeOK, SetWorkspace, PageOK
<1>2. /\ X.page = NoPage /\ X.pc = "ready" /\ X.kind = sess[s].kind
      /\ X.kind = "query_session" => X.snap = Live
  BY <1>1 DEF Blocks
<1>3. sess' = [sess EXCEPT ![s] = X]
  BY DEF SetWorkspace
<1> HIDE DEF X
<1>4. sess'[s] = X /\ \A t \in Sessions \ {s} : sess'[t] = sess[t]
  BY <1>1, <1>3
<1>5. Live # None
  BY RepositoryAssumption DEF Live
<1> QED
  BY <1>2, <1>4, <1>5, NoPageOK

LEMMA CreatePageOK ==
  ASSUME IInv, NEW s \in Sessions, AnyCreate(s)
  PROVE  PageOK(s)' /\ \A t \in Sessions \ {s} : sess'[t] = sess[t]
<1>1. PICK row \in Rows : Create(s, row)
  BY DEF AnyCreate, Creatable
<1> DEFINE X == [sess[s] EXCEPT !.pc = "inserting", !.wants = row, !.page = NoPage]
<1>2. sess[s] \in Blocks /\ sess \in [Sessions -> Blocks]
  BY DEF IInv, TypeOK
<1>3. X.page = NoPage /\ X.pc = "inserting"
  BY <1>2 DEF Blocks
<1>4. sess' = [sess EXCEPT ![s] = X]
  BY <1>1 DEF Create
<1> HIDE DEF X
<1>5. sess'[s] = X /\ \A t \in Sessions \ {s} : sess'[t] = sess[t]
  BY <1>2, <1>4
<1> QED
  BY <1>3, <1>5, NoPageOK

LEMMA InsertPageOK ==
  ASSUME IInv, NEW s \in Sessions, PageOK(s), Insert(s)
  PROVE  PageOK(s)' /\ \A t \in Sessions \ {s} : sess'[t] = sess[t]
<1>1. CASE Rollback(s)
  BY <1>1, LeavePageOK DEF Rollback
<1>2. ASSUME NEW i \in Ids, Allowed(s, sess[s].wants),
             sess' = [sess EXCEPT ![s] = [@ EXCEPT !.pc = "ready", !.wants = None,
                                                   !.made = sess[s].made \cup {i}]]
      PROVE  PageOK(s)' /\ \A t \in Sessions \ {s} : sess'[t] = sess[t]
  <2> DEFINE X == [sess[s] EXCEPT !.pc = "ready", !.wants = None, !.made = sess[s].made \cup {i}]
  <2>1. sess[s] \in Blocks /\ sess \in [Sessions -> Blocks] /\ sess[s].page = NoPage
    BY DEF IInv, TypeOK, Insert, PageOK
  <2>2. X.page = NoPage /\ X.pc = "ready" /\ X.kind = sess[s].kind
    BY <2>1 DEF Blocks
  <2>3. sess' = [sess EXCEPT ![s] = X]
    BY <1>2
  <2> HIDE DEF X
  <2>4. sess'[s] = X /\ \A t \in Sessions \ {s} : sess'[t] = sess[t]
    BY <2>1, <2>3
  <2>5. sess[s].kind # "query_session"
    BY <1>2 DEF Allowed
  <2> QED
    BY <2>2, <2>4, <2>5, NoPageOK
<1> QED
  BY <1>1, <1>2 DEF Insert


LEMMA BeginPagePageOK ==
  ASSUME IInv, IInv', RowsKept, NEW s \in Sessions, PageOK(s), NEW q \in Queries, BeginPage(s, q)
  PROVE  PageOK(s)' /\ \A t \in Sessions \ {s} : sess'[t] = sess[t]
<1> DEFINE blank == [NoPage EXCEPT !.query = q]
           page == IF RowsFirst(q) THEN ListedRows(s, q, blank) ELSE CountedTotal(s, q, blank)
           X == [sess[s] EXCEPT !.pc = "paging", !.page = page]
<1>0. PICK S : S = Selected(s, q)
  OBVIOUS
<1>1. sess[s].pc = "ready" /\ sess[s] \in Blocks /\ sess \in [Sessions -> Blocks]
  BY DEF BeginPage, IInv, TypeOK
<1>2. S \in SUBSET Ids /\ \A i \in S : fate[i] # "unused" /\ fate'[i] # "unused"
  BY <1>0, <1>1, SelectedOwn DEF RowsKept
<1>3. blank = [query |-> q, total |-> None, rows |-> {}, of |-> {}, counted |-> {}]
  BY DEF NoPage
<1>4. RowsFirst(q) => page = [query |-> q, total |-> None, rows |-> PageOf(S, q.offset), of |-> S, counted |-> {}]
  BY <1>0, <1>3 DEF ListedRows
<1>5. ~RowsFirst(q) => page = [query |-> q, total |-> Cardinality(S), rows |-> {}, of |-> {}, counted |-> S]
  BY <1>0, <1>3 DEF CountedTotal, Counted
<1>6. sess' = [sess EXCEPT ![s] = X]
  BY DEF BeginPage
<1> HIDE DEF page
<1>7. X.pc = "paging" /\ X.page = page /\ X.kind = sess[s].kind /\ X.snap = sess[s].snap /\ X.workspace = sess[s].workspace
  BY <1>1 DEF Blocks
<1> HIDE DEF X
<1>8. sess'[s] = X /\ \A t \in Sessions \ {s} : sess'[t] = sess[t]
  BY <1>1, <1>6
<1>9. sess[s].kind = "query_session" => sess[s].snap # None /\ Selected(s, q)' = S
  <2>1. sess[s].kind = "query_session" => sess[s].snap # None
    BY <1>1 DEF PageOK
  <2> QED
    BY <1>0, <1>1, <1>7, <1>8, <2>1, SelectionStays
<1>10. PageOf(S, q.offset)' = PageOf(S, q.offset)
  BY <1>2, PageStays DEF IInv
<1>11. /\ sess'[s].pc = "paging" /\ sess'[s].page = page /\ sess'[s].kind = sess[s].kind
       /\ sess'[s].snap = sess[s].snap
  BY <1>7, <1>8
<1>12. RowsFirst(q)' <=> RowsFirst(q)
  BY DEF RowsFirst
<1>13. CASE RowsFirst(q)
  <2>1. sess'[s].page = [query |-> q, total |-> None, rows |-> PageOf(S, q.offset), of |-> S, counted |-> {}]
    BY <1>4, <1>11, <1>13
  <2> QED
    BY <1>2, <1>8, <1>9, <1>10, <1>11, <1>12, <1>13, <2>1 DEF PageOK
<1>14. CASE ~RowsFirst(q)
  <2>1. sess'[s].page = [query |-> q, total |-> Cardinality(S), rows |-> {}, of |-> {}, counted |-> S]
    BY <1>5, <1>11, <1>14
  <2> QED
    BY <1>2, <1>8, <1>9, <1>11, <1>12, <1>14, <2>1 DEF PageOK
<1> QED
  BY <1>13, <1>14

LEMMA EndPagePageOK ==
  ASSUME IInv, IInv', RowsKept, NEW s \in Sessions, PageOK(s), EndPage(s)
  PROVE  PageOK(s)' /\ \A t \in Sessions \ {s} : sess'[t] = sess[t]
<1>0. PICK old, q, S : old = sess[s].page /\ q = old.query /\ S = Selected(s, q)
  OBVIOUS
<1> DEFINE page == IF RowsFirst(q) THEN CountedTotal(s, q, old) ELSE ListedRows(s, q, old)
           X == [sess[s] EXCEPT !.pc = "ready", !.page = page]
<1>1. /\ sess[s].pc = "paging" /\ sess[s] \in Blocks /\ sess \in [Sessions -> Blocks]
      /\ old \in Pages /\ q \in Queries
  BY <1>0 DEF EndPage, IInv, TypeOK, Blocks, PageOK
<1>2. S \in SUBSET Ids /\ \A i \in S : fate[i] # "unused" /\ fate'[i] # "unused"
  BY <1>0, <1>1, SelectedOwn DEF RowsKept
<1>3. /\ old.of \in SUBSET Ids /\ old.counted \in SUBSET Ids
      /\ \A i \in old.of \cup old.counted : fate[i] # "unused" /\ fate'[i] # "unused"
  BY <1>0, <1>1 DEF Pages, PageOK, RowsKept
<1>4. RowsFirst(q) => /\ page.query = q /\ page.rows = old.rows /\ page.of = old.of
                      /\ page.total = Cardinality(S) /\ page.counted = S
  BY <1>0, <1>1 DEF CountedTotal, Counted, Pages
<1>5. ~RowsFirst(q) => /\ page.query = q /\ page.total = old.total /\ page.counted = old.counted
                       /\ page.rows = PageOf(S, q.offset) /\ page.of = S
  BY <1>0, <1>1 DEF ListedRows, Pages
<1>6. sess' = [sess EXCEPT ![s] = X]
  BY <1>0 DEF EndPage
<1> HIDE DEF page
<1>7. X.pc = "ready" /\ X.page = page /\ X.kind = sess[s].kind /\ X.snap = sess[s].snap
  BY <1>1 DEF Blocks
<1> HIDE DEF X
<1>13. PICK new : new = page
  OBVIOUS
<1>8. /\ sess'[s] = X /\ \A t \in Sessions \ {s} : sess'[t] = sess[t]
      /\ sess'[s].pc = "ready" /\ sess'[s].page = new /\ sess'[s].kind = sess[s].kind
      /\ sess'[s].snap = sess[s].snap
  BY <1>1, <1>6, <1>7, <1>13
<1>9. sess[s].kind = "query_session" => sess[s].snap # None
  BY <1>1 DEF PageOK
<1>10. \A offset : /\ PageOf(S, offset)' = PageOf(S, offset)
                   /\ PageOf(old.of, offset)' = PageOf(old.of, offset)
  BY <1>2, <1>3, PageStays DEF IInv
<1>11. CASE RowsFirst(q)
  <2>1. old.rows = PageOf(old.of, q.offset) /\ (sess[s].kind = "query_session" => old.of = S)
    BY <1>0, <1>1, <1>11 DEF PageOK
  <2>2. new.rows = PageOf(new.of, q.offset)' /\ new.query = q
    BY <1>4, <1>10, <1>11, <1>13, <2>1
  <2> QED
    BY <1>1, <1>2, <1>3, <1>4, <1>8, <1>9, <1>11, <1>13, <2>1, <2>2 DEF PageOK, RowsFirst
<1>12. CASE ~RowsFirst(q)
  <2>1. old.total = Cardinality(old.counted) /\ (sess[s].kind = "query_session" => old.counted = S)
    BY <1>0, <1>1, <1>12 DEF PageOK
  <2>2. new.rows = PageOf(new.of, q.offset)' /\ new.query = q
    BY <1>5, <1>10, <1>12, <1>13
  <2> QED
    BY <1>1, <1>2, <1>3, <1>5, <1>8, <1>9, <1>12, <1>13, <2>1, <2>2 DEF PageOK, RowsFirst
<1> QED
  BY <1>11, <1>12

LEMMA StepPageOK ==
  ASSUME IInv, IInv', RowsKept, NEW s \in Sessions, PageOK(s),
         AnyEnter(s) \/ AnyPage(s) \/ AnyCreate(s) \/ Step(s) \/ Raise(s) \/ CommitUnheard(s)
  PROVE  PageOK(s)' /\ \A t \in Sessions \ {s} : sess'[t] = sess[t]
<1>1. CASE AnyPage(s)
  BY <1>1, BeginPagePageOK DEF AnyPage
<1>2. CASE EndPage(s)
  BY <1>2, EndPagePageOK
<1>3. CASE Commit(s) \/ CommitUnheard(s)
  BY <1>3, LeavePageOK DEF Commit, CommitUnheard
<1>4. CASE DeadlockVictim(s) \/ Raise(s)
  BY <1>4, LeavePageOK DEF DeadlockVictim, Raise, Rollback
<1> QED
  BY <1>1, <1>2, <1>3, <1>4, EnterPageOK, CreatePageOK, SetWorkspacePageOK, InsertPageOK DEF Step

LEMMA NextPagesOK == IInv /\ IInv' /\ PagesOK /\ [Next]_vars => PagesOK'
<1> SUFFICES ASSUME IInv, IInv', PagesOK, [Next]_vars PROVE PagesOK'
  OBVIOUS
<1>1. RowsKept
  BY RowsAreKept
<1>2. CASE UNCHANGED sess
  BY <1>1, <1>2, PageUntouched DEF PagesOK
<1>3. ASSUME NEW s \in Sessions,
             AnyEnter(s) \/ AnyPage(s) \/ AnyCreate(s) \/ Step(s) \/ Raise(s) \/ CommitUnheard(s)
      PROVE  PagesOK'
  <2>1. PageOK(s)' /\ \A t \in Sessions \ {s} : sess'[t] = sess[t]
    BY <1>1, <1>3, StepPageOK DEF PagesOK
  <2>2. \A t \in Sessions \ {s} : PageOK(t)'
    BY <1>1, <2>1, PageUntouched DEF PagesOK
  <2> QED
    BY <2>1, <2>2 DEF PagesOK
<1>4. (\E i \in Ids : Remove(i)) \/ UNCHANGED vars => UNCHANGED sess
  BY DEF Remove, vars
<1> QED
  BY <1>2, <1>3, <1>4 DEF Next

\* Outside a query_session a page may be read of two states of the tables; if not, it has
\* the rows its total says, and in a query_session it always has.
THEOREM PagesCorrect == Spec => []PageAddsUp
<1>1. Init => PagesOK
  <2> SUFFICES ASSUME Init, NEW s \in Sessions PROVE PageOK(s)
    BY DEF PagesOK
  <2>1. sess[s].pc = "idle" /\ sess[s].page = NoPage
    BY DEF Init, NoSession
  <2>2. NoPage.of = {} /\ NoPage.counted = {}
    BY DEF NoPage
  <2> QED
    BY <2>1, <2>2 DEF PageOK
<1>2. IInv /\ PagesOK => PageAddsUp
  <2> SUFFICES ASSUME IInv, PagesOK, NEW s \in Sessions, sess[s].pc = "ready", sess[s].page.total # None
               PROVE  LET page == sess[s].page
                      IN  /\ page.of = page.counted =>
                               Cardinality(page.rows) = Cardinality({n \in 0 .. page.total - 1 :
                                   n \in page.query.offset .. page.query.offset + Limit - 1})
                          /\ sess[s].kind = "query_session" => page.of = page.counted
    BY DEF PageAddsUp
  <2> DEFINE page == sess[s].page
  <2>1. /\ page.rows = PageOf(page.of, page.query.offset) /\ page.total = Cardinality(page.counted)
        /\ page.query.offset \in Nat /\ page.of \in SUBSET Ids
        /\ \A i \in page.of : rows[i] \in Rows
        /\ sess[s].kind = "query_session" => page.of = page.counted
    <3>1. page.query \in Queries /\ page.of \in SUBSET Ids /\ \A i \in page.of : fate[i] # "unused"
      BY DEF PagesOK, PageOK, IInv, TypeOK, Blocks, Pages
    <3>2. page.query.offset \in Nat /\ \A i \in page.of : rows[i] \in Rows
      BY <3>1, RepositoryAssumption DEF Queries, IInv, TypeOK
    <3> QED
      BY <3>1, <3>2 DEF PagesOK, PageOK
  <2> QED
    BY <2>1, PageCounts
<1> QED
  BY <1>1, <1>2, NextPagesOK, IInvAlways, PTL DEF Spec

-----------------------------------------------------------------------------
\* A block whose next statement has nobody to wait for, or which is at none.
GoesOn(s) == Working(s) /\ \A t \in Sessions : ~WaitsFor(s, t)

\* A block waits only for one that is still at work, never for what an ended one has left;
\* and as long as a block is at work, one can go on, or those that are at work wait for one
\* another, each of them a victim the deadlock detector may choose (Create, Insert and
\* DeadlockVictim).
NobodyWaitsInVain ==
  /\ \A s, t \in Sessions : WaitsFor(s, t) => Working(t)
  /\ (\E s \in Sessions : Working(s)) =>
       \/ \E s \in Sessions : GoesOn(s)
       \/ Knot({s \in Sessions : Working(s)})

\* Blocks that create the same keys never all wait for ever: the connection of a block that
\* has ended holds no row back, and a cycle of waits is one the detector finds, for any
\* number of blocks.
THEOREM WaitingCorrect == Spec => []NobodyWaitsInVain
<1>1. IInv => NobodyWaitsInVain
  <2> SUFFICES ASSUME IInv PROVE NobodyWaitsInVain
    OBVIOUS
  <2>1. ASSUME NEW s \in Sessions, NEW t \in Sessions, WaitsFor(s, t) PROVE Working(t)
    <3>1. PICK i \in Pending(t) : TRUE
      BY <2>1 DEF WaitsFor, Duplicates
    <3>2. i \in Ids /\ i \in sess[t].made /\ fate[i] = "pending"
      BY DEF Pending, IInv, TypeOK, Blocks
    <3>3. PICK u \in Sessions : i \in sess[u].made /\ Working(u)
      BY <3>2 DEF IInv, MadeOK
    <3> QED
      BY <3>2, <3>3 DEF IInv, MadeOK
  <2>2. ASSUME NEW s \in Sessions, Working(s), \A t \in Sessions : ~GoesOn(t)
        PROVE  Knot({t \in Sessions : Working(t)})
    <3>1. ASSUME NEW t \in Sessions, Working(t)
          PROVE  \E u \in {v \in Sessions : Working(v)} : WaitsFor(t, u)
      <4>1. PICK u \in Sessions : WaitsFor(t, u)
        BY <2>2, <3>1 DEF GoesOn
      <4> QED
        BY <2>1, <4>1
    <3> QED
      BY <2>2, <3>1 DEF Knot
  <2> QED
    BY <2>1, <2>2 DEF NobodyWaitsInVain
<1> QED
  BY <1>1, IInvAlways, PTL
=============================================================================

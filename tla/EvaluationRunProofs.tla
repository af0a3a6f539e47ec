------------------------- MODULE EvaluationRunProofs -------------------------
(***************************************************************************)
(* Proofs about EvaluationRun, for any number of processes, directories,   *)
(* cases and edits.  A process owns the directory it has made, and what is *)
(* in it follows from where the process is; a copy's report is of the      *)
(* process that wrote it, which has no more cases to ask.                  *)
(***************************************************************************)
EXTENDS EvaluationRun, FiniteSetTheorems, SequenceTheorems, TLAPS

(***************************************************************************)
(* The strengthening.  A process that has made a directory is the only one *)
(* that writes its run, cases, report and form, so that place by place the *)
(* directory holds what the process has; and the run that a report names   *)
(* is over its last case, so that a copy cannot fall behind it.            *)
(***************************************************************************)

\* A process after its last case.
Late(r) == runs[r].pc \in {"review", "exit", "over"}

\* What a process and the directory it has made are in, place by place.
OwnAt(r, p, own) ==
  LET rows == p.rows
      place == p.pc
  IN  /\ place = "idle" => p = NoRun
      /\ place \in Going => p.folder \in Folders /\ ~own.cut
      /\ p.folder # None => own.made
      /\ p.exit # None => place = "over"
      /\ place \in {"preflight", "begin"} =>
           rows = <<>> /\ own.run = None /\ own.cases = <<>> /\ own.report = None /\ own.review = None
      /\ place \in {"case", "record", "report"} => own.report = None /\ own.review = None
      /\ place = "case" => Len(rows) < Cases
      /\ place = "record" => Len(rows) \in 1..Cases
      /\ place \in {"report", "review", "exit"} => Len(rows) = Cases
      /\ place \in {"case", "report", "review", "exit"} /\ ~p.queries =>
           own.run = r /\ own.cases = rows
      /\ place = "record" /\ ~p.queries => own.run = r /\ rows = Append(own.cases, Last(rows))
      /\ p.folder # None /\ p.queries => own.run = None /\ own.review = None
      /\ place \in {"review", "exit"} => own.report \notin {None, Torn} /\ own.report.run = r
      /\ place = "review" => ~p.queries /\ p.report \in Reports
      /\ place = "exit" /\ ~p.queries => own.review # None
      /\ p.exit \in {0, 1} =>
           /\ p.folder \in Folders /\ own.report \notin {None, Torn} /\ own.report.run = r
           /\ Len(rows) = Cases /\ (~p.queries => own.review # None)
      /\ p.exit = 0 => \A i \in 1..Cases : Truly(rows[i])
      /\ p.exit = 1 => \E i \in 1..Cases : ~Truly(rows[i])

OwnOK(r) == OwnAt(r, runs[r], folders[runs[r].folder])

\* What a directory holds, whoever made it.
FolderOK(f) ==
  LET d == folders[f]
      r == d.report.run
  IN  /\ ~d.made => d = NoFolder
      /\ Written(f) =>
           /\ Late(r) /\ Len(runs[r].rows) = Cases
           /\ d.report.rows = runs[r].rows /\ d.report.fixtures = runs[r].fixtures
           /\ ~runs[r].queries => d.cases = d.report.rows
           /\ runs[r].queries => d.review = None
           /\ d.run # None => d.run = r
           /\ ~d.cut
      /\ d.run # None =>
           /\ runs[d.run].pc \notin {"idle", "preflight", "begin"} /\ ~runs[d.run].queries
           /\ runs[d.run].folder = f \/ Written(f)
           /\ IsPrefix(d.cases, runs[d.run].rows)
           /\ Len(runs[d.run].rows) <= Len(d.cases) + 1
           /\ d.cut => Len(runs[d.run].rows) = Len(d.cases) + 1

\* No two processes have one directory.
OwnersOK == \A r, s \in Runs : (r # s /\ runs[r].folder # None) => runs[r].folder # runs[s].folder

IInv == /\ TypeOK /\ OwnersOK
        /\ \A r \in Runs : OwnOK(r)
        /\ \A f \in Folders : FolderOK(f)

-----------------------------------------------------------------------------
LEMMA PrefixSelf ==
  ASSUME NEW S, NEW s \in Seq(S)
  PROVE  IsPrefix(s, s)
BY DEF IsPrefix

LEMMA PrefixAppend ==
  ASSUME NEW S, NEW s \in Seq(S), NEW x \in S
  PROVE  IsPrefix(s, Append(s, x))
<1>1. Append(s, x) \in Seq(S) /\ Len(s) <= Len(Append(s, x))
  BY AppendProperties
<1>2. SubSeq(s, 1, Len(s)) = s
  BY SubSeqFull
<1>3. SubSeq(Append(s, x), 1, Len(s)) = s
  BY <1>1
<1> QED
  BY <1>1, <1>2, <1>3 DEF IsPrefix

\* Reports and forms are neither missing nor torn.
LEMMA Papers ==
  /\ \A x \in Reports : x # None /\ x # Torn /\ x.run \in Runs
  /\ \A y \in Forms : y # None
BY RunAssumption DEF Reports, Forms, Torn

LEMMA InitIInv == Init => IInv
<1> SUFFICES ASSUME Init PROVE IInv
  OBVIOUS
<1>1. NoRun \in Processes /\ NoFolder \in Directories
  BY DEF NoRun, NoFolder, Processes, Directories
<1>2. TypeOK
  BY <1>1 DEF TypeOK, Init
<1>3. \A r \in Runs : OwnOK(r)
  BY RunAssumption DEF OwnOK, OwnAt, Init, NoRun, Going
<1>4. \A f \in Folders : FolderOK(f)
  BY DEF FolderOK, Init, NoFolder, Written
<1>5. OwnersOK
  BY DEF OwnersOK, Init, NoRun
<1> QED
  BY <1>2, <1>3, <1>4, <1>5 DEF IInv

LEMMA NoneApart == None \notin {0, 1, 2} /\ None \notin Runs /\ None \notin Folders
BY RunAssumption

\* Without a directory, a process has nothing to say of one.
LEMMA Homeless ==
  ASSUME NEW r, NEW p \in Processes, p.folder = None, NEW own, NEW other, OwnAt(r, p, own)
  PROVE  OwnAt(r, p, other)
<1>1. p.pc \notin Going /\ p.exit \notin {0, 1}
  BY NoneApart DEF OwnAt
<1>2. p.pc \in {"idle", "over"}
  BY <1>1 DEF Processes
<1> QED
  BY <1>1, <1>2 DEF OwnAt

\* A step of one process that owns a directory and changes nothing else: others' parts are
\* left alone, since a process in its directory is the only one there, and a report of this
\* one that has been copied was written after its last case.
LEMMA ProcessStep ==
  ASSUME IInv, UNCHANGED files,
         NEW r \in Runs, NEW p \in Processes, NEW f \in Folders, NEW d \in Directories,
         runs[r].folder = f, p.folder = f, p.queries = runs[r].queries, runs[r].pc # "idle",
         runs' = [runs EXCEPT ![r] = p], folders' = [folders EXCEPT ![f] = d],
         Late(r) => p.pc \in {"exit", "over"} /\ p.rows = runs[r].rows /\ p.fixtures = runs[r].fixtures,
         OwnOK(r)', FolderOK(f)'
  PROVE  IInv'
<1>1. TypeOK'
  BY DEF IInv, TypeOK, files
<1>2. runs'[r] = p /\ folders'[f] = d /\ (\A s \in Runs \ {r} : runs'[s] = runs[s])
      /\ \A g \in Folders \ {f} : folders'[g] = folders[g]
  BY DEF IInv, TypeOK
<1>3. OwnersOK'
  BY <1>2 DEF IInv, OwnersOK
<1>4. ASSUME NEW s \in Runs PROVE OwnOK(s)'
  <2>1. CASE s = r
    BY <2>1
  <2>2. CASE s # r /\ runs[s].folder \in Folders
    <3>1. runs[s].folder \in Folders \ {f}
      BY <2>2, RunAssumption DEF IInv, OwnersOK
    <3>2. folders'[runs'[s].folder] = folders[runs[s].folder] /\ runs'[s] = runs[s]
      BY <1>2, <2>2, <3>1
    <3> QED
      BY <3>2 DEF IInv, OwnOK
  <2>3. CASE s # r /\ runs[s].folder \notin Folders
    <3>1. runs[s] \in Processes /\ runs'[s] = runs[s]
      BY <1>2, <2>3 DEF IInv, TypeOK
    <3>2. runs[s].folder = None /\ OwnOK(s)
      BY <2>3, <3>1 DEF Processes, IInv
    <3> QED
      BY <3>1, <3>2, Homeless DEF OwnOK
  <2> QED
    BY <2>1, <2>2, <2>3
<1>5. ASSUME NEW g \in Folders PROVE FolderOK(g)'
  <2>1. CASE g = f
    BY <2>1
  <2>2. CASE g # f
    <3>1. folders'[g] = folders[g] /\ FolderOK(g) /\ folders[g] \in Directories
      BY <1>2, <2>2 DEF IInv, TypeOK
    <3>2. Written(g)' = Written(g)
      BY <3>1 DEF Written
    <3>3. Written(g) => folders[g].report.run \in Runs
      BY <3>1, Papers DEF Written, Directories
    <3>4. \A s \in Runs : Late(s) =>
            Late(s)' /\ runs'[s].rows = runs[s].rows /\ runs'[s].fixtures = runs[s].fixtures
            /\ runs'[s].queries = runs[s].queries
      BY <1>2 DEF Late
    <3>5. folders[g].run = r => Written(g)
      BY <3>1, <2>2, RunAssumption DEF FolderOK
    <3>6. folders[g].run # None => folders[g].run \in Runs
      BY <3>1 DEF Directories
    <3>7. Written(g) /\ folders[g].run # None => folders[g].run = folders[g].report.run
      BY <3>1 DEF FolderOK
    <3>8. ASSUME folders[g].run # None PROVE
            /\ runs'[folders[g].run].pc \notin {"idle", "preflight", "begin"}
            /\ runs'[folders[g].run].rows = runs[folders[g].run].rows
            /\ runs'[folders[g].run].queries = runs[folders[g].run].queries
            /\ runs'[folders[g].run].folder = runs[folders[g].run].folder
      <4>1. CASE folders[g].run = r
        <5>1. Late(r)
          BY <4>1, <3>1, <3>5, <3>7, <3>8 DEF FolderOK
        <5> QED
          BY <4>1, <5>1, <1>2
      <4>2. CASE folders[g].run # r
        BY <4>2, <3>1, <3>6, <3>8, <1>2 DEF FolderOK
      <4> QED
        BY <4>1, <4>2
    <3>9. ASSUME Written(g) PROVE
            LET s == folders[g].report.run
            IN  /\ Late(s)' /\ Len(runs'[s].rows) = Cases
                /\ folders[g].report.rows = runs'[s].rows /\ folders[g].report.fixtures = runs'[s].fixtures
                /\ ~runs'[s].queries => folders[g].cases = folders[g].report.rows
                /\ runs'[s].queries => folders[g].review = None
      <4>1. PICK s \in Runs : s = folders[g].report.run
        BY <3>3, <3>9
      <4>2. Late(s)
        BY <3>1, <3>9, <4>1 DEF FolderOK
      <4>3. Late(folders[g].report.run)'
        BY <3>1, <3>4, <4>1, <4>2 DEF Late
      <4> QED
        BY <3>1, <3>4, <3>9, <4>1, <4>2, <4>3 DEF FolderOK
    <3>10. /\ folders[g].made \/ folders[g] = NoFolder
           /\ folders[g].run # None =>
                /\ runs'[folders[g].run].pc \notin {"idle", "preflight", "begin"}
                /\ ~runs'[folders[g].run].queries
                /\ runs'[folders[g].run].folder = g \/ Written(g)
                /\ IsPrefix(folders[g].cases, runs'[folders[g].run].rows)
                /\ Len(runs'[folders[g].run].rows) <= Len(folders[g].cases) + 1
                /\ folders[g].cut => Len(runs'[folders[g].run].rows) = Len(folders[g].cases) + 1
      BY <3>1, <3>8 DEF FolderOK
    <3> QED
      BY <3>1, <3>2, <3>7, <3>9, <3>10 DEF FolderOK
  <2> QED
    BY <2>1, <2>2
<1> QED
  BY <1>1, <1>3, <1>4, <1>5 DEF IInv

\* A step of people that changes one directory.
LEMMA FolderStep ==
  ASSUME IInv, UNCHANGED <<files, runs>>, NEW g \in Folders, NEW d \in Directories,
         folders' = [folders EXCEPT ![g] = d], FolderOK(g)',
         \A r \in Runs : runs[r].folder = g => OwnOK(r)'
  PROVE  IInv'
<1>1. TypeOK' /\ OwnersOK'
  BY DEF IInv, TypeOK, OwnersOK, files
<1>2. \A h \in Folders \ {g} : folders'[h] = folders[h]
  BY DEF IInv, TypeOK
<1>3. ASSUME NEW r \in Runs PROVE OwnOK(r)'
  <2>1. CASE runs[r].folder = g
    BY <2>1
  <2>2. CASE runs[r].folder \in Folders \ {g}
    <3>1. folders'[runs'[r].folder] = folders[runs[r].folder] /\ OwnOK(r)
      BY <1>2, <2>2 DEF IInv
    <3> QED
      BY <3>1 DEF OwnOK
  <2>3. CASE runs[r].folder \notin Folders
    <3>1. runs[r] \in Processes /\ OwnOK(r)
      BY DEF IInv, TypeOK
    <3>2. runs[r].folder = None
      BY <2>3, <3>1 DEF Processes
    <3> QED
      BY <3>1, <3>2, Homeless DEF OwnOK
  <2> QED
    BY <2>1, <2>2, <2>3
<1>4. ASSUME NEW h \in Folders PROVE FolderOK(h)'
  <2>1. CASE h = g
    BY <2>1
  <2>2. CASE h # g
    <3>1. folders'[h] = folders[h] /\ FolderOK(h)
      BY <1>2, <2>2 DEF IInv
    <3> QED
      BY <3>1 DEF FolderOK, Written, Late
  <2> QED
    BY <2>1, <2>2
<1> QED
  BY <1>1, <1>3, <1>4 DEF IInv

-----------------------------------------------------------------------------
\* What the invariant says of a process at work.
LEMMA AtWork ==
  ASSUME IInv, NEW r \in Runs, runs[r].pc \in Going
  PROVE  /\ runs[r] \in Processes /\ runs[r].folder \in Folders /\ runs[r].folder # None
         /\ folders[runs[r].folder] \in Directories
         /\ OwnOK(r) /\ FolderOK(runs[r].folder)
         /\ runs[r].pc # "idle" /\ runs[r].pc # "over" /\ runs[r].exit = None
         /\ ~folders[runs[r].folder].cut
<1>1. runs[r] \in Processes /\ OwnOK(r)
  BY DEF IInv, TypeOK
<1>2. runs[r].folder \in Folders /\ runs[r].pc # "idle" /\ runs[r].pc # "over"
  BY <1>1 DEF OwnOK, OwnAt, Going
<1>3. runs[r].exit = None /\ ~folders[runs[r].folder].cut
  BY <1>1, <1>2 DEF OwnOK, OwnAt
<1> QED
  BY <1>1, <1>2, <1>3, NoneApart DEF IInv, TypeOK

LEMMA StartIInv ==
  ASSUME IInv, NEW r \in Runs, NEW f \in Folders, NEW queries \in BOOLEAN, Start(r, f, queries)
  PROVE  IInv'
<1>1. runs[r] = NoRun /\ runs[r] \in Processes /\ UNCHANGED files /\ runs[r].folder = None
  BY DEF Start, IInv, TypeOK, OwnOK, OwnAt, NoRun
<1>2. \A g \in Folders : folders[g].run # r /\ (Written(g) => folders[g].report.run # r)
  BY <1>1, RunAssumption DEF IInv, FolderOK, Late, NoRun
<1>3. CASE ~folders[f].made
  <2> DEFINE p == [runs[r] EXCEPT !.pc = "preflight", !.queries = queries, !.folder = f,
                                  !.code = code, !.fixtures = fixtures]
             d == [folders[f] EXCEPT !.made = TRUE]
  <2>1. runs' = [runs EXCEPT ![r] = p] /\ folders' = [folders EXCEPT ![f] = d]
    BY <1>3 DEF Start, Exclusive, IInv, TypeOK
  <2>2. p \in Processes /\ d \in Directories /\ folders[f] = NoFolder
    <3>1. folders[f] \in Directories /\ folders[f] = NoFolder /\ code \in Nat /\ fixtures \in Nat
      BY <1>3 DEF IInv, TypeOK, FolderOK
    <3>2. p \in Processes
      BY <1>1, <3>1 DEF Processes, Going
    <3>3. d \in Directories
      BY <3>1 DEF Directories
    <3> QED
      BY <3>1, <3>2, <3>3
  <2>3. /\ p.pc = "preflight" /\ p.folder = f /\ p.rows = <<>> /\ p.exit = None
        /\ d.made = TRUE /\ d.run = None /\ d.cases = <<>> /\ d.report = None /\ d.review = None
        /\ ~d.cut
    BY <1>1, <2>2 DEF NoRun, NoFolder
  <2> HIDE DEF p, d
  <2>4. /\ runs'[r] = p /\ folders'[f] = d /\ \A s \in Runs \ {r} : runs'[s] = runs[s]
        /\ \A g \in Folders \ {f} : folders'[g] = folders[g]
    BY <2>1 DEF IInv, TypeOK
  <2>5. \A s \in Runs : runs[s].folder # f
    BY <1>3, NoneApart DEF IInv, OwnOK, OwnAt
  <2>6. TypeOK'
    BY <1>1, <2>1, <2>2 DEF IInv, TypeOK, files
  <2>7. OwnersOK'
    <3> SUFFICES ASSUME NEW s \in Runs, NEW t \in Runs, s # t, runs'[s].folder # None
                 PROVE  runs'[s].folder # runs'[t].folder
      BY DEF OwnersOK
    <3> QED
      BY <2>3, <2>4, <2>5 DEF IInv, OwnersOK
  <2>8. ASSUME NEW s \in Runs PROVE OwnOK(s)'
    <3>1. CASE s = r
      BY <3>1, <2>3, <2>4, NoneApart DEF OwnOK, OwnAt, Going
    <3>2. CASE s # r /\ runs[s].folder \in Folders
      <4>1. folders'[runs'[s].folder] = folders[runs[s].folder] /\ runs'[s] = runs[s] /\ OwnOK(s)
        BY <2>4, <2>5, <3>2 DEF IInv
      <4> QED
        BY <4>1 DEF OwnOK
    <3>3. CASE s # r /\ runs[s].folder \notin Folders
      <4>1. runs[s] \in Processes /\ runs'[s] = runs[s] /\ OwnOK(s)
        BY <2>4, <3>3 DEF IInv, TypeOK
      <4>2. runs[s].folder = None
        BY <3>3, <4>1 DEF Processes
      <4> QED
        BY <4>1, <4>2, Homeless DEF OwnOK
    <3> QED
      BY <3>1, <3>2, <3>3
  <2>9. ASSUME NEW g \in Folders PROVE FolderOK(g)'
    <3>1. CASE g = f
      BY <3>1, <2>3, <2>4 DEF FolderOK, Written
    <3>2. CASE g # f
      <4>1. folders'[g] = folders[g] /\ FolderOK(g) /\ folders[g] \in Directories
        BY <2>4, <3>2 DEF IInv, TypeOK
      <4>2. Written(g) => folders[g].report.run \in Runs \ {r}
        BY <1>2, <4>1, Papers DEF Written, Directories
      <4>3. folders[g].run # None => folders[g].run \in Runs \ {r}
        BY <1>2, <4>1 DEF Directories
      <4>4. Written(g)' = Written(g)
        BY <4>1 DEF Written
      <4>5. Written(g) => (Late(folders[g].report.run)' = Late(folders[g].report.run))
        <5> SUFFICES ASSUME Written(g) PROVE Late(folders[g].report.run)' = Late(folders[g].report.run)
          OBVIOUS
        <5>1. folders'[g].report.run \in Runs \ {r} /\ folders'[g].report.run = folders[g].report.run
          BY <4>1, <4>2
        <5> QED
          BY <5>1, <2>4 DEF Late
      <4> QED
        BY <4>1, <4>2, <4>3, <4>4, <4>5, <2>4 DEF FolderOK
    <3> QED
      BY <3>1, <3>2
  <2> QED
    BY <2>6, <2>7, <2>8, <2>9 DEF IInv
<1>4. CASE folders[f].made
  <2> DEFINE p == [runs[r] EXCEPT !.pc = "over", !.exit = 2]
  <2>1. runs' = [runs EXCEPT ![r] = p] /\ folders' = folders
    BY <1>4 DEF Start, Exclusive, Fail, Exit, IInv, TypeOK
  <2>2. p \in Processes /\ p.pc = "over" /\ p.exit = 2 /\ p.folder = None /\ p.rows = <<>>
    <3>1. p \in Processes
      BY <1>1 DEF Processes
    <3>2. runs[r].folder = None /\ runs[r].rows = <<>>
      BY <1>1 DEF NoRun
    <3> QED
      BY <1>1, <3>1, <3>2 DEF Processes
  <2> HIDE DEF p
  <2>3. runs'[r] = p /\ \A s \in Runs \ {r} : runs'[s] = runs[s]
    BY <2>1 DEF IInv, TypeOK
  <2>4. TypeOK' /\ OwnersOK'
    BY <1>1, <2>1, <2>2, <2>3 DEF IInv, TypeOK, OwnersOK, files
  <2>5. ASSUME NEW s \in Runs PROVE OwnOK(s)'
    <3>1. CASE s = r
      BY <3>1, <2>2, <2>3 DEF OwnOK, OwnAt, Going
    <3>2. CASE s # r
      BY <3>2, <2>1, <2>3 DEF IInv, OwnOK, OwnAt
    <3> QED
      BY <3>1, <3>2
  <2>6. ASSUME NEW g \in Folders PROVE FolderOK(g)'
    <3>1. FolderOK(g) /\ folders[g] \in Directories /\ Written(g)' = Written(g)
      BY <2>1 DEF IInv, TypeOK, Written
    <3>2. Written(g) => folders[g].report.run \in Runs \ {r}
      BY <1>2, <3>1, Papers DEF Written, Directories
    <3>3. folders[g].run # None => folders[g].run \in Runs \ {r}
      BY <1>2, <3>1 DEF Directories
    <3>4. Written(g) => (Late(folders[g].report.run)' = Late(folders[g].report.run))
      <4> SUFFICES ASSUME Written(g) PROVE Late(folders[g].report.run)' = Late(folders[g].report.run)
        OBVIOUS
      <4>1. folders'[g].report.run \in Runs \ {r} /\ folders'[g].report.run = folders[g].report.run
        BY <2>1, <3>2
      <4> QED
        BY <4>1, <2>3 DEF Late
    <3> QED
      BY <2>1, <2>3, <3>1, <3>2, <3>3, <3>4 DEF FolderOK
  <2> QED
    BY <2>4, <2>5, <2>6 DEF IInv
<1> QED
  BY <1>3, <1>4

\* A process that only goes on to another place, or ends.
LEMMA PreflightIInv ==
  ASSUME IInv, NEW r \in Runs, Preflight(r)
  PROVE  IInv'
<1>1. runs[r].pc = "preflight" /\ runs[r].pc \in Going /\ UNCHANGED files /\ UNCHANGED folders
  BY DEF Preflight, Going
<1>owned. PICK f \in Folders : f = runs[r].folder
  BY <1>1, AtWork
<1> DEFINE p == IF baseline THEN [runs[r] EXCEPT !.pc = "begin"] ELSE [runs[r] EXCEPT !.pc = "over", !.exit = 2]
<1>2. runs' = [runs EXCEPT ![r] = p] /\ folders' = [folders EXCEPT ![f] = folders[f]]
  BY <1>owned, <1>1, AtWork DEF Preflight, To, Fail, Exit, IInv, TypeOK
<1>3. p \in Processes /\ p.folder = f /\ p.queries = runs[r].queries /\ p.rows = runs[r].rows
  BY <1>owned, <1>1, AtWork DEF Processes, Going
<1>4. runs'[r] = p
  BY <1>2 DEF IInv, TypeOK
<1>5. OwnOK(r)'
  <2>1. OwnOK(r) /\ runs[r].exit = None /\ f # None
    BY <1>owned, <1>1, AtWork
  <2>2. /\ p.rows = <<>> /\ folders[f].made /\ folders[f].run = None /\ folders[f].cases = <<>>
        /\ folders[f].report = None /\ folders[f].review = None /\ ~folders[f].cut
    BY <1>owned, <1>1, <1>3, <2>1, AtWork DEF OwnOK, OwnAt
  <2>3. (p.pc = "begin" /\ p.exit = None) \/ (p.pc = "over" /\ p.exit = 2)
    <3>1. runs[r] \in Processes
      BY <1>1, AtWork
    <3>2. CASE baseline
      BY <2>1, <3>1, <3>2 DEF Processes
    <3>3. CASE ~baseline
      BY <2>1, <3>1, <3>3 DEF Processes
    <3> QED
      BY <3>2, <3>3
  <2> HIDE DEF p
  <2>4. OwnAt(r, p, folders[f])
    BY <1>owned, <1>3, <2>2, <2>3, NoneApart DEF OwnAt, Going
  <2> QED
    BY <1>1, <1>3, <1>4, <2>4 DEF OwnOK
<1>6. FolderOK(f)'
  <2>1. folders'[f] = folders[f] /\ folders[f].run = None /\ folders[f].report = None /\ folders[f].made
    BY <1>owned, <1>1, AtWork, NoneApart DEF OwnOK, OwnAt
  <2> QED
    BY <2>1 DEF FolderOK, Written
<1>7. ~Late(r) /\ f \in Folders /\ folders[f] \in Directories
  BY <1>owned, <1>1, AtWork DEF Late
<1> HIDE DEF p
<1> QED
  BY <1>owned, <1>1, <1>2, <1>3, <1>5, <1>6, <1>7, ProcessStep

LEMMA BeginIInv ==
  ASSUME IInv, NEW r \in Runs, Begin(r)
  PROVE  IInv'
<1>1. runs[r].pc = "begin" /\ runs[r].pc \in Going /\ UNCHANGED files
  BY DEF Begin, Going
<1>owned. PICK f \in Folders : f = runs[r].folder
  BY <1>1, AtWork
<1> DEFINE p == [runs[r] EXCEPT !.pc = "case"]
           d == IF runs[r].queries THEN folders[f] ELSE [folders[f] EXCEPT !.run = r]
<1>2. /\ folders[f].run = None /\ folders[f].cases = <<>> /\ folders[f].report = None
      /\ folders[f].review = None /\ folders[f].made /\ runs[r].rows = <<>> /\ ~folders[f].cut
  BY <1>owned, <1>1, AtWork, RunAssumption DEF OwnOK, OwnAt
<1>3. runs' = [runs EXCEPT ![r] = p] /\ folders' = [folders EXCEPT ![f] = d]
  BY <1>owned, <1>1, <1>2, AtWork DEF Begin, To, IInv, TypeOK, QueryRuns, Exclusive
<1>4. p \in Processes /\ p.folder = f /\ p.queries = runs[r].queries /\ p.rows = <<>> /\ p.pc = "case"
      /\ p.exit = None
  BY <1>owned, <1>1, <1>2, AtWork DEF Processes, Going
<1>5. /\ d \in Directories /\ d.made /\ d.report = None /\ d.review = None /\ d.cases = <<>> /\ ~d.cut
      /\ d.run = IF runs[r].queries THEN None ELSE r
  BY <1>owned, <1>2, <1>1, AtWork DEF Directories
<1>6. runs'[r] = p /\ folders'[f] = d /\ f \in Folders /\ r # None
  BY <1>owned, <1>1, <1>3, AtWork, NoneApart DEF IInv, TypeOK
<1> HIDE DEF p, d
<1>7. OwnOK(r)'
  <2>1. Len(<<>>) < Cases
    BY RunAssumption
  <2> QED
    BY <1>4, <1>5, <1>6, <2>1, NoneApart DEF OwnOK, OwnAt, Going
<1>8. FolderOK(f)'
  <2>1. IsPrefix(<<>>, <<>>)
    BY DEF IsPrefix
  <2> QED
    BY <1>4, <1>5, <1>6, <2>1, RunAssumption DEF FolderOK, Written
<1>9. ~Late(r)
  BY <1>1 DEF Late
<1> QED
  BY <1>owned, <1>1, <1>3, <1>4, <1>5, <1>6, <1>7, <1>8, <1>9, ProcessStep

LEMMA AskCaseIInv ==
  ASSUME IInv, NEW r \in Runs, AskCase(r)
  PROVE  IInv'
<1>1. runs[r].pc = "case" /\ runs[r].pc \in Going /\ UNCHANGED files /\ UNCHANGED folders
  BY DEF AskCase, Going
<1>owned. PICK f \in Folders : f = runs[r].folder
  BY <1>1, AtWork
<1>2. PICK plan \in Plans :
        runs' = [runs EXCEPT ![r].pc = "record", ![r].rows =
          Append(@, Row(plan, IF plan # "expected" THEN None ELSE IF baseline THEN "baseline" ELSE "changed"))]
  BY DEF AskCase
<1> DEFINE row == Row(plan, IF plan # "expected" THEN None ELSE IF baseline THEN "baseline" ELSE "changed")
           p == [runs[r] EXCEPT !.pc = "record", !.rows = Append(runs[r].rows, row)]
<1>3. row \in Rows
  BY DEF Row, Rows
<1>4. runs' = [runs EXCEPT ![r] = p] /\ folders' = [folders EXCEPT ![f] = folders[f]]
  BY <1>owned, <1>1, <1>2, AtWork DEF IInv, TypeOK
<1> HIDE DEF row
<1>5. /\ runs[r].rows \in Seq(Rows) /\ Len(runs[r].rows) < Cases /\ Len(runs[r].rows) \in Nat
      /\ folders[f].cases \in Seq(Rows) /\ folders[f].report = None /\ folders[f].review = None
  BY <1>owned, <1>1, AtWork DEF Processes, Directories, OwnOK, OwnAt
<1>6. /\ Append(runs[r].rows, row) \in Seq(Rows) /\ Len(Append(runs[r].rows, row)) = Len(runs[r].rows) + 1
      /\ Last(Append(runs[r].rows, row)) = row
  BY <1>3, <1>5, AppendProperties DEF Last
<1>7. /\ p \in Processes /\ p.folder = f /\ p.queries = runs[r].queries /\ p.pc = "record"
      /\ p.rows = Append(runs[r].rows, row) /\ p.exit = None
  BY <1>owned, <1>1, <1>6, AtWork DEF Processes, Going
<1>8. /\ runs'[r] = p /\ folders'[f] = folders[f] /\ folders[f] \in Directories /\ f # None /\ OwnOK(r)
  BY <1>owned, <1>1, <1>4, AtWork DEF IInv, TypeOK
<1>made. folders[f].made /\ ~folders[f].cut
  BY <1>1, <1>8, <1>owned, AtWork DEF OwnOK, OwnAt
<1> HIDE DEF p
<1>9. OwnOK(r)'
  <2>1. Len(p.rows) \in 1..Cases
    BY <1>5, <1>6, <1>7, RunAssumption
  <2>2. ~p.queries => folders[f].run = r /\ folders[f].cases = runs[r].rows
    BY <1>owned, <1>1, <1>7, AtWork DEF OwnOK, OwnAt
  <2>3. p.queries => folders[f].run = None
    BY <1>owned, <1>7, <1>8 DEF OwnOK, OwnAt
  <2>4. OwnAt(r, p, folders[f])
    BY <1>made, <1>5, <1>6, <1>7, <2>1, <2>2, <2>3, NoneApart DEF OwnAt, Going
  <2> QED
    BY <1>7, <1>8, <2>4 DEF OwnOK
<1>10. FolderOK(f)'
  <2>1. ~Written(f)'
    BY <1>5, <1>8 DEF Written
  <2>2. folders[f].run # None => folders[f].run = r /\ ~runs[r].queries /\ folders[f].cases = runs[r].rows
    BY <1>owned, <1>1, <1>8, AtWork DEF OwnOK, OwnAt, Processes
  <2>3. IsPrefix(runs[r].rows, p.rows)
    BY <1>3, <1>5, <1>7, PrefixAppend
  <2>4. folders[f].run # None =>
          /\ folders[f].run = r /\ ~p.queries /\ IsPrefix(folders[f].cases, p.rows)
          /\ Len(p.rows) <= Len(folders[f].cases) + 1
    BY <1>5, <1>6, <1>7, <2>2, <2>3
  <2>5. p.pc \notin {"idle", "preflight", "begin"}
    BY <1>7
  <2> QED
    BY <1>made, <1>7, <1>8, <2>1, <2>4, <2>5 DEF FolderOK
<1>11. ~Late(r)
  BY <1>1 DEF Late
<1> QED
  BY <1>owned, <1>1, <1>4, <1>7, <1>8, <1>9, <1>10, <1>11, ProcessStep

LEMMA RecordIInv ==
  ASSUME IInv, NEW r \in Runs, Record(r)
  PROVE  IInv'
<1>1. runs[r].pc = "record" /\ runs[r].pc \in Going /\ UNCHANGED files
  BY DEF Record, Going
<1>2. PICK f \in Folders : f = runs[r].folder
  BY <1>1, AtWork
<1>3. /\ OwnOK(r) /\ runs[r] \in Processes /\ folders[f] \in Directories /\ f # None
      /\ runs[r].exit = None
  BY <1>1, <1>2, AtWork
<1> DEFINE rows == runs[r].rows
           p == [runs[r] EXCEPT !.pc = IF Complete(Len(rows)) THEN "report" ELSE "case"]
           d == IF runs[r].queries THEN folders[f]
                ELSE [folders[f] EXCEPT !.cases = Append(folders[f].cases, Last(rows))]
<1>4. /\ folders[f].made /\ folders[f].report = None /\ folders[f].review = None /\ ~folders[f].cut
      /\ rows \in Seq(Rows) /\ Len(rows) \in 1..Cases /\ folders[f].cases \in Seq(Rows)
      /\ folders[f].run = IF runs[r].queries THEN None ELSE r
      /\ ~runs[r].queries => rows = Append(folders[f].cases, Last(rows))
  BY <1>1, <1>2, <1>3, AtWork DEF OwnOK, OwnAt, Processes, Directories
<1>5. runs' = [runs EXCEPT ![r] = p] /\ folders' = [folders EXCEPT ![f] = d]
  BY <1>1, <1>2 DEF Record, Lines, To, IInv, TypeOK, QueryRuns
<1>6. /\ p \in Processes /\ p.folder = f /\ p.queries = runs[r].queries /\ p.rows = rows
      /\ p.exit = None /\ p.pc = IF Len(rows) = Cases THEN "report" ELSE "case"
  BY <1>2, <1>3 DEF Processes, Going, Complete
<1>7. /\ d.made /\ d.report = None /\ d.review = None /\ d.run = folders[f].run /\ ~d.cut
      /\ d.cases \in Seq(Rows)
      /\ ~runs[r].queries => d.cases = rows
  BY <1>3, <1>4 DEF Directories
<1>8. d \in Directories
  BY <1>3, <1>4, <1>7 DEF Directories
<1>9. runs'[r] = p /\ folders'[f] = d
  BY <1>5 DEF IInv, TypeOK
<1> HIDE DEF p, d
<1>10. OwnOK(r)'
  <2>1. (Len(rows) = Cases) \/ (Len(rows) < Cases)
    BY <1>4, RunAssumption
  <2> QED
    BY <1>4, <1>6, <1>7, <1>9, <2>1, NoneApart DEF OwnOK, OwnAt, Going
<1>11. FolderOK(f)'
  <2>1. IsPrefix(rows, rows) /\ Len(rows) <= Len(rows) + 1
    BY <1>4, PrefixSelf
  <2>2. d.run # None => d.run = r /\ ~p.queries /\ d.cases = rows
    BY <1>4, <1>6, <1>7
  <2>3. p.pc \notin {"idle", "preflight", "begin"}
    BY <1>6
  <2> QED
    BY <1>6, <1>7, <1>9, <2>1, <2>2, <2>3 DEF FolderOK, Written
<1>12. ~Late(r)
  BY <1>1 DEF Late
<1> QED
  BY <1>1, <1>2, <1>5, <1>6, <1>8, <1>10, <1>11, <1>12, ProcessStep

LEMMA WriteReportIInv ==
  ASSUME IInv, NEW r \in Runs, WriteReport(r)
  PROVE  IInv'
<1>1. runs[r].pc = "report" /\ runs[r].pc \in Going /\ UNCHANGED files
  BY DEF WriteReport, Going
<1>2. PICK f \in Folders : f = runs[r].folder
  BY <1>1, AtWork
<1>3. /\ OwnOK(r) /\ runs[r] \in Processes /\ folders[f] \in Directories /\ f # None
      /\ runs[r].exit = None /\ code \in Nat
  BY <1>1, <1>2, AtWork DEF IInv, TypeOK
<1>4. PICK x : x = Report(r)
  OBVIOUS
<1>5. x \in Reports /\ x # None /\ x # Torn
  <2>1. /\ code \in Nat /\ runs[r].fixtures \in Nat /\ runs[r].rows \in Seq(Rows)
    BY <1>3 DEF Processes
  <2>2. [i \in DOMAIN runs[r].rows |-> Checks(runs[r].rows[i])] \in Seq(BOOLEAN)
    <3>1. \A i \in 1..Len(runs[r].rows) : Checks(runs[r].rows[i]) \in BOOLEAN
      BY DEF Checks
    <3>2. DOMAIN runs[r].rows = 1..Len(runs[r].rows) /\ Len(runs[r].rows) \in Nat
      BY <2>1
    <3> QED
      BY <3>1, <3>2, IsASeq
  <2>3. x \in Reports
    BY <1>4, <2>1, <2>2 DEF Report, Reports
  <2> QED
    BY <2>3, Papers
<1>6. x.run = r /\ x.rows = runs[r].rows /\ x.fixtures = runs[r].fixtures
  BY <1>4 DEF Report
<1> DEFINE rows == runs[r].rows
           p == [runs[r] EXCEPT !.pc = IF runs[r].queries THEN "exit" ELSE "review", !.report = x]
           d == [folders[f] EXCEPT !.report = x]
<1>7. /\ folders[f].made /\ folders[f].review = None /\ Len(rows) = Cases /\ rows \in Seq(Rows)
      /\ folders[f].run = IF runs[r].queries THEN None ELSE r
      /\ ~runs[r].queries => folders[f].cases = rows
      /\ ~folders[f].cut
  BY <1>1, <1>2, <1>3, AtWork DEF OwnOK, OwnAt, Processes
<1>8. runs' = [runs EXCEPT ![r] = p] /\ folders' = [folders EXCEPT ![f] = d]
  BY <1>1, <1>2, <1>4 DEF WriteReport, IInv, TypeOK, QueryRuns
<1>9. /\ p \in Processes /\ p.folder = f /\ p.queries = runs[r].queries /\ p.rows = rows
      /\ p.exit = None /\ p.pc = (IF runs[r].queries THEN "exit" ELSE "review")
      /\ p.report = x /\ p.fixtures = runs[r].fixtures
  BY <1>2, <1>3, <1>5 DEF Processes, Going
<1>10. /\ d \in Directories /\ d.made /\ d.report = x /\ d.review = None /\ d.run = folders[f].run
       /\ d.cases = folders[f].cases /\ ~d.cut
  BY <1>3, <1>5, <1>7 DEF Directories
<1>11. runs'[r] = p /\ folders'[f] = d
  BY <1>8 DEF IInv, TypeOK
<1> HIDE DEF p, d
<1>12. OwnOK(r)'
  BY <1>3, <1>5, <1>6, <1>7, <1>9, <1>10, <1>11, NoneApart DEF OwnOK, OwnAt, Going
<1>13. FolderOK(f)'
  <2>1. IsPrefix(rows, rows) /\ Len(rows) <= Len(rows) + 1
    BY <1>7, PrefixSelf, RunAssumption
  <2>2. d.run # None => d.run = r /\ ~p.queries /\ d.cases = rows
    BY <1>7, <1>9, <1>10
  <2>3. Late(r)'
    BY <1>9, <1>11 DEF Late
  <2>4. Written(f)'
    BY <1>5, <1>10, <1>11 DEF Written
  <2> QED
    BY <1>6, <1>7, <1>9, <1>10, <1>11, <2>1, <2>2, <2>3, <2>4 DEF FolderOK
<1>14. ~Late(r)
  BY <1>1 DEF Late
<1> QED
  BY <1>1, <1>2, <1>8, <1>9, <1>10, <1>12, <1>13, <1>14, ProcessStep

\* After its last case a process keeps what its report says.
LEMMA WriteReviewIInv ==
  ASSUME IInv, NEW r \in Runs, WriteReview(r)
  PROVE  IInv'
<1>1. runs[r].pc = "review" /\ runs[r].pc \in Going /\ UNCHANGED files
  BY DEF WriteReview, Going
<1>2. PICK f \in Folders : f = runs[r].folder
  BY <1>1, AtWork
<1>3. /\ OwnOK(r) /\ FolderOK(f) /\ runs[r] \in Processes /\ folders[f] \in Directories /\ f # None
      /\ runs[r].exit = None
  BY <1>1, <1>2, AtWork
<1>4. PICK y : y = Form(runs[r].report, None)
  OBVIOUS
<1>5. y \in Forms /\ y # None
  <2>1. runs[r].report \in Reports
    BY <1>1, <1>3 DEF OwnOK, OwnAt
  <2>2. y \in Forms
    BY <1>4, <2>1 DEF Form, Forms
  <2> QED
    BY <2>2, Papers
<1> DEFINE p == [runs[r] EXCEPT !.pc = "exit"]
           d == [folders[f] EXCEPT !.review = y]
<1>6. runs' = [runs EXCEPT ![r] = p] /\ folders' = [folders EXCEPT ![f] = d]
  BY <1>1, <1>2, <1>4 DEF WriteReview, To, IInv, TypeOK
<1>7. /\ p \in Processes /\ p.folder = f /\ p.queries = runs[r].queries /\ p.rows = runs[r].rows
      /\ p.exit = None /\ p.pc = "exit" /\ p.fixtures = runs[r].fixtures
  BY <1>2, <1>3 DEF Processes, Going
<1>8. /\ d \in Directories /\ d.made = folders[f].made /\ d.report = folders[f].report /\ d.review = y
      /\ d.run = folders[f].run /\ d.cases = folders[f].cases /\ ~d.cut
  BY <1>1, <1>2, <1>3, <1>5, AtWork DEF Directories
<1>9. runs'[r] = p /\ folders'[f] = d
  BY <1>6 DEF IInv, TypeOK
<1>10. /\ folders[f].made /\ folders[f].report \notin {None, Torn} /\ folders[f].report.run = r
       /\ Len(runs[r].rows) = Cases /\ ~runs[r].queries
       /\ folders[f].run = r /\ folders[f].cases = runs[r].rows /\ Late(r)
  BY <1>1, <1>2, <1>3 DEF OwnOK, OwnAt, Late
<1> HIDE DEF p, d
<1>11. OwnOK(r)'
  BY <1>3, <1>5, <1>7, <1>8, <1>9, <1>10, NoneApart DEF OwnOK, OwnAt, Going
<1>12. FolderOK(f)'
  <2>1. Late(r)' /\ Written(f)' /\ Written(f)
    BY <1>7, <1>8, <1>9, <1>10 DEF Late, Written
  <2>2. /\ folders[f].report.rows = runs[r].rows /\ folders[f].report.fixtures = runs[r].fixtures
        /\ IsPrefix(folders[f].cases, runs[r].rows) /\ Len(runs[r].rows) <= Len(folders[f].cases) + 1
    BY <1>3, <1>10, <2>1, NoneApart DEF FolderOK
  <2>3. /\ d.made /\ d.report.run = r /\ d.report.rows = p.rows /\ d.report.fixtures = p.fixtures
        /\ d.cases = p.rows /\ d.run = r /\ ~p.queries /\ Len(p.rows) = Cases
        /\ IsPrefix(d.cases, p.rows) /\ Len(p.rows) <= Len(d.cases) + 1
    BY <1>7, <1>8, <1>10, <2>2
  <2> QED
    BY <1>7, <1>8, <1>9, <2>1, <2>3 DEF FolderOK
<1> QED
  BY <1>1, <1>2, <1>6, <1>7, <1>8, <1>11, <1>12, ProcessStep

LEMMA ChecksAre ==
  ASSUME NEW row \in Rows
  PROVE  Checks(row) <=> Truly(row)
BY DEF Rows, Checks, Truly, Row

LEMMA FinishIInv ==
  ASSUME IInv, NEW r \in Runs, Finish(r)
  PROVE  IInv'
<1>1. runs[r].pc = "exit" /\ runs[r].pc \in Going /\ UNCHANGED files /\ UNCHANGED folders
  BY DEF Finish, Going
<1>2. PICK f \in Folders : f = runs[r].folder
  BY <1>1, AtWork
<1>3. /\ OwnOK(r) /\ FolderOK(f) /\ runs[r] \in Processes /\ folders[f] \in Directories /\ f # None
  BY <1>1, <1>2, AtWork
<1>4. PICK status \in {0, 1} :
        status = IF \A i \in DOMAIN runs[r].rows : Checks(runs[r].rows[i]) THEN 0 ELSE 1
  OBVIOUS
<1> DEFINE p == [runs[r] EXCEPT !.pc = "over", !.exit = status]
<1>5. runs' = [runs EXCEPT ![r] = p] /\ folders' = [folders EXCEPT ![f] = folders[f]]
  BY <1>1, <1>4 DEF Finish, Exit, IInv, TypeOK
<1>6. /\ p \in Processes /\ p.folder = f /\ p.queries = runs[r].queries /\ p.rows = runs[r].rows
      /\ p.exit = status /\ p.pc = "over" /\ p.fixtures = runs[r].fixtures
  BY <1>2, <1>3 DEF Processes, Going
<1>7. runs'[r] = p /\ folders'[f] = folders[f]
  BY <1>1, <1>5 DEF IInv, TypeOK
<1>8. /\ folders[f].made /\ folders[f].report \notin {None, Torn} /\ folders[f].report.run = r
      /\ Len(runs[r].rows) = Cases /\ runs[r].rows \in Seq(Rows)
      /\ ~runs[r].queries => folders[f].review # None
      /\ runs[r].queries => folders[f].run = None /\ folders[f].review = None
  BY <1>1, <1>2, <1>3 DEF OwnOK, OwnAt, Processes
<1>9. /\ status = 0 => \A i \in 1..Cases : Truly(runs[r].rows[i])
      /\ status = 1 => \E i \in 1..Cases : ~Truly(runs[r].rows[i])
  <2>1. \A i \in 1..Cases : runs[r].rows[i] \in Rows
    BY <1>8
  <2>2. DOMAIN runs[r].rows = 1..Cases
    BY <1>8
  <2> QED
    BY <1>4, <2>1, <2>2, ChecksAre
<1> HIDE DEF p
<1>10. OwnOK(r)'
  BY <1>3, <1>6, <1>7, <1>8, <1>9, NoneApart DEF OwnOK, OwnAt, Going
<1>11. FolderOK(f)'
  <2>1. Late(r)' /\ Written(f)' /\ Written(f)
    BY <1>6, <1>7, <1>8 DEF Late, Written
  <2>2. folders[f].run # None => folders[f].run = r
    BY <1>3, <1>8, <2>1 DEF FolderOK
  <2> QED
    BY <1>3, <1>6, <1>7, <1>8, <2>1, <2>2 DEF FolderOK
<1>12. Late(r) => p.pc \in {"exit", "over"}
  BY <1>6
<1> QED
  BY <1>1, <1>2, <1>3, <1>5, <1>6, <1>10, <1>11, <1>12, ProcessStep

LEMMA StopIInv ==
  ASSUME IInv, NEW r \in Runs, Stop(r)
  PROVE  IInv'
<1>1. runs[r].pc \in Going /\ UNCHANGED files
  BY DEF Stop
<1>2. PICK f \in Folders : f = runs[r].folder
  BY <1>1, AtWork
<1>3. /\ OwnOK(r) /\ FolderOK(f) /\ runs[r] \in Processes /\ folders[f] \in Directories /\ f # None
      /\ runs[r].pc # "idle"
  BY <1>1, <1>2, AtWork
<1> DEFINE p == [runs[r] EXCEPT !.pc = "over", !.exit = 2]
<1>4. PICK d : /\ folders' = [folders EXCEPT ![f] = d]
               /\ \/ d = folders[f]
                  \/ runs[r].pc = "report" /\ d = [folders[f] EXCEPT !.report = Torn]
                  \/ /\ runs[r].pc = "record" /\ ~runs[r].queries
                     /\ d = [folders[f] EXCEPT !.cut = TRUE]
  <2>1. CASE UNCHANGED folders
    <3>1. folders' = [folders EXCEPT ![f] = folders[f]]
      BY <2>1 DEF IInv, TypeOK
    <3> QED
      BY <3>1
  <2>2. CASE runs[r].pc = "report" /\ folders' = [folders EXCEPT ![runs[r].folder].report = Torn]
    BY <2>2, <1>2
  <2>3. CASE /\ runs[r].pc = "record" /\ r \notin QueryRuns
             /\ folders' = [folders EXCEPT ![runs[r].folder].cut = TRUE]
    BY <2>3, <1>2 DEF QueryRuns
  <2> QED
    BY <2>1, <2>2, <2>3 DEF Stop
<1>5. runs' = [runs EXCEPT ![r] = p]
  BY DEF Stop, Fail, Exit, IInv, TypeOK
<1>6. /\ p \in Processes /\ p.folder = f /\ p.queries = runs[r].queries /\ p.rows = runs[r].rows
      /\ p.exit = 2 /\ p.pc = "over" /\ p.fixtures = runs[r].fixtures
  BY <1>2, <1>3 DEF Processes, Going
<1>7. /\ d \in Directories /\ d.made = folders[f].made /\ d.run = folders[f].run
      /\ d.cases = folders[f].cases /\ d.review = folders[f].review
      /\ d.report \in {folders[f].report, Torn} /\ (d.report # folders[f].report => runs[r].pc = "report")
  BY <1>3, <1>4 DEF Directories
<1>8. runs'[r] = p /\ folders'[f] = d
  BY <1>4, <1>5 DEF IInv, TypeOK
<1>9. folders[f].made /\ (runs[r].queries => folders[f].run = None /\ folders[f].review = None)
  BY <1>2, <1>3 DEF OwnOK, OwnAt
<1>made. d.made /\ (p.queries => d.run = None /\ d.review = None)
  BY <1>6, <1>7, <1>9
<1> HIDE DEF p
<1>10. OwnOK(r)'
  BY <1>6, <1>8, <1>made, NoneApart DEF OwnOK, OwnAt, Going
<1>11. runs[r].pc \in {"preflight", "begin"} => folders[f].run = None /\ folders[f].report = None
  BY <1>2, <1>3 DEF OwnOK, OwnAt
<1>12. Written(f) => Late(folders[f].report.run) /\ folders[f].report.run \in Runs
  BY <1>3, Papers DEF FolderOK, Written, Directories
<1>13. folders[f].run # None => folders[f].run \in Runs
  BY <1>3 DEF Directories
<1>14. FolderOK(f)'
  <2>1. CASE d = folders[f]
    <3>1. Written(f)' = Written(f)
      BY <1>8, <2>1 DEF Written
    <3>2. Written(f) => Late(folders[f].report.run)'
      <4> SUFFICES ASSUME Written(f) PROVE Late(folders[f].report.run)'
        OBVIOUS
      <4>1. PICK s \in Runs : s = folders[f].report.run /\ s = folders'[f].report.run
        BY <1>8, <1>12, <2>1
      <4>2. Late(s)'
        BY <1>5, <1>6, <1>8, <1>12, <4>1 DEF Late, IInv, TypeOK
      <4> QED
        BY <4>1, <4>2 DEF Late
    <3>3. \A s \in Runs : /\ runs'[s].rows = runs[s].rows /\ runs'[s].queries = runs[s].queries
                          /\ runs'[s].folder = runs[s].folder /\ runs'[s].fixtures = runs[s].fixtures
                          /\ runs[s].pc \notin {"idle", "preflight", "begin"} =>
                               runs'[s].pc \notin {"idle", "preflight", "begin"}
      BY <1>2, <1>5, <1>6 DEF IInv, TypeOK
    <3>4. folders'[f] = folders[f]
      BY <1>4, <1>8, <2>1
    <3>5. ASSUME Written(f) PROVE
            LET s == folders[f].report.run
            IN  /\ Late(s)' /\ Len(runs'[s].rows) = Cases
                /\ folders[f].report.rows = runs'[s].rows /\ folders[f].report.fixtures = runs'[s].fixtures
                /\ ~runs'[s].queries => folders[f].cases = folders[f].report.rows
                /\ runs'[s].queries => folders[f].review = None
                /\ folders[f].run # None => folders[f].run = s
                /\ ~folders[f].cut
      <4>1. PICK s \in Runs : s = folders[f].report.run
        BY <1>12, <3>5
      <4>2. Late(folders[f].report.run)'
        BY <3>2, <3>5
      <4> QED
        BY <1>3, <3>3, <3>4, <3>5, <4>1, <4>2 DEF FolderOK
    <3>6. ASSUME folders[f].run # None PROVE
            LET s == folders[f].run
            IN  /\ runs'[s].pc \notin {"idle", "preflight", "begin"} /\ ~runs'[s].queries
                /\ runs'[s].folder = f \/ Written(f)
                /\ IsPrefix(folders[f].cases, runs'[s].rows)
                /\ Len(runs'[s].rows) <= Len(folders[f].cases) + 1
                /\ folders[f].cut => Len(runs'[s].rows) = Len(folders[f].cases) + 1
      <4>1. PICK s \in Runs : s = folders[f].run
        BY <1>13, <3>6
      <4> QED
        BY <1>3, <3>3, <3>6, <4>1 DEF FolderOK
    <3> QED
      BY <1>9, <3>1, <3>4, <3>5, <3>6 DEF FolderOK
  <2>2. CASE runs[r].pc = "report" /\ d = [folders[f] EXCEPT !.report = Torn]
    <3>1. d.report = Torn /\ runs[r].pc = "report" /\ ~Written(f)' /\ ~d.cut
      BY <1>1, <1>2, <1>3, <1>8, <2>2, AtWork DEF Written, Directories
    <3>2. /\ ~runs[r].queries => folders[f].run = r /\ folders[f].cases = runs[r].rows
          /\ Len(runs[r].rows) = Cases /\ runs[r].rows \in Seq(Rows)
      BY <1>2, <1>3, <3>1 DEF OwnOK, OwnAt, Processes
    <3>3. IsPrefix(runs[r].rows, runs[r].rows) /\ Len(runs[r].rows) <= Len(runs[r].rows) + 1
      BY <3>2, PrefixSelf, RunAssumption
    <3>4. d.run # None => d.run = r /\ ~p.queries /\ d.cases = p.rows
      BY <1>6, <1>7, <1>9, <3>2
    <3>5. d.run # None => /\ IsPrefix(d.cases, p.rows) /\ Len(p.rows) <= Len(d.cases) + 1
      BY <1>6, <3>3, <3>4
    <3> QED
      BY <1>6, <1>8, <1>made, <3>1, <3>4, <3>5 DEF FolderOK
  <2>3. CASE runs[r].pc = "record" /\ ~runs[r].queries /\ d = [folders[f] EXCEPT !.cut = TRUE]
    <3>1. ~Written(f)' /\ d.cut
      BY <1>2, <1>3, <1>7, <1>8, <2>3 DEF OwnOK, OwnAt, Written, Directories
    <3>2. /\ folders[f].run = r /\ runs[r].rows = Append(folders[f].cases, Last(runs[r].rows))
          /\ Len(runs[r].rows) \in 1..Cases /\ runs[r].rows \in Seq(Rows) /\ folders[f].cases \in Seq(Rows)
      BY <1>2, <1>3, <2>3 DEF OwnOK, OwnAt, Processes, Directories
    <3>3. Last(runs[r].rows) \in Rows
      BY <3>2 DEF Last
    <3>4. /\ IsPrefix(folders[f].cases, Append(folders[f].cases, Last(runs[r].rows)))
          /\ Len(Append(folders[f].cases, Last(runs[r].rows))) = Len(folders[f].cases) + 1
      BY <3>2, <3>3, PrefixAppend, AppendProperties
    <3>5. IsPrefix(d.cases, p.rows) /\ Len(p.rows) = Len(d.cases) + 1 /\ Len(d.cases) \in Nat
      <4>1. p.rows = Append(folders[f].cases, Last(runs[r].rows)) /\ d.cases = folders[f].cases
        BY <1>6, <1>7, <3>2
      <4>2. Len(folders[f].cases) \in Nat
        BY <3>2
      <4> QED
        BY <3>4, <4>1, <4>2
    <3> QED
      BY <1>2, <1>6, <1>7, <1>8, <1>made, <2>3, <3>1, <3>2, <3>5 DEF FolderOK
  <2> QED
    BY <1>4, <2>1, <2>2, <2>3
<1>15. Late(r) => p.pc \in {"exit", "over"}
  BY <1>6
<1> QED
  BY <1>1, <1>2, <1>3, <1>4, <1>5, <1>6, <1>7, <1>10, <1>14, <1>15, ProcessStep

-----------------------------------------------------------------------------
\* What a report says does not depend on who else looks at its directory.
LEMMA ReviewIInv ==
  ASSUME IInv, NEW f \in Folders, Review(f)
  PROVE  IInv'
<1>1. PICK says \in [1..Cases -> Findings] : folders' = [folders EXCEPT ![f].review.says = says]
  BY DEF Review
<1>2. /\ folders[f].review # None /\ UNCHANGED <<files, runs>> /\ folders[f] \in Directories /\ FolderOK(f)
  BY DEF Review, IInv, TypeOK
<1>3. PICK y : y = [folders[f].review EXCEPT !.says = says]
  OBVIOUS
<1>4. y \in Forms /\ y # None
  <2>1. folders[f].review \in Forms
    BY <1>2 DEF Directories
  <2>2. y \in Forms
    BY <1>3, <2>1 DEF Forms
  <2> QED
    BY <2>2, Papers
<1> DEFINE d == [folders[f] EXCEPT !.review = y]
<1>5. folders' = [folders EXCEPT ![f] = d]
  BY <1>1, <1>3
<1>6. /\ d \in Directories /\ d.made = folders[f].made /\ d.report = folders[f].report /\ d.review = y
      /\ d.run = folders[f].run /\ d.cases = folders[f].cases /\ d.cut = folders[f].cut
  BY <1>2, <1>4 DEF Directories
<1>7. folders'[f] = d /\ runs' = runs
  BY <1>2, <1>5 DEF IInv, TypeOK
<1> HIDE DEF d
<1>8. Written(f)' = Written(f) /\ \A r \in Runs : Late(r)' = Late(r)
  BY <1>6, <1>7 DEF Written, Late
<1>9. folders[f].made
  BY <1>2 DEF FolderOK, NoFolder
<1>10. FolderOK(f)'
  <2>1. Written(f) => ~runs[folders[f].report.run].queries
    BY <1>2 DEF FolderOK
  <2>2. Written(f) => folders[f].report.run \in Runs
    BY <1>2, Papers DEF Written, Directories
  <2>3. d.made
    BY <1>6, <1>9
  <2>4. Written(f) => Late(folders[f].report.run)'
    BY <1>2, <1>6, <1>7, <2>2 DEF FolderOK, Late
  <2> QED
    BY <1>2, <1>6, <1>7, <1>8, <2>1, <2>3, <2>4 DEF FolderOK
<1>11. ASSUME NEW r \in Runs, runs[r].folder = f PROVE OwnOK(r)'
  <2>1. OwnOK(r)
    BY DEF IInv
  <2>2. d.made
    BY <1>6, <1>9
  <2> QED
    BY <1>2, <1>4, <1>6, <1>7, <1>11, <2>1, <2>2 DEF OwnOK, OwnAt
<1> QED
  BY <1>2, <1>5, <1>6, <1>10, <1>11, FolderStep

LEMMA EmbellishIInv ==
  ASSUME IInv, NEW f \in Folders, Embellish(f)
  PROVE  IInv'
<1>1. /\ folders[f].review # None /\ Written(f) /\ UNCHANGED <<files, runs>>
      /\ folders[f] \in Directories /\ FolderOK(f)
  BY DEF Embellish, IInv, TypeOK
<1>2. PICK x : x = [folders[f].report EXCEPT !.checks = [i \in DOMAIN folders[f].report.checks |-> TRUE]]
  OBVIOUS
<1>3. folders[f].report \in Reports /\ folders[f].review \in Forms
  BY <1>1 DEF Directories, Written
<1>4. /\ x \in Reports /\ x # None /\ x # Torn /\ x.run = folders[f].report.run
      /\ x.rows = folders[f].report.rows /\ x.fixtures = folders[f].report.fixtures
  <2>1. folders[f].report.checks \in Seq(BOOLEAN)
    BY <1>3 DEF Reports
  <2>2. [i \in DOMAIN folders[f].report.checks |-> TRUE] \in Seq(BOOLEAN)
    <3>1. DOMAIN folders[f].report.checks = 1..Len(folders[f].report.checks)
          /\ Len(folders[f].report.checks) \in Nat
      BY <2>1
    <3> QED
      BY <3>1, IsASeq
  <2>3. x \in Reports
    BY <1>2, <1>3, <2>2 DEF Reports
  <2> QED
    BY <1>2, <1>3, <2>3, Papers DEF Reports
<1>5. PICK y : y = [folders[f].review EXCEPT !.report = x]
  OBVIOUS
<1>6. y \in Forms /\ y # None
  <2>1. y \in Forms
    BY <1>3, <1>4, <1>5 DEF Forms
  <2> QED
    BY <2>1, Papers
<1> DEFINE d == [folders[f] EXCEPT !.report = x, !.review = y]
<1>7. folders' = [folders EXCEPT ![f] = d]
  BY <1>2, <1>5 DEF Embellish
<1>8. /\ d \in Directories /\ d.report = x /\ d.review = y /\ d.made = folders[f].made
      /\ d.run = folders[f].run /\ d.cases = folders[f].cases /\ d.cut = folders[f].cut
  BY <1>1, <1>4, <1>6 DEF Directories
<1>9. folders'[f] = d /\ runs' = runs
  BY <1>1, <1>7 DEF IInv, TypeOK
<1> HIDE DEF d
<1>10. /\ Written(f)' /\ \A r \in Runs : Late(r)' = Late(r)
  BY <1>4, <1>8, <1>9 DEF Written, Late
<1>11. folders[f].made
  BY <1>1 DEF FolderOK, NoFolder
<1>12. d.made
  BY <1>8, <1>11
<1>13. FolderOK(f)'
  <2>1. ~runs[x.run].queries /\ x.run \in Runs
    BY <1>1, <1>4, Papers DEF FolderOK
  <2>2. Late(folders[f].report.run)'
    BY <1>1, <1>4, <1>8, <1>9, <2>1 DEF FolderOK, Late
  <2> QED
    BY <1>1, <1>4, <1>8, <1>9, <1>10, <1>12, <2>1, <2>2 DEF FolderOK
<1>14. ASSUME NEW r \in Runs, runs[r].folder = f PROVE OwnOK(r)'
  <2>1. OwnOK(r) /\ folders[f].report # None
    BY <1>1 DEF IInv, Written
  <2> QED
    BY <1>1, <1>4, <1>6, <1>8, <1>9, <1>12, <1>14, <2>1 DEF OwnOK, OwnAt
<1> QED
  BY <1>1, <1>7, <1>8, <1>13, <1>14, FolderStep

LEMMA CopyIInv ==
  ASSUME IInv, NEW f \in Folders, NEW g \in Folders, Copy(f, g)
  PROVE  IInv'
<1>1. /\ Written(f) /\ ~folders[g].made /\ UNCHANGED <<files, runs>>
      /\ folders[f] \in Directories /\ FolderOK(f) /\ folders' = [folders EXCEPT ![g] = folders[f]]
  BY DEF Copy, IInv, TypeOK
<1>2. folders'[g] = folders[f] /\ runs' = runs
  BY <1>1 DEF IInv, TypeOK
<1>3. FolderOK(g)'
  <2>1. Written(g)' /\ Late(folders[f].report.run) /\ folders[f].report.run \in Runs /\ folders[f].made
    BY <1>1, <1>2, Papers DEF Written, FolderOK, NoFolder, Directories
  <2>2. Late(folders[g].report.run)'
    BY <1>2, <2>1 DEF Late
  <2> QED
    BY <1>1, <1>2, <2>1, <2>2 DEF FolderOK
<1>4. \A r \in Runs : runs[r].folder # g
  BY <1>1, NoneApart DEF IInv, OwnOK, OwnAt
<1> QED
  BY <1>1, <1>3, <1>4, FolderStep

LEMMA EditIInv ==
  ASSUME IInv, EditCode \/ EditFixtures \/ ChangeWorkspace \/ Freeze
  PROVE  IInv'
<1>1. runs' = runs /\ folders' = folders
  BY DEF EditCode, EditFixtures, ChangeWorkspace, Freeze
<1>2. TypeOK'
  <2>1. TypeOK
    BY DEF IInv
  <2>2. CASE EditCode
    BY <1>1, <2>1, <2>2 DEF TypeOK, EditCode
  <2>3. CASE EditFixtures
    BY <1>1, <2>1, <2>3 DEF TypeOK, EditFixtures
  <2>4. CASE ChangeWorkspace
    BY <1>1, <2>1, <2>4 DEF TypeOK, ChangeWorkspace
  <2>5. CASE Freeze
    BY <1>1, <2>1, <2>5 DEF TypeOK, Freeze
  <2> QED
    BY <2>2, <2>3, <2>4, <2>5
<1>3. /\ OwnersOK' = OwnersOK
      /\ \A r \in Runs : OwnOK(r)' = OwnOK(r)
      /\ \A f \in Folders : FolderOK(f)' = FolderOK(f)
  BY <1>1 DEF OwnersOK, OwnOK, OwnAt, FolderOK, Written, Late
<1> QED
  BY <1>2, <1>3 DEF IInv

LEMMA NextIInv == IInv /\ [Next]_vars => IInv'
<1> SUFFICES ASSUME IInv, [Next]_vars PROVE IInv'
  OBVIOUS
<1>1. ASSUME NEW r \in Runs, NEW f \in Folders, NEW queries \in BOOLEAN, Start(r, f, queries)
      PROVE  IInv'
  BY <1>1, StartIInv
<1>2. ASSUME NEW r \in Runs, Continue(r) \/ Stop(r) PROVE IInv'
  BY <1>2, PreflightIInv, BeginIInv, AskCaseIInv, RecordIInv, WriteReportIInv, WriteReviewIInv,
     FinishIInv, StopIInv DEF Continue
<1>3. ASSUME NEW f \in Folders, Review(f) \/ Embellish(f) PROVE IInv'
  BY <1>3, ReviewIInv, EmbellishIInv
<1>4. ASSUME NEW f \in Folders, NEW g \in Folders, Copy(f, g) PROVE IInv'
  BY <1>4, CopyIInv
<1>5. CASE UNCHANGED vars
  <2>1. runs' = runs /\ folders' = folders
    BY <1>5 DEF vars
  <2>2. TypeOK'
    BY <1>5 DEF IInv, TypeOK, vars
  <2>3. /\ OwnersOK' = OwnersOK
        /\ \A r \in Runs : OwnOK(r)' = OwnOK(r)
        /\ \A f \in Folders : FolderOK(f)' = FolderOK(f)
    BY <2>1 DEF OwnersOK, OwnOK, OwnAt, FolderOK, Written, Late
  <2> QED
    BY <2>2, <2>3 DEF IInv
<1> QED
  BY <1>1, <1>2, <1>3, <1>4, <1>5, EditIInv DEF Next

LEMMA IInvAlways == Spec => []IInv
<1>1. Init => IInv
  BY InitIInv
<1>2. IInv /\ [Next]_vars => IInv'
  BY NextIInv
<1> QED
  BY <1>1, <1>2, PTL DEF Spec

-----------------------------------------------------------------------------
(***************************************************************************)
(* For any processes and directories the state keeps its types.            *)
(***************************************************************************)
THEOREM TypeCorrect == Spec => []TypeOK
<1>1. IInv => TypeOK
  BY DEF IInv
<1> QED
  BY <1>1, IInvAlways, PTL

(***************************************************************************)
(* A report is of one whole run wherever it is, and what an interrupted    *)
(* run leaves is a prefix of what it has asked, without a report.          *)
(***************************************************************************)
THEOREM InterruptedCorrect == Spec => []InterruptedIsUnfinished
<1>1. IInv => InterruptedIsUnfinished
  <2> SUFFICES ASSUME IInv, NEW f \in Folders
               PROVE  /\ Written(f) =>
                           /\ Len(folders[f].report.rows) = Cases
                           /\ folders[f].report.rows = runs[folders[f].report.run].rows
                           /\ ~Queried(f) => folders[f].cases = folders[f].report.rows /\ ~folders[f].cut
                      /\ folders[f].run # None =>
                           LET asked == runs[folders[f].run].rows
                               kept == Len(folders[f].cases)
                           IN  /\ IsPrefix(folders[f].cases, asked)
                               /\ Len(asked) \in IF folders[f].cut THEN {kept + 1} ELSE {kept, kept + 1}
    BY DEF InterruptedIsUnfinished
  <2>1. FolderOK(f) /\ folders[f] \in Directories
    BY DEF IInv, TypeOK
  <2>2. Written(f) => folders[f].report.run \in Runs
    BY <2>1, Papers DEF Directories, Written
  <2>3. Written(f) => (Queried(f) <=> runs[folders[f].report.run].queries)
    BY <2>2 DEF Queried, QueryRuns
  <2>4. ASSUME folders[f].run # None
        PROVE  LET asked == runs[folders[f].run].rows
                   kept == Len(folders[f].cases)
               IN  /\ IsPrefix(folders[f].cases, asked)
                   /\ Len(asked) \in IF folders[f].cut THEN {kept + 1} ELSE {kept, kept + 1}
    <3> DEFINE asked == runs[folders[f].run].rows
               kept == Len(folders[f].cases)
    <3>1. asked \in Seq(Rows) /\ folders[f].cases \in Seq(Rows)
      BY <2>1, <2>4 DEF IInv, TypeOK, Directories, Processes
    <3>2. Len(asked) \in Nat /\ kept \in Nat
      BY <3>1
    <3>3. /\ IsPrefix(folders[f].cases, asked) /\ Len(asked) <= kept + 1
          /\ folders[f].cut => Len(asked) = kept + 1
      BY <2>1, <2>4 DEF FolderOK
    <3>4. kept <= Len(asked)
      BY <3>3 DEF IsPrefix
    <3> HIDE DEF asked, kept
    <3>5. Len(asked) \in IF folders[f].cut THEN {kept + 1} ELSE {kept, kept + 1}
      BY <3>2, <3>3, <3>4
    <3> QED
      BY <3>3, <3>5 DEF asked, kept
  <2> QED
    BY <2>1, <2>3, <2>4 DEF FolderOK
<1> QED
  BY <1>1, IInvAlways, PTL

(***************************************************************************)
(* An exit code of 0 or 1 comes with the whole report, and 0 with a clean  *)
(* one.                                                                    *)
(***************************************************************************)
THEOREM ExitCorrect == Spec => []ExitTellsTheRun
<1>1. IInv => ExitTellsTheRun
  <2> SUFFICES ASSUME IInv, NEW r \in Runs
               PROVE  /\ runs[r].exit \in {0, 1} =>
                           /\ Written(runs[r].folder) /\ folders[runs[r].folder].report.run = r
                           /\ r \notin QueryRuns => folders[runs[r].folder].review # None
                           /\ Len(runs[r].rows) = Cases
                      /\ runs[r].exit = 0 => \A i \in 1..Cases : Truly(runs[r].rows[i])
                      /\ runs[r].exit = 1 => \E i \in 1..Cases : ~Truly(runs[r].rows[i])
    BY DEF ExitTellsTheRun
  <2>1. OwnOK(r)
    BY DEF IInv
  <2> QED
    BY <2>1 DEF OwnOK, OwnAt, Written, QueryRuns
<1> QED
  BY <1>1, IInvAlways, PTL

\* What the invariant says of a report, in terms of the run it names.
LEMMA OfOneRun ==
  ASSUME IInv, NEW f \in Folders, Written(f)
  PROVE  /\ folders[f].report \in Reports /\ folders[f].report.run \in Runs
         /\ folders[f].report.rows = runs[folders[f].report.run].rows
         /\ folders[f].report.fixtures = runs[folders[f].report.run].fixtures
         /\ folders[f].report.rows \in Seq(Rows) /\ Len(folders[f].report.rows) = Cases
         /\ Queried(f) => folders[f].review = None
         /\ \A i \in 1..Cases : /\ folders[f].report.rows[i] \in Rows
                                /\ Recomputed(folders[f].report)[i] <=> Truly(folders[f].report.rows[i])
<1>1. FolderOK(f) /\ folders[f] \in Directories
  BY DEF IInv, TypeOK
<1>2. folders[f].report \in Reports
  BY <1>1 DEF Directories, Written
<1>3. folders[f].report.run \in Runs /\ folders[f].report.rows \in Seq(Rows)
  BY <1>2 DEF Reports
<1>4. /\ folders[f].report.rows = runs[folders[f].report.run].rows
      /\ folders[f].report.fixtures = runs[folders[f].report.run].fixtures
      /\ Len(folders[f].report.rows) = Cases
      /\ runs[folders[f].report.run].queries => folders[f].review = None
  BY <1>1 DEF FolderOK
<1>5. ASSUME NEW i \in 1..Cases
      PROVE  /\ folders[f].report.rows[i] \in Rows
             /\ Recomputed(folders[f].report)[i] <=> Truly(folders[f].report.rows[i])
  <2>1. i \in DOMAIN folders[f].report.rows /\ folders[f].report.rows[i] \in Rows
    BY <1>3, <1>4
  <2>2. Recomputed(folders[f].report)[i] = Checks(folders[f].report.rows[i])
    BY <2>1 DEF Recomputed
  <2> QED
    BY <2>1, <2>2, ChecksAre
<1> QED
  BY <1>2, <1>3, <1>4, <1>5 DEF Queried, QueryRuns

(***************************************************************************)
(* What one assessment accepts was asked, answered and found right, for    *)
(* all the edits, copies and interruptions.                                *)
(***************************************************************************)
THEOREM AcceptedCorrect == Spec => []AcceptedIsEarned
<1>1. IInv => AcceptedIsEarned
  <2> SUFFICES ASSUME IInv, NEW f \in Folders, Accepts(f)
               PROVE  LET r == folders[f].report.run
                      IN  /\ folders[f].report.rows = runs[r].rows /\ runs[r].fixtures = fixtures
                          /\ \A i \in 1..Cases : Truly(runs[r].rows[i]) /\ folders[f].review.says[i] = "right"
    BY DEF AcceptedIsEarned
  <2>1. /\ Written(f) /\ folders[f].review # None /\ folders[f].report.fixtures = fixtures
        /\ \A i \in 1..Cases : CasePasses(f, i)
    BY DEF Accepts, Assessable
  <2>2. ~Queried(f)
    BY <2>1, OfOneRun
  <2>3. \A i \in 1..Cases : Recomputed(folders[f].report)[i] /\ folders[f].review.says[i] = "right"
    BY <2>1, <2>2 DEF CasePasses
  <2> QED
    BY <2>1, <2>3, OfOneRun
<1> QED
  BY <1>1, IInvAlways, PTL

(***************************************************************************)
(* What a batch accepts is of as many runs as were planned and holds       *)
(* nothing critical: reports tell their runs apart, copies do not count.   *)
(***************************************************************************)
THEOREM BatchCorrect == Spec => []BatchIsEarned
<1>1. IInv => BatchIsEarned
  <2> SUFFICES ASSUME IInv, NEW F \in Batches, NEW historical \in BOOLEAN, AcceptsBatch(F, historical)
               PROVE
      /\ Cardinality({r \in Runs : \E f \in F : folders[f].report.rows = runs[r].rows
                                                 /\ folders[f].report.run = r}) = Repetitions
      /\ \A f \in F : runs[folders[f].report.run].fixtures = protocol.fixtures
      /\ \A f \in F, i \in 1..Cases :
           LET row == runs[folders[f].report.run].rows[i]
           IN  /\ Truly(row) \/ row.plan = "declined"
               /\ Queried(f) \/ folders[f].review.says[i] # "unsupported"
      /\ \A i \in 1..Cases :
           (\E f \in F : Truly(folders[f].report.rows[i])) \/ \A f \in F : Queried(f)
    BY DEF BatchIsEarned
  <2>1. F \subseteq Folders /\ Cardinality(F) = Repetitions /\ IsFiniteSet(F)
    BY RunAssumption, FS_Subset DEF Batches
  <2>2. /\ \A f \in F : Written(f) /\ folders[f].report.fixtures = protocol.fixtures
        /\ \A f, g \in F : f # g => folders[f].report.run # folders[g].report.run
        /\ \A f \in F, i \in 1..Cases : ~Critical(f, i)
        /\ (\A f \in F : Queried(f)) \/ \A f \in F : ~Queried(f)
        /\ (\A f \in F : Queried(f)) \/ \A i \in 1..Cases : \E f \in F : CasePasses(f, i)
    <3>1. /\ \A f \in F : Consistent(f)
          /\ DistinctRuns(F) /\ NoneCritical(F)
          /\ \/ \A f \in F : Queried(f)
             \/ \A f \in F : ~Queried(f)
          /\ (\A f \in F : Queried(f)) \/ \A i \in 1..Cases : \E f \in F : CasePasses(f, i)
      BY DEF AcceptsBatch
    <3>2. \A f \in F : Written(f) /\ folders[f].report.fixtures = protocol.fixtures
      BY <3>1 DEF Consistent
    <3>3. ASSUME NEW f \in F, NEW i \in 1..Cases PROVE ~Critical(f, i)
      <4>1. <<f, i>> \in F \X (1..Cases) /\ <<f, i>>[1] = f /\ <<f, i>>[2] = i
        OBVIOUS
      <4> QED
        BY <3>1, <4>1 DEF NoneCritical, Cells
    <3> QED
      BY <3>1, <3>2, <3>3 DEF DistinctRuns
  <2> DEFINE R == {r \in Runs : \E f \in F : folders[f].report.rows = runs[r].rows
                                              /\ folders[f].report.run = r}
             by == [f \in F |-> folders[f].report.run]
  <2>3. Cardinality(R) = Repetitions
    <3>1. \A f \in F : by[f] \in R
      BY <2>1, <2>2, OfOneRun
    <3>2. \A r \in R : \E f \in F : by[f] = r
      OBVIOUS
    <3>3. by \in Bijection(F, R)
      BY <2>2, <3>1, <3>2 DEF Bijection, Injection, Surjection, IsInjective
    <3> QED
      BY <2>1, <3>3, FS_Bijection DEF ExistsBijection
  <2>4. \A f \in F : runs[folders[f].report.run].fixtures = protocol.fixtures
    BY <2>1, <2>2, OfOneRun
  <2>5. ASSUME NEW f \in F, NEW i \in 1..Cases
        PROVE  LET row == runs[folders[f].report.run].rows[i]
               IN  /\ Truly(row) \/ row.plan = "declined"
                   /\ Queried(f) \/ folders[f].review.says[i] # "unsupported"
    <3>1. /\ folders[f].report.rows = runs[folders[f].report.run].rows
          /\ folders[f].report.rows[i] \in Rows
      BY <2>1, <2>2, OfOneRun
    <3> QED
      BY <2>2, <3>1, ChecksAre DEF Critical
  <2>6. ASSUME NEW i \in 1..Cases, ~\A f \in F : Queried(f)
        PROVE  \E f \in F : Truly(folders[f].report.rows[i])
    <3>1. PICK f \in F : CasePasses(f, i)
      BY <2>2, <2>6
    <3>2. Recomputed(folders[f].report)[i]
      BY <2>2, <2>6, <3>1 DEF CasePasses
    <3> QED
      BY <2>1, <2>2, <3>2, OfOneRun
  <2> QED
    BY <2>3, <2>4, <2>5, <2>6
<1> QED
  BY <1>1, IInvAlways, PTL

(***************************************************************************)
(* A directory keeps the run that has made it, and its cases only grow.    *)
(***************************************************************************)
THEOREM FolderCorrect == Spec => RunKeepsItsFolder
<1>1. ASSUME IInv, [Next]_vars, NEW f \in Folders, folders[f].run # None
      PROVE  folders'[f].run = folders[f].run /\ IsPrefix(folders[f].cases, folders'[f].cases)
  <2>1. folders[f] \in Directories /\ folders[f].cases \in Seq(Rows) /\ FolderOK(f)
        /\ folders \in [Folders -> Directories] /\ runs \in [Runs -> Processes]
    BY <1>1 DEF IInv, TypeOK, Directories
  <2>2. folders[f].made
    BY <1>1, <2>1 DEF FolderOK, NoFolder
  <2>3. IsPrefix(folders[f].cases, folders[f].cases)
    BY <2>1, PrefixSelf
  <2>4. CASE folders'[f].run = folders[f].run /\ folders'[f].cases = folders[f].cases
    BY <2>3, <2>4
  <2>5. ASSUME NEW r \in Runs, NEW g \in Folders, NEW queries \in BOOLEAN, Start(r, g, queries)
        PROVE  folders'[f].run = folders[f].run /\ folders'[f].cases = folders[f].cases
    <3>1. folders' = folders \/ folders' = [folders EXCEPT ![g].made = TRUE]
      BY <2>5 DEF Start
    <3> QED
      BY <2>1, <3>1 DEF Directories
  <2>6. ASSUME NEW r \in Runs, Begin(r)
        PROVE  folders'[f].run = folders[f].run /\ folders'[f].cases = folders[f].cases
    BY <1>1, <2>1, <2>6 DEF Begin, Exclusive
  <2>7. ASSUME NEW r \in Runs, Record(r)
        PROVE  folders'[f].run = folders[f].run /\ IsPrefix(folders[f].cases, folders'[f].cases)
    <3>1. OwnOK(r) /\ runs[r].pc = "record" /\ runs[r] \in Processes
      BY <1>1, <2>7 DEF IInv, TypeOK, Record
    <3>2. Last(runs[r].rows) \in Rows
      BY <3>1 DEF OwnOK, OwnAt, Processes, Last
    <3>3. CASE folders' = folders
      BY <2>3, <3>3
    <3>4. CASE folders' = [folders EXCEPT ![runs[r].folder].cases = Append(@, Last(runs[r].rows))]
      <4>1. folders'[f].run = folders[f].run
            /\ folders'[f].cases \in {folders[f].cases, Append(folders[f].cases, Last(runs[r].rows))}
        BY <2>1, <3>4
      <4> QED
        BY <2>1, <2>3, <3>2, <4>1, PrefixAppend
    <3> QED
      BY <2>7, <3>3, <3>4 DEF Record, Lines
  <2>8. ASSUME NEW r \in Runs, Preflight(r) \/ AskCase(r) \/ WriteReport(r) \/ WriteReview(r)
                               \/ Finish(r) \/ Stop(r)
        PROVE  folders'[f].run = folders[f].run /\ folders'[f].cases = folders[f].cases
    <3>1. PICK x, y : \/ folders' = folders
                      \/ folders' = [folders EXCEPT ![runs[r].folder].report = x]
                      \/ folders' = [folders EXCEPT ![runs[r].folder].review = y]
                      \/ folders' = [folders EXCEPT ![runs[r].folder].cut = TRUE]
      BY <2>8 DEF Preflight, AskCase, WriteReport, WriteReview, Finish, Stop
    <3> QED
      BY <2>1, <3>1 DEF Directories
  <2>9. ASSUME NEW g \in Folders, Review(g) \/ Embellish(g)
        PROVE  folders'[f].run = folders[f].run /\ folders'[f].cases = folders[f].cases
    <3>1. CASE Review(g)
      <4>1. PICK y : folders' = [folders EXCEPT ![g].review = y]
        BY <3>1 DEF Review
      <4> QED
        BY <2>1, <4>1 DEF Directories
    <3>2. CASE Embellish(g)
      <4>1. PICK x : x = [folders[g].report EXCEPT !.checks = [i \in DOMAIN folders[g].report.checks |-> TRUE]]
        OBVIOUS
      <4>2. PICK y : y = [folders[g].review EXCEPT !.report = x]
        OBVIOUS
      <4>3. folders' = [folders EXCEPT ![g] = [folders[g] EXCEPT !.report = x, !.review = y]]
        BY <3>2, <4>1, <4>2 DEF Embellish
      <4> QED
        BY <2>1, <4>3 DEF Directories
    <3> QED
      BY <2>9, <3>1, <3>2
  <2>10. ASSUME NEW g \in Folders, NEW h \in Folders, Copy(g, h)
         PROVE  folders'[f].run = folders[f].run /\ folders'[f].cases = folders[f].cases
    BY <2>1, <2>2, <2>10 DEF Copy
  <2>11. CASE EditCode \/ EditFixtures \/ ChangeWorkspace \/ Freeze \/ UNCHANGED vars
    BY <2>3, <2>11 DEF EditCode, EditFixtures, ChangeWorkspace, Freeze, vars
  <2> QED
    BY <1>1, <2>4, <2>5, <2>6, <2>7, <2>8, <2>9, <2>10, <2>11 DEF Next, Continue
<1>2. IInv /\ [Next]_vars =>
        [\A f \in Folders : folders[f].run # None =>
           folders'[f].run = folders[f].run /\ IsPrefix(folders[f].cases, folders'[f].cases)]_vars
  BY <1>1
<1> QED
  BY <1>2, IInvAlways, PTL DEF Spec, RunKeepsItsFolder

=============================================================================

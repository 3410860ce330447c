--------------------------- MODULE IngestionProofs ---------------------------
(***************************************************************************)
(* Theorems about Ingestion, for any files, records, contents and bounds.  *)
(***************************************************************************)
EXTENDS Ingestion, TLAPS

USE DEF Bounded

LEMMA SpendTypes ==
    ASSUME TypeOK, NEW e \in Bounded, Spend(e)
    PROVE  spent' \in [Bounded -> Nat]
BY DEF TypeOK, Spend

\* An insert adds one copy of one row and leaves the marks alone.
LEMMA InsertedIs ==
    ASSUME TypeOK, NEW r \in Row
    PROVE  Inserted(r) \in Database /\ Stored(Inserted(r)) = Stored(work) \cup {r}
BY DEF TypeOK, Database, Inserted, Stored

\* A mark changes no row.
LEMMA MarkedIs ==
    ASSUME TypeOK, NEW f \in File, NEW s \in Stat
    PROVE  Marked(f, s) \in Database /\ Stored(Marked(f, s)) = Stored(work)
BY DEF TypeOK, Database, Marked, Stored

\* What the database steps do to the types: a transaction that ends, ends with the
\* two views equal.
DatabaseOK ==
    /\ store \in Database /\ work \in Database /\ inTxn \in BOOLEAN
    /\ ~inTxn => work = store

LEMMA DatabaseTypes ==
    ASSUME TypeOK
    PROVE  /\ \A db \in Database : Execute(db) => DatabaseOK' /\ inTxn' = inTxn
           /\ Rollback => DatabaseOK' /\ ~inTxn'
           /\ BeginTransaction => DatabaseOK'
           /\ CommitTransaction => DatabaseOK' /\ spent' \in [Bounded -> Nat] /\ (inTxn' => inTxn)
           /\ WriteFails => DatabaseOK' /\ spent' \in [Bounded -> Nat] /\ (inTxn' => inTxn)
<1>1. /\ \A db \in Database : Execute(db) => DatabaseOK' /\ inTxn' = inTxn
      /\ Rollback => DatabaseOK' /\ ~inTxn'
      /\ BeginTransaction => DatabaseOK'
  BY DEF TypeOK, DatabaseOK, Execute, Rollback, BeginTransaction
<1>3. Spend("busy") \/ Spend("full") => spent' \in [Bounded -> Nat]
  BY SpendTypes
<1>4. CommitTransaction => DatabaseOK' /\ spent' \in [Bounded -> Nat] /\ (inTxn' => inTxn)
  BY <1>3 DEF TypeOK, DatabaseOK, CommitTransaction, Rollback, database
<1>5. WriteFails => DatabaseOK' /\ spent' \in [Bounded -> Nat] /\ (inTxn' => inTxn)
  <2> SUFFICES ASSUME WriteFails
               PROVE  DatabaseOK' /\ spent' \in [Bounded -> Nat] /\ (inTxn' => inTxn)
    OBVIOUS
  <2>1. spent' \in [Bounded -> Nat]
    BY <1>3 DEF WriteFails
  <2>2. UNCHANGED database \/ Rollback
    BY DEF WriteFails
  <2>3. DatabaseOK' /\ (inTxn' => inTxn)
    BY <2>2, <1>1 DEF TypeOK, DatabaseOK, database
  <2> QED BY <2>1, <2>3
<1> QED BY <1>1, <1>4, <1>5

\* The variables keep their types through every fault, crash and write of a file.
THEOREM TypeCorrect == Spec => []TypeOK
<1>1. Init => TypeOK
  <2> SUFFICES ASSUME Init PROVE TypeOK
    OBVIOUS
  <2>1. store \in Database /\ work \in Database
    BY DEF Init, Database, Stat, Untracked
  <2>2. /\ inTxn = FALSE /\ up = FALSE /\ (inTxn => up) /\ (~inTxn => work = store)
        /\ inTxn \in BOOLEAN /\ up \in BOOLEAN /\ errors \in BOOLEAN
    BY Zenon DEF Init
  <2>3. /\ content \in [File -> Seq(Row \cup {Junk})] /\ mtime \in [File -> Nat] /\ now \in Nat
        /\ tracked \in [File -> Stat] /\ seen \in Stat /\ pos \in Nat
        /\ spent \in [Bounded -> Nat]
    BY DEF Init, Stat, Untracked
  <2>4. /\ pc = "idle" /\ cur = NoFile /\ todo = {}
    BY Zenon DEF Init
  <2> QED BY <2>1, <2>2, <2>3, <2>4 DEF TypeOK
<1>2. TypeOK /\ [Next]_vars => TypeOK'
  <2> SUFFICES ASSUME TypeOK, [Next]_vars PROVE TypeOK'
    OBVIOUS
  <2>1. ASSUME NEW f \in File, NEW c \in Contents, Write(f, c) PROVE TypeOK'
    <3>1. content' \in [File -> Seq(Row \cup {Junk})] /\ mtime' \in [File -> Nat]
      BY <2>1, ContentsAssumption DEF TypeOK, Write
    <3>2. spent' \in [Bounded -> Nat]
      BY <2>1, SpendTypes DEF Write, TypeOK
    <3> QED BY <2>1, <3>1, <3>2 DEF TypeOK, Write, database, scan
  <2>2. CASE Tick
    <3>1. spent' \in [Bounded -> Nat]
      BY <2>2, SpendTypes DEF Tick
    <3> QED BY <2>2, <3>1 DEF TypeOK, Tick, database, scan
  <2>3. CASE Start
    BY <2>3 DEF TypeOK, Start, Database, disk, database, scan
  <2>4. CASE Stop
    <3>1. spent' \in [Bounded -> Nat] /\ DatabaseOK' /\ ~inTxn'
      BY <2>4, SpendTypes, DatabaseTypes DEF Stop
    <3> QED BY <2>4, <3>1, FileAssumption DEF TypeOK, DatabaseOK, Stop, Stat, Untracked, disk
  <2>5. CASE OpenDirectory \/ CloseDirectory
    BY <2>5 DEF TypeOK, OpenDirectory, CloseDirectory, disk, database
  <2>6. ASSUME NEW f \in File, VisitFile(f) PROVE TypeOK'
    <3>1. StatOf(f) \in Stat
      BY DEF TypeOK, StatOf, Stat
    <3> QED BY <2>6, <3>1 DEF TypeOK, VisitFile, disk, database
  <2>7. CASE OpenFile
    <3>1. DatabaseOK'
      BY <2>7, DatabaseTypes DEF OpenFile, TypeOK, DatabaseOK, database
    <3>2. spent' \in [Bounded -> Nat]
      BY <2>7, SpendTypes DEF OpenFile, TypeOK
    <3>3. CASE NextFile
      BY <2>7, <3>1, <3>2, <3>3 DEF TypeOK, DatabaseOK, OpenFile, NextFile, Stat, Untracked, disk, database
    <3>4. CASE pc' = "read" /\ pos' = 1 /\ UNCHANGED <<cur, seen, errors>>
      BY <2>7, <3>1, <3>2, <3>4 DEF TypeOK, DatabaseOK, OpenFile, disk
    <3> QED BY <2>7, <3>3, <3>4 DEF OpenFile
  <2>8. CASE ReadLine
    <3>1. ASSUME NEW r \in Row, InsertRow(r) PROVE DatabaseOK' /\ (inTxn' => inTxn)
      BY <3>1, InsertedIs, DatabaseTypes DEF InsertRow, TypeOK, DatabaseOK, database
    <3>2. DatabaseOK' /\ spent' \in [Bounded -> Nat] /\ errors' \in BOOLEAN /\ (inTxn' => inTxn)
      <4> DEFINE line == content[cur][pos + 1]
      <4> HIDE DEF line
      <4>1. CASE line = Junk /\ errors' = TRUE /\ UNCHANGED <<database, spent>>
        BY <4>1 DEF TypeOK, DatabaseOK, database
      <4>2. CASE line \in Row /\ InsertRow(line) /\ UNCHANGED <<errors, spent>>
        BY <4>2, <3>1 DEF TypeOK
      <4>3. CASE WriteFails /\ errors' = TRUE
        BY <4>3, DatabaseTypes
      <4> QED BY <2>8, <4>1, <4>2, <4>3 DEF ReadLine, line
    <3> QED BY <2>8, <3>2 DEF TypeOK, DatabaseOK, ReadLine, disk
  <2>9. CASE FinishFile
    <3>1. DatabaseOK' /\ spent' \in [Bounded -> Nat] /\ (inTxn' => inTxn)
      BY <2>9, DatabaseTypes DEF FinishFile
    <3>2. CASE NextFile
      BY <2>9, <3>1, <3>2 DEF TypeOK, DatabaseOK, FinishFile, NextFile, Stat, Untracked, disk
    <3>3. CASE pc' = "mark" /\ UNCHANGED <<cur, seen, pos, errors>>
      BY <2>9, <3>1, <3>3 DEF TypeOK, DatabaseOK, FinishFile, disk
    <3> QED BY <2>9, <3>2, <3>3 DEF FinishFile
  <2>10. CASE MarkFile
    <3>1. cur \in File /\ seen \in Stat
      BY <2>10 DEF TypeOK, MarkFile
    <3>2. DatabaseOK' /\ spent' \in [Bounded -> Nat] /\ (inTxn' => inTxn)
      BY <2>10, <3>1, MarkedIs, DatabaseTypes DEF MarkFile, TypeOK
    <3>3. tracked' \in [File -> Stat]
      BY <2>10, <3>1 DEF MarkFile, TypeOK
    <3> QED BY <2>10, <3>2, <3>3, FileAssumption
            DEF TypeOK, DatabaseOK, MarkFile, NextFile, Stat, Untracked, disk
  <2>11. CASE UNCHANGED vars
    BY <2>11 DEF TypeOK, vars, disk, database, scan
  <2> QED BY <2>1, <2>2, <2>3, <2>4, <2>5, <2>6, <2>7, <2>8, <2>9, <2>10, <2>11
          DEF Next, MainStep
<1> QED BY <1>1, <1>2, PTL DEF Spec

-----------------------------------------------------------------------------
(* The table. *)

\* All a step can do to the database.
LEMMA DatabaseSteps ==
    ASSUME TypeOK, [Next]_vars
    PROVE  \/ UNCHANGED <<store, work>>
           \/ Rollback
           \/ store' = work /\ UNCHANGED work
           \/ \E r \in Row \ Stored(work) : Execute(Inserted(r))
           \/ cur \in File /\ Execute(Marked(cur, seen))
<1>1. CASE Stop
  BY <1>1 DEF Stop
<1>2. CASE OpenFile
  BY <1>2 DEF OpenFile, BeginTransaction, database
<1>3. CASE ReadLine
  BY <1>3 DEF ReadLine, InsertRow, WriteFails, database
<1>4. CASE FinishFile
  BY <1>4 DEF FinishFile, CommitTransaction, database
<1>5. CASE MarkFile
  BY <1>5 DEF MarkFile, WriteFails, database, TypeOK
<1>6. CASE \/ \E f \in File : (\E c \in Contents : Write(f, c)) \/ VisitFile(f)
           \/ Tick \/ Start \/ OpenDirectory \/ CloseDirectory \/ UNCHANGED vars
  BY <1>6 DEF Write, VisitFile, Tick, Start, OpenDirectory, CloseDirectory, vars, database
<1> QED BY <1>1, <1>2, <1>3, <1>4, <1>5, <1>6 DEF Next, MainStep

\* weather_data never holds two equal rows: an insert looks for one first, in the
\* view that includes the open transaction, and there is one writer.
THEOREM NoDuplicates == Spec => []StoredOnce
<1>1. Init => StoredOnce
  BY DEF Init, StoredOnce
<1>2. TypeOK /\ StoredOnce /\ [Next]_vars => StoredOnce'
  <2> SUFFICES ASSUME TypeOK, StoredOnce, [Next]_vars PROVE StoredOnce'
    OBVIOUS
  <2>1. CASE UNCHANGED <<store, work>> \/ Rollback \/ (store' = work /\ UNCHANGED work)
    BY <2>1 DEF StoredOnce, Rollback
  <2>2. ASSUME NEW r \in Row \ Stored(work), Execute(Inserted(r)) PROVE StoredOnce'
    <3>1. \A q \in Row : Inserted(r).rows[q] <= 1
      BY DEF Inserted, Stored, StoredOnce, TypeOK, Database
    <3> QED BY <2>2, <3>1 DEF Execute, StoredOnce
  <2>3. ASSUME cur \in File, Execute(Marked(cur, seen)) PROVE StoredOnce'
    BY <2>3 DEF Execute, Marked, StoredOnce
  <2> QED BY <2>1, <2>2, <2>3, DatabaseSteps
<1> QED BY <1>1, <1>2, TypeCorrect, PTL DEF Spec

-----------------------------------------------------------------------------
(* The table as the other services see it. *)

\* Each way the database can change is a step of the abstract table.
LEMMA TableStep ==
    ASSUME TypeOK, [Next]_vars
    PROVE  [Table!Next]_(Table!vars)
<1>1. CASE UNCHANGED <<store, work>>
  BY <1>1 DEF Table!vars, Stored
<1>2. CASE Rollback
  BY <1>2 DEF Rollback, Stored, Table!Next, Table!Rollback
<1>3. CASE store' = work /\ UNCHANGED work
  BY <1>3 DEF Stored, Table!Next, Table!Commit
<1>4. ASSUME NEW r \in Row \ Stored(work), Execute(Inserted(r))
      PROVE  Table!Insert(r)
  <2>1. Stored(work)' = Stored(work) \cup {r}
    BY <1>4, InsertedIs DEF Execute, Stored
  <2>2. CASE inTxn
    BY <1>4, <2>1, <2>2 DEF Execute, Stored, Table!Insert
  <2>3. CASE ~inTxn
    <3>1. work = store /\ store' = work'
      BY <1>4, <2>3 DEF Execute, TypeOK
    <3> QED BY <2>1, <3>1 DEF Stored, Table!Insert
  <2> QED BY <2>2, <2>3
<1>5. ASSUME cur \in File, Execute(Marked(cur, seen))
      PROVE  UNCHANGED Table!vars
  <2>1. Stored(work)' = Stored(work)
    BY <1>5, MarkedIs DEF Execute, Stored, TypeOK
  <2>2. Stored(store)' = Stored(store)
    BY <1>5, <2>1 DEF Execute, Stored, TypeOK
  <2> QED BY <2>1, <2>2 DEF Table!vars
<1> QED BY <1>1, <1>2, <1>3, <1>4, <1>5, DatabaseSteps DEF Table!Next

\* So the service implements WeatherTable.
THEOREM ImplementsTable == Spec => RowsAreKept
<1>1. Init => Table!Init
  BY DEF Init, Stored, Table!Init
<1>2. TypeOK /\ [Next]_vars => [Table!Next]_(Table!vars)
  BY TableStep
<1> QED BY <1>1, <1>2, TypeCorrect, PTL DEF Spec, RowsAreKept, Table!Spec

-----------------------------------------------------------------------------
(* The versions that count as taken. *)

\* Version s of f is not newer than the one on disk.
Older(s, f) ==
    s.mtime < mtime[f] \/ (s.mtime = mtime[f] /\ s.size <= Len(content[f]))

\* Everything the service knows of a file is of this version or an older one, so
\* a mark that does not name the present version never will.
NothingNewer ==
    /\ \A f \in File : /\ mtime[f] <= now
                       /\ Older(tracked[f], f)
                       /\ Older(work.marks[f], f)
                       /\ Older(store.marks[f], f)
    /\ cur \in File => Older(seen, cur)

\* While the file that was stat'ed is still the one on disk, the lines read so far
\* are stored, unless there was an error.
ReadIsStored ==
    /\ pc = "read" => pos >= 1
    /\ pc = "read" /\ ~errors /\ seen = StatOf(cur)
          => RecordsUpTo(content[cur], pos) \subseteq Stored(work)
    /\ pc = "mark" /\ seen = StatOf(cur) => Records(content[cur]) \subseteq Stored(work)

\* The marks in the open transaction, with the rows it holds.
MarkedIsStored ==
    \A f \in File : work.marks[f] = StatOf(f) => Records(content[f]) \subseteq Stored(work)

TrackingInv ==
    /\ Stored(store) \subseteq Stored(work)
    /\ NothingNewer
    /\ ReadIsStored
    /\ MarkedIsStored
    /\ TakenIsStored

\* Reading one line more adds at most that line's record.
LEMMA NextRecord ==
    ASSUME NEW c, NEW p \in Nat, p >= 1
    PROVE  RecordsUpTo(c, p + 1) \subseteq RecordsUpTo(c, p) \cup ({c[p + 1]} \cap Row)
BY DEF RecordsUpTo

LEMMA MoreRecords ==
    ASSUME NEW c, NEW p \in Nat, NEW q \in Nat, p <= q
    PROVE  RecordsUpTo(c, p) \subseteq RecordsUpTo(c, q)
BY DEF RecordsUpTo

\* A write moves a file past every version known before.
LEMMA WriteIsNewer ==
    ASSUME TypeOK, ~Spend("rewrite"), NEW f \in File, NEW c \in Contents, Write(f, c),
           mtime[f] <= now, NEW s \in Stat, NEW g \in File, Older(s, g)
    PROVE  /\ Older(s, g)'
           /\ s = StatOf(g)' => g # f /\ s = StatOf(g)
<1>1. /\ content' = [content EXCEPT ![f] = c] /\ mtime' = [mtime EXCEPT ![f] = now]
      /\ now > mtime[f] \/ Len(c) > Len(content[f])
  BY DEF Write
<1>2. Len(c) \in Nat /\ \A h \in File : Len(content[h]) \in Nat /\ mtime[h] \in Nat
  BY ContentsAssumption DEF TypeOK
<1>3. now \in Nat
  BY DEF TypeOK
<1>4. CASE g = f
  BY <1>1, <1>2, <1>3, <1>4 DEF Older, StatOf, Stat, TypeOK
<1>5. CASE g # f
  BY <1>1, <1>5 DEF Older, StatOf, TypeOK
<1> QED BY <1>4, <1>5

\* A full disk or a rewrite, once counted, stays counted.
LEMMA UndisturbedSteps ==
    ASSUME TypeOK, [Next]_vars, Undisturbed'
    PROVE  Undisturbed /\ ~Spend("full") /\ ~Spend("rewrite")
<1>1. ASSUME NEW e \in Bounded, Spend(e)
      PROVE  spent' \in [Bounded -> Nat] /\ \A d \in Bounded : spent'[d] >= spent[d]
  BY <1>1 DEF Spend, TypeOK
<1>2. UNCHANGED spent \/ \E e \in Bounded : Spend(e)
  BY DEF Next, MainStep, Write, Tick, Start, Stop, OpenDirectory, CloseDirectory, VisitFile,
         OpenFile, ReadLine, FinishFile, MarkFile, CommitTransaction, WriteFails, vars
<1>3. \A d \in Bounded : spent'[d] \in Nat /\ spent[d] \in Nat /\ spent'[d] >= spent[d]
  BY <1>1, <1>2 DEF TypeOK
<1>4. \A d \in Bounded : Spend(d) => spent'[d] = spent[d] + 1
  BY DEF Spend, TypeOK
<1> QED BY <1>3, <1>4 DEF Undisturbed

\* While no file is rewritten within a second and no disk is full, what counts as
\* taken is stored.  TakenIsStored alone is not inductive: that a mark is right when
\* it is set needs ReadIsStored, that it stays right needs NothingNewer, and that it
\* is right after COMMIT or restart needs MarkedIsStored.
THEOREM TakenStaysStored == Spec => []TrackedIsStored
<1>1. Init => TrackingInv
  <2> SUFFICES ASSUME Init PROVE TrackingInv
    OBVIOUS
  <2>1. \A f \in File : Records(content[f]) = {}
    <3>1. Records(<<>>) = {}
      BY DEF Records, RecordsUpTo
    <3>2. \A f \in File : content[f] = <<>>
      BY DEF Init
    <3> QED BY <3>1, <3>2
  <2>2. NothingNewer
    BY FileAssumption DEF Init, NothingNewer, Older, Untracked
  <2> QED BY <2>1, <2>2 DEF Init, TrackingInv, ReadIsStored, MarkedIsStored, TakenIsStored
<1>2. TypeOK /\ (Undisturbed => TrackingInv) /\ [Next]_vars => (Undisturbed => TrackingInv)'
  <2> SUFFICES ASSUME TypeOK, Undisturbed => TrackingInv, [Next]_vars, Undisturbed'
               PROVE  TrackingInv'
    OBVIOUS
  <2>0. TrackingInv /\ ~Spend("full") /\ ~Spend("rewrite")
    BY UndisturbedSteps
  <2> USE <2>0 DEF TrackingInv
  <2>1. ASSUME NEW f \in File, NEW c \in Contents, Write(f, c) PROVE TrackingInv'
    <3>1. /\ UNCHANGED <<store, work, up, tracked, pc, cur, seen, pos, errors, now>>
          /\ content' = [content EXCEPT ![f] = c] /\ mtime' = [mtime EXCEPT ![f] = now]
      BY <2>1 DEF Write, database, scan
    <3>2. /\ \A g \in File : tracked[g] \in Stat /\ work.marks[g] \in Stat
                             /\ store.marks[g] \in Stat
          /\ seen \in Stat
      BY DEF TypeOK, Database
    <3>3. \A s \in Stat, g \in File : Older(s, g) =>
              Older(s, g)' /\ (s = StatOf(g)' => g # f /\ s = StatOf(g))
      BY <2>1, WriteIsNewer DEF NothingNewer
    <3>4. \A g \in File \ {f} : content'[g] = content[g]
      BY <3>1 DEF TypeOK
    <3>5. NothingNewer'
      <4>1. \A g \in File : mtime'[g] <= now
        BY <3>1 DEF NothingNewer, TypeOK
      <4> QED BY <4>1, <3>1, <3>2, <3>3 DEF NothingNewer
    <3>6. ReadIsStored'
      <4>1. cur \in File /\ seen = StatOf(cur)' => cur # f /\ seen = StatOf(cur)
        <5>1. \A g \in File : cur = g => StatOf(cur)' = StatOf(g)'
          BY <3>1 DEF StatOf
        <5> QED BY <5>1, <3>2, <3>3 DEF NothingNewer
      <4>2. pc \in {"read", "mark"} => cur \in File
        BY DEF TypeOK
      <4>3. pc' = pc /\ errors' = errors /\ pos' = pos /\ seen' = seen /\ cur' = cur
        BY <3>1
      <4>4. Stored(work)' = Stored(work)
        BY <3>1 DEF Stored
      <4>5. cur \in File /\ cur # f => content'[cur] = content[cur]
        BY <3>4
      <4> QED BY <4>1, <4>2, <4>3, <4>4, <4>5 DEF ReadIsStored, Records, RecordsUpTo
    <3>7. /\ MarkedIsStored'
          /\ TakenIsStored'
      BY <3>1, <3>2, <3>3, <3>4
         DEF NothingNewer, MarkedIsStored, TakenIsStored, Records, RecordsUpTo, Stored
    <3> QED BY <3>1, <3>5, <3>6, <3>7 DEF Stored
  <2>2. CASE Tick
    <3>1. /\ UNCHANGED <<content, mtime, store, work, up, tracked, pc, cur, seen, pos, errors>>
          /\ now' = now + 1
      BY <2>2 DEF Tick, database, scan
    <3>2. NothingNewer'
      BY <3>1 DEF NothingNewer, Older, TypeOK
    <3> QED BY <3>1, <3>2 DEF ReadIsStored, MarkedIsStored, TakenIsStored, Records,
                              RecordsUpTo, Stored, StatOf
  <2>3. CASE Start
    <3>1. /\ UNCHANGED <<content, mtime, now, store, work, pc, cur, seen, pos, errors>>
          /\ tracked' = store.marks /\ work = store
      BY <2>3 DEF Start, disk, database, scan, TypeOK
    <3> QED BY <3>1 DEF NothingNewer, Older, ReadIsStored, MarkedIsStored, TakenIsStored,
                        Records, RecordsUpTo, Stored, StatOf
  <2>4. CASE Stop
    <3>1. /\ UNCHANGED <<content, mtime, now, store>> /\ work' = store
          /\ ~up' /\ pc' = "idle" /\ cur' = NoFile
          /\ tracked' = [f \in File |-> Untracked]
      BY <2>4 DEF Stop, disk, Rollback
    <3>2. NothingNewer'
      BY <3>1, FileAssumption DEF NothingNewer, Older, Untracked, TypeOK
    <3> QED BY <3>1, <3>2 DEF ReadIsStored, MarkedIsStored, TakenIsStored, Records,
                              RecordsUpTo, Stored, StatOf
  <2>5. CASE OpenDirectory \/ CloseDirectory \/ UNCHANGED vars
    <3>1. /\ UNCHANGED <<content, mtime, now, store, work, up, tracked, cur, seen, pos, errors>>
          /\ pc' = pc \/ pc' \in {"idle", "scan"}
      BY <2>5 DEF OpenDirectory, CloseDirectory, vars, disk, database, scan
    <3> QED BY <3>1 DEF NothingNewer, Older, ReadIsStored, MarkedIsStored, TakenIsStored,
                        Records, RecordsUpTo, Stored, StatOf
  <2>6. ASSUME NEW f \in File, VisitFile(f) PROVE TrackingInv'
    <3>1. /\ UNCHANGED <<content, mtime, now, store, work, up, tracked, pos, errors>>
          /\ pc' \in {"open", "scan"}
          /\ (cur' = cur /\ seen' = seen) \/ (cur' = f /\ seen' = StatOf(f))
      BY <2>6 DEF VisitFile, disk, database
    <3>2. NothingNewer'
      BY <3>1 DEF NothingNewer, Older, StatOf, TypeOK
    <3> QED BY <3>1, <3>2 DEF ReadIsStored, MarkedIsStored, TakenIsStored, Records,
                              RecordsUpTo, Stored, StatOf
  <2>7. CASE OpenFile
    <3>1. /\ UNCHANGED <<content, mtime, now, store, work, up, tracked>>
          /\ \/ pc' = "read" /\ pos' = 1 /\ UNCHANGED <<cur, seen, errors>>
             \/ pc' = "scan" /\ cur' = NoFile
      BY <2>7 DEF OpenFile, NextFile, BeginTransaction, disk, database
    <3>2. RecordsUpTo(content[cur], 1) = {}
      BY DEF RecordsUpTo
    <3>3. NothingNewer'
      BY <3>1, FileAssumption DEF NothingNewer, Older
    <3>4. ReadIsStored'
      BY <3>1, <3>2 DEF ReadIsStored, RecordsUpTo
    <3> QED BY <3>1, <3>3, <3>4 DEF MarkedIsStored, TakenIsStored, Records,
                              RecordsUpTo, Stored, StatOf
  <2>8. CASE ReadLine
    <3> DEFINE line == content[cur][pos + 1]
    <3>1. /\ UNCHANGED <<content, mtime, now, up, tracked, cur, seen>>
          /\ pc = "read" /\ pc' = "read" /\ pos' = pos + 1 /\ cur \in File
      BY <2>8 DEF ReadLine, disk, TypeOK
    <3> HIDE DEF line
    <3>2. \/ line = Junk /\ errors' /\ UNCHANGED database
          \/ line \in Row /\ InsertRow(line) /\ UNCHANGED errors
          \/ errors' /\ UNCHANGED database
      BY <2>8 DEF ReadLine, WriteFails, line
    <3>3. /\ work'.marks = work.marks /\ store'.marks = store.marks
          /\ Stored(work) \subseteq Stored(work') /\ Stored(store) \subseteq Stored(store')
          /\ Stored(store') \subseteq Stored(work')
      <4>1. CASE UNCHANGED <<store, work>>
        BY <4>1
      <4>2. ASSUME line \in Row, Execute(Inserted(line))
            PROVE  /\ work'.marks = work.marks /\ store'.marks = store.marks
                   /\ Stored(work) \subseteq Stored(work')
                   /\ Stored(store) \subseteq Stored(store')
                   /\ Stored(store') \subseteq Stored(work')
        BY <4>2, InsertedIs DEF Execute, Inserted, TypeOK
      <4> QED BY <3>2, <4>1, <4>2 DEF InsertRow, database
    <3>4. ~errors' => ~errors /\ ({line} \cap Row) \subseteq Stored(work')
      BY <3>2, InsertedIs DEF InsertRow, Execute, database, TypeOK
    <3>5. pos >= 1 /\ pos \in Nat
      BY <3>1 DEF ReadIsStored, TypeOK
    <3>6. RecordsUpTo(content[cur], pos + 1)
            \subseteq RecordsUpTo(content[cur], pos) \cup ({line} \cap Row)
      BY <3>5, NextRecord DEF line
    <3>7. ReadIsStored'
      BY <3>1, <3>3, <3>4, <3>5, <3>6 DEF ReadIsStored, StatOf, Stored, RecordsUpTo
    <3>8. NothingNewer'
      BY <3>1, <3>3 DEF NothingNewer, Older
    <3> QED BY <3>1, <3>3, <3>7, <3>8 DEF MarkedIsStored, TakenIsStored, Records,
                              RecordsUpTo, Stored, StatOf
  <2>9. CASE FinishFile
    <3>1. /\ UNCHANGED <<content, mtime, now, up, tracked, work>>
          /\ store' = store \/ store' = work
          /\ pc = "read" /\ pos >= Len(content[cur]) /\ cur \in File
          /\ \/ pc' = "scan" /\ cur' = NoFile
             \/ ~errors /\ pc' = "mark" /\ UNCHANGED <<cur, seen, errors>>
      BY <2>9 DEF FinishFile, NextFile, CommitTransaction, disk, database, TypeOK
    <3>2. Records(content[cur]) \subseteq RecordsUpTo(content[cur], pos)
      BY <3>1, MoreRecords DEF Records, TypeOK
    <3>3. NothingNewer'
      BY <3>1, FileAssumption DEF NothingNewer, Older
    <3>4. ReadIsStored'
      BY <3>1, <3>2 DEF ReadIsStored, StatOf, Stored, Records, RecordsUpTo
    <3> QED BY <3>1, <3>3, <3>4 DEF MarkedIsStored, TakenIsStored, Records,
                              RecordsUpTo, Stored, StatOf
  <2>10. CASE MarkFile
    <3>1. /\ UNCHANGED <<content, mtime, now, up>> /\ pc = "mark" /\ cur \in File
          /\ tracked' = [tracked EXCEPT ![cur] = seen] /\ pc' = "scan" /\ cur' = NoFile
          /\ Execute(Marked(cur, seen)) \/ UNCHANGED database
      BY <2>10 DEF MarkFile, NextFile, WriteFails, disk, TypeOK
    <3>2. Older(seen, cur) /\ (seen = StatOf(cur) => Records(content[cur]) \subseteq Stored(work))
      BY <3>1 DEF NothingNewer, ReadIsStored
    <3>3. seen \in Stat
      BY DEF TypeOK
    <3>4. /\ Stored(work') = Stored(work)
          /\ \A f \in File : work'.marks[f] = work.marks[f] \/ (f = cur /\ work'.marks[f] = seen)
          /\ \/ UNCHANGED store
             \/ store' = work'
      <4>1. CASE UNCHANGED database
        BY <4>1 DEF database
      <4>2. CASE Execute(Marked(cur, seen))
        <5>1. work' = Marked(cur, seen) /\ (store' = store \/ store' = work')
          BY <4>2 DEF Execute
        <5>2. Stored(work') = Stored(work)
          BY <5>1, <3>1, <3>3, MarkedIs
        <5>3. work.marks \in [File -> Stat]
          BY DEF TypeOK, Database
        <5>4. work'.marks = [work.marks EXCEPT ![cur] = seen]
          BY <5>1 DEF Marked
        <5> QED BY <5>1, <5>2, <5>3, <5>4
      <4> QED BY <3>1, <4>1, <4>2
    <3>5. \A f \in File : tracked'[f] = tracked[f] \/ (f = cur /\ tracked'[f] = seen)
      BY <3>1 DEF TypeOK
    <3>6. NothingNewer'
      BY <3>1, <3>2, <3>4, <3>5, FileAssumption DEF NothingNewer, Older
    <3>7. MarkedIsStored' /\ TakenIsStored'
      BY <3>1, <3>2, <3>4, <3>5 DEF MarkedIsStored, TakenIsStored, StatOf, Records,
                                    RecordsUpTo, Stored
    <3>8. ReadIsStored'
      BY <3>1 DEF ReadIsStored
    <3> QED BY <3>4, <3>6, <3>7, <3>8 DEF Stored
  <2> QED BY <2>1, <2>2, <2>3, <2>4, <2>5, <2>6, <2>7, <2>8, <2>9, <2>10
          DEF Next, MainStep
<1>3. (Undisturbed => TrackingInv) => TrackedIsStored
  BY DEF TrackingInv, TrackedIsStored
<1> QED BY <1>1, <1>2, <1>3, TypeCorrect, PTL DEF Spec

=============================================================================

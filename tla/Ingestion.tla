------------------------------ MODULE Ingestion ------------------------------
(***************************************************************************)
(* The ingestion service of src/services/ingestion/ingestion.c (S1): its   *)
(* main thread polls a directory of CSV files that other programs write,   *)
(* copies new and changed files into weather_data and remembers, in memory *)
(* and in processed_files, which version of each file it has taken.        *)
(*                                                                         *)
(* A line of a file is one of Row (a record sscanf can read) or Junk (a    *)
(* header, an empty or a malformed line).  Lines have equal length, so the *)
(* size of a file is its number of lines.                                  *)
(***************************************************************************)
EXTENDS Naturals, Sequences

CONSTANTS
    File,       \* names of the .csv files of csv_directory
    NoFile,     \* no file
    Row,        \* weather records
    Junk,       \* a line that is not a record
    Contents,   \* what the files may contain: sequences over Row \cup {Junk}
    Limit       \* bounds of the model, by kind of event

ASSUME FileAssumption == NoFile \notin File
ASSUME LineAssumption == Junk \notin Row
ASSUME ContentsAssumption == Contents \subseteq Seq(Row \cup {Junk})

\* The events whose number is bounded: ends of the process, opens that fail, writes
\* refused because of a reader or a full disk, seconds that pass, and files
\* rewritten, not longer, within the second of their last write.
Bounded == {"crash", "open", "busy", "full", "second", "rewrite"}
ASSUME LimitAssumption == Limit \in [Bounded -> Nat]

VARIABLES
    content,  \* content[f]: the lines of f now
    mtime,    \* mtime[f]: the second of the last write to f, 0 if there is no such file
    now,      \* the wall clock, in seconds
    up,       \* the service runs
    store,    \* the database as a crash would leave it
    work,     \* the database as the connection sees it, open transaction included
    inTxn,    \* a transaction is open
    tracked,  \* g_state.processed_files
    pc,       \* where the main thread is
    todo,     \* files the directory scan has still to visit
    cur,      \* the file of the current iteration of process_csv_files
    seen,     \* st: what stat said of it
    pos,      \* lines of it read so far
    errors,   \* error_count > 0
    spent     \* events counted against Limit

disk == <<content, mtime, now>>
database == <<store, work, inTxn>>
scan == <<pc, todo, cur, seen, pos, errors>>
vars == <<disk, database, up, tracked, scan, spent>>

Stat == [mtime : Nat, size : Nat]
\* The processed_files entry of a file that has none.
Untracked == [mtime |-> 0, size |-> 0]
StatOf(f) == [mtime |-> mtime[f], size |-> Len(content[f])]

\* rows[r] is the number of copies of r in weather_data, marks is processed_files.
Database == [rows : [Row -> Nat], marks : [File -> Stat]]

Spend(e) == /\ spent[e] < Limit[e]
            /\ spent' = [spent EXCEPT ![e] = @ + 1]

-----------------------------------------------------------------------------
(* The transactions of one SQLite connection. *)

\* A statement changes the connection's view to db; outside a transaction it is
\* durable at once.
Execute(db) ==
    /\ work' = db
    /\ store' = IF inTxn THEN store ELSE db
    /\ UNCHANGED inTxn

Rollback == work' = store /\ inTxn' = FALSE /\ UNCHANGED store

\* BEGIN inside a transaction fails, and the code does not look.
BeginTransaction == inTxn' = TRUE /\ UNCHANGED <<store, work>>

\* COMMIT's result is ignored.  While another connection reads the file it fails
\* and leaves the transaction open; when the disk is full SQLite rolls it back.
\* Outside a transaction it fails and there is nothing to commit.
CommitTransaction ==
    \/ store' = work /\ inTxn' = FALSE /\ UNCHANGED <<work, spent>>
    \/ /\ inTxn /\ work # store
       /\ \/ Spend("busy") /\ UNCHANGED database
          \/ Spend("full") /\ Rollback

\* A write fails: nothing was written, or the whole transaction is rolled back.
\* A reader elsewhere can refuse only a write that is a transaction of its own.
WriteFails ==
    \/ ~inTxn /\ Spend("busy") /\ UNCHANGED database
    \/ Spend("full") /\ (UNCHANGED database \/ Rollback)

-----------------------------------------------------------------------------
Init ==
    /\ content = [f \in File |-> <<>>]
    /\ mtime = [f \in File |-> 0]
    /\ now = 1
    /\ up = FALSE
    /\ store = [rows |-> [r \in Row |-> 0], marks |-> [f \in File |-> Untracked]]
    /\ work = store
    /\ inTxn = FALSE
    /\ tracked = [f \in File |-> Untracked]
    /\ pc = "idle"
    /\ todo = {}
    /\ cur = NoFile
    /\ seen = Untracked
    /\ pos = 0
    /\ errors = FALSE
    /\ spent = [e \in Bounded |-> 0]

(* Other programs write the files: a download, a copy, an editor. *)

Write(f, c) ==
    /\ IF now > mtime[f] \/ Len(c) > Len(content[f])
       THEN UNCHANGED spent
       ELSE Spend("rewrite")
    /\ content' = [content EXCEPT ![f] = c]
    /\ mtime' = [mtime EXCEPT ![f] = now]
    /\ UNCHANGED <<now, database, up, tracked, scan>>

Tick ==
    /\ Spend("second")
    /\ now' = now + 1
    /\ UNCHANGED <<content, mtime, database, up, tracked, scan>>

-----------------------------------------------------------------------------
(* The process. *)

\* main up to its loop: init_database keeps the tables that exist, then
\* load_processed_files_from_db fills the list in memory.
Start ==
    /\ ~up
    /\ up' = TRUE
    /\ tracked' = store.marks
    /\ UNCHANGED <<disk, database, scan, spent>>

\* The process ends, anywhere: SIGKILL, power, or cleanup() after SIGTERM, where
\* sqlite3_close rolls back a transaction that is still open.
Stop ==
    /\ up
    /\ Spend("crash")
    /\ up' = FALSE
    /\ Rollback
    /\ tracked' = [f \in File |-> Untracked]
    /\ pc' = "idle" /\ todo' = {} /\ cur' = NoFile /\ seen' = Untracked
    /\ pos' = 0 /\ errors' = FALSE
    /\ UNCHANGED disk

\* The main loop calls process_csv_files every poll_interval_seconds.
OpenDirectory ==
    /\ up /\ pc = "idle"
    /\ pc' = "scan"
    /\ todo' = {f \in File : mtime[f] > 0}
    /\ UNCHANGED <<disk, database, up, tracked, cur, seen, pos, errors, spent>>

CloseDirectory ==
    /\ up /\ pc = "scan" /\ todo = {}
    /\ pc' = "idle"
    /\ UNCHANGED <<disk, database, up, tracked, todo, cur, seen, pos, errors, spent>>

\* should_process_file: never taken, or another mtime or size.
ShouldProcess_NewerOnly(f) == StatOf(f).mtime > tracked[f].mtime
ShouldProcess(f) == tracked[f] # StatOf(f)

\* stat and should_process_file; the file is opened later.
VisitFile(f) ==
    /\ up /\ pc = "scan" /\ f \in todo
    /\ todo' = todo \ {f}
    /\ IF ShouldProcess(f)
       THEN pc' = "open" /\ cur' = f /\ seen' = StatOf(f)
       ELSE UNCHANGED <<pc, cur, seen>>
    /\ UNCHANGED <<disk, database, up, tracked, pos, errors, spent>>

\* The next iteration finds the last one's file.
NextFile_KeepsFile == pc' = "scan" /\ UNCHANGED <<cur, seen>> /\ pos' = 0 /\ errors' = FALSE

\* The iteration is over, and with it the variables of ingest_csv_file.
NextFile == pc' = "scan" /\ cur' = NoFile /\ seen' = Untracked /\ pos' = 0 /\ errors' = FALSE

\* ingest_csv_file up to its loop: BEGIN, and one fgets for the header, whatever
\* the first line is.  If the file cannot be opened the next poll tries again.
OpenFile ==
    /\ up /\ pc = "open"
    /\ \/ /\ BeginTransaction
          /\ pc' = "read" /\ pos' = 1
          /\ UNCHANGED <<cur, seen, errors, spent>>
       \/ Spend("open") /\ NextFile /\ UNCHANGED database
    /\ UNCHANGED <<disk, up, tracked, todo>>

Stored(db) == {r \in Row : db.rows[r] > 0}

Inserted(r) == [rows |-> [work.rows EXCEPT ![r] = @ + 1], marks |-> work.marks]

\* INSERT ... WHERE NOT EXISTS an equal row.
InsertRow_Plain(r) == Execute(Inserted(r))
\* An upsert: a corrected record takes the place of the one before.
InsertRow_Upsert(r) == Execute([Inserted(r) EXCEPT !.rows = [q \in Row |-> IF q = r THEN 1 ELSE 0]])
InsertRow(r) == IF r \in Stored(work) THEN UNCHANGED database ELSE Execute(Inserted(r))

\* One line of the loop of ingest_csv_file, read from the file as it is now.
ReadLine ==
    /\ up /\ pc = "read" /\ pos < Len(content[cur])
    /\ pos' = pos + 1
    /\ LET line == content[cur][pos + 1] IN
       \/ line = Junk /\ errors' = TRUE /\ UNCHANGED <<database, spent>>
       \/ line \in Row /\ InsertRow(line) /\ UNCHANGED <<errors, spent>>
       \/ line \in Row /\ line \notin Stored(work) /\ WriteFails /\ errors' = TRUE
    /\ UNCHANGED <<disk, up, tracked, pc, todo, cur, seen>>

\* End of file: COMMIT, whatever the errors, and -1 if there was one.
FinishFile ==
    /\ up /\ pc = "read" /\ pos >= Len(content[cur])
    /\ CommitTransaction
    /\ IF errors THEN NextFile ELSE pc' = "mark" /\ UNCHANGED <<cur, seen, pos, errors>>
    /\ UNCHANGED <<disk, up, tracked, todo>>

Marked(f, s) == [rows |-> work.rows, marks |-> [work.marks EXCEPT ![f] = s]]

\* The version is looked at only now, after the read.
MarkFile_LateStat ==
    /\ up /\ pc = "mark"
    /\ tracked' = [tracked EXCEPT ![cur] = StatOf(cur)]
    /\ \/ Execute(Marked(cur, StatOf(cur))) /\ UNCHANGED spent
       \/ WriteFails
    /\ NextFile
    /\ UNCHANGED <<disk, up, todo>>

\* mark_file_processed: the list in memory first, then processed_files, with what
\* stat said before the file was read.
MarkFile ==
    /\ up /\ pc = "mark"
    /\ tracked' = [tracked EXCEPT ![cur] = seen]
    /\ \/ Execute(Marked(cur, seen)) /\ UNCHANGED spent
       \/ WriteFails
    /\ NextFile
    /\ UNCHANGED <<disk, up, todo>>

MainStep ==
    \/ OpenDirectory \/ CloseDirectory \/ (\E f \in File : VisitFile(f))
    \/ OpenFile \/ ReadLine \/ FinishFile \/ MarkFile

Next ==
    \/ \E f \in File : \E c \in Contents : Write(f, c)
    \/ Tick
    \/ Start \/ Stop
    \/ MainStep

Spec == Init /\ [][Next]_vars

\* The main loop runs for ever and a service that ended is started again
\* (docker-compose.yml: restart: unless-stopped).  Nothing is assumed of the
\* writers, the clock or the faults.
FairSpec == Spec /\ WF_vars(Start) /\ WF_vars(MainStep)

-----------------------------------------------------------------------------
(* Properties. *)

\* The records of the first p lines of a file, its first line aside.
RecordsUpTo(c, p) == {c[i] : i \in 2 .. p} \cap Row
Records(c) == RecordsUpTo(c, Len(c))

\* The variables have their types; a transaction is open only while the service
\* runs, and without one the connection sees the durable database.
TypeOK ==
    /\ content \in [File -> Seq(Row \cup {Junk})]
    /\ mtime \in [File -> Nat] /\ now \in Nat
    /\ up \in BOOLEAN /\ inTxn \in BOOLEAN
    /\ store \in Database /\ work \in Database
    /\ (inTxn => up) /\ (~inTxn => work = store)
    /\ tracked \in [File -> Stat]
    /\ pc \in {"idle", "scan", "open", "read", "mark"}
    /\ todo \subseteq File
    /\ IF pc \in {"open", "read", "mark"} THEN cur \in File ELSE cur = NoFile
    /\ seen \in Stat /\ pos \in Nat /\ errors \in BOOLEAN
    /\ spent \in [Bounded -> Nat]

\* Nothing was rewritten behind the service's back and no disk was full.
Undisturbed == spent["full"] = 0 /\ spent["rewrite"] = 0

\* A version of a file that counts as taken, in memory or in processed_files, has
\* all its records in weather_data; in the durable marks, durably.
TakenIsStored ==
    \A f \in File :
        /\ up /\ tracked[f] = StatOf(f) => Records(content[f]) \subseteq Stored(work)
        /\ store.marks[f] = StatOf(f) => Records(content[f]) \subseteq Stored(store)

\* So it is until then, although the file may be written between stat and read, and
\* the service may end between COMMIT and mark or with a transaction that a COMMIT
\* left open.
TrackedIsStored == Undisturbed => TakenIsStored

\* However often a file is taken again, after a change, an error or a restart, no
\* record is stored twice.
StoredOnce == \A r \in Row : store.rows[r] <= 1 /\ work.rows[r] <= 1

AllDurable == \A f \in File : Records(content[f]) \subseteq Stored(store)

\* In the end every record of every file is durable, whatever malformed lines the
\* file has and whatever crashes and failed opens delay it, if no write to the
\* database was refused.
EverythingStored == <>[](Undisturbed /\ spent["busy"] = 0 => AllDurable)

-----------------------------------------------------------------------------
(* The table that the aggregation service reads (WeatherTable.tla). *)
Table == INSTANCE WeatherTable WITH durable <- Stored(store), visible <- Stored(work)

\* Rows are only added, durable ones stay, and those of a transaction become durable
\* or go together, whatever is read and whatever fails.
RowsAreKept == Table!Spec

-----------------------------------------------------------------------------
(* What the documentation says and the code does not do. *)

\* ARCHITECTURE.md: readers don't block writers.  A reader may delay the storing of
\* a file, never prevent it.
ReadersDontBlock == <>[](Undisturbed => AllDurable)

\* ingestion.c: "Skip header if present".  A first line that is a record is not
\* skipped in a version that counts as taken.
OnlyHeadersSkipped ==
    \A f \in File : up /\ tracked[f] = StatOf(f) /\ content[f] # <<>> /\ content[f][1] \in Row
                        => content[f][1] \in Stored(work)

=============================================================================

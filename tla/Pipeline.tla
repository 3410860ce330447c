------------------------------ MODULE Pipeline ------------------------------
(***************************************************************************)
(* From weather_data to the daily aggregates: the aggregation service of   *)
(* src/services/aggregation/aggregation.c (S2) fetches the table page by   *)
(* page from the HTTP interface of the ingestion service (ingestion.c),    *)
(* which goes on writing, and rebuilds daily_aggregates, which the query   *)
(* service (query.c, S3) reads from the same file meanwhile.               *)
(*                                                                         *)
(* The table is as in WeatherTable, with the order of the rows: rows 1 to  *)
(* committed are durable, the others belong to the open transaction.       *)
(***************************************************************************)
EXTENDS Integers, Sequences, FiniteSetsExt

CONSTANTS
    Record,       \* weather records: [date, series, value], series = station and element
    PageSize,     \* limit
    MAX_RETRIES,
    Limit         \* bounds of the model, by kind of event

ASSUME RecordAssumption == \A r \in Record : r.date \in Nat /\ r.value \in Int
ASSUME PageAssumption == PageSize \in Nat \ {0}
ASSUME RetryAssumption == MAX_RETRIES \in Nat \ {0}

\* The events whose number is bounded: faults (a transaction rolled back, a request
\* that fails, an answer cut short, an end of the aggregation service) and reads of
\* the query service.
Bounded == {"fault", "query"}
ASSUME LimitAssumption == Limit \in [Bounded -> Nat]

VARIABLES
    table,     \* the rows of weather_data by id, as the ingesting connection sees them
    committed, \* how many of them are durable
    daily,     \* daily_aggregates
    reading,   \* the query service holds a read lock on daily_aggregates
    pc,        \* where fetch_and_aggregate is
    offset, total, retries,
    page,      \* the records of the last answer still to be aggregated (with the ids
               \* of their rows, which the answer does not carry, for folded)
    count,     \* its "count"
    base,      \* history: rows in the table when the pass began
    folded,       \* history: ids of the rows the pass has aggregated
    disturbed, \* history: a rollback, a refused write or a cut answer during the pass
    spent      \* events counted against Limit

store == <<table, committed>>
history == <<base, folded, disturbed>>
request == <<offset, total, retries, page, count>>
vars == <<store, daily, reading, pc, request, history, spent>>

Spend(e) == /\ spent[e] < Limit[e]
            /\ spent' = [spent EXCEPT ![e] = @ + 1]

-----------------------------------------------------------------------------
(* Aggregates. *)

\* UNIQUE(station_id, date, metric)
KeyOf(r) == <<r.series, r.date>>
Key == {KeyOf(r) : r \in Record}

\* A row of daily_aggregates; avg_value is sum / n.
NoRow == [n |-> 0, sum |-> 0, min |-> 0, max |-> 0]

\* The least value is overwritten.
Upserted_Latest(a, v) ==
    IF a.n = 0 THEN [n |-> 1, sum |-> v, min |-> v, max |-> v]
    ELSE [n |-> a.n + 1, sum |-> a.sum + v,
          min |-> v,
          max |-> IF v > a.max THEN v ELSE a.max]

\* INSERT ... ON CONFLICT DO UPDATE of one record.
Upserted(a, v) ==
    IF a.n = 0 THEN [n |-> 1, sum |-> v, min |-> v, max |-> v]
    ELSE [n |-> a.n + 1, sum |-> a.sum + v,
          min |-> IF v < a.min THEN v ELSE a.min,
          max |-> IF v > a.max THEN v ELSE a.max]

\* The row of daily_aggregates that the rows at I should have.
Aggregate(rows, I) ==
    LET V == {rows[i].value : i \in I}
    IN  IF I = {} THEN NoRow
        ELSE [n |-> Cardinality(I), sum |-> SumFunction([i \in I |-> rows[i].value]),
              min |-> Min(V), max |-> Max(V)]

\* The aggregates that a sequence of rows should have.
Daily(rows) == [k \in Key |-> Aggregate(rows, {i \in DOMAIN rows : KeyOf(rows[i]) = k})]

\* A statement on daily_aggregates outside a transaction: its commit fails while the
\* query service reads, and the code ignores the result.
Execute(d) == /\ daily' = IF reading THEN daily ELSE d
              /\ disturbed' = (disturbed \/ reading)

-----------------------------------------------------------------------------
Init ==
    /\ table = <<>> /\ committed = 0
    /\ daily = [k \in Key |-> NoRow]
    /\ reading = FALSE
    /\ pc = "idle"
    /\ offset = 0 /\ total = 0 /\ retries = 0 /\ page = <<>> /\ count = 0
    /\ base = 0 /\ folded = {} /\ disturbed = FALSE
    /\ spent = [e \in Bounded |-> 0]

(* The main thread of the ingestion service: the steps of WeatherTable. *)

InsertRow(r) ==
    /\ r \notin {table[i] : i \in DOMAIN table}
    /\ table' = Append(table, r)
    /\ \/ UNCHANGED committed
       \/ committed = Len(table) /\ committed' = Len(table')
    /\ UNCHANGED <<daily, reading, pc, request, history, spent>>

Commit ==
    /\ committed < Len(table)
    /\ committed' = Len(table)
    /\ UNCHANGED <<table, daily, reading, pc, request, history, spent>>

Rollback ==
    /\ committed < Len(table)
    /\ Spend("fault")
    /\ table' = SubSeq(table, 1, committed)
    /\ disturbed' = (pc # "idle")
    /\ UNCHANGED <<committed, daily, reading, pc, request, base, folded>>

(* The query service: a SELECT holds its lock until sqlite3_finalize. *)

BeginQuery ==
    /\ ~reading /\ Spend("query")
    /\ reading' = TRUE
    /\ UNCHANGED <<store, daily, pc, request, history>>

EndQuery ==
    /\ reading
    /\ reading' = FALSE
    /\ UNCHANGED <<store, daily, pc, request, history, spent>>

-----------------------------------------------------------------------------
(* fetch_and_aggregate, at start and every aggregation_interval_seconds. *)

NewPass == /\ pc' = "request" /\ base' = Len(table)
           /\ UNCHANGED <<request, folded>>

\* The offset survives the pass, as it would in a static variable.
Leave_KeepsOffset == /\ pc' = "idle"
                     /\ total' = 0 /\ retries' = 0 /\ page' = <<>> /\ count' = 0
                     /\ base' = 0 /\ folded' = {} /\ disturbed' = FALSE
                     /\ UNCHANGED offset

\* It returns, or its process ends: the variables of the pass are gone.
Leave == /\ pc' = "idle"
         /\ offset' = 0 /\ total' = 0 /\ retries' = 0 /\ page' = <<>> /\ count' = 0
         /\ base' = 0 /\ folded' = {} /\ disturbed' = FALSE

\* A pass that builds on the rows of the last one.
BeginPass_KeepsOld ==
    /\ pc = "idle"
    /\ NewPass
    /\ disturbed' = FALSE
    /\ UNCHANGED <<store, daily, reading, spent>>

\* It begins with DELETE FROM daily_aggregates.
BeginPass ==
    /\ pc = "idle"
    /\ NewPass
    /\ daily' = IF reading THEN daily ELSE [k \in Key |-> NoRow]
    /\ disturbed' = reading
    /\ UNCHANGED <<store, reading, spent>>

\* The process ends in the middle of a pass and is started again.
Crash ==
    /\ pc # "idle"
    /\ Spend("fault")
    /\ Leave
    /\ UNCHANGED <<store, daily, reading>>

\* ORDER BY date DESC, rows of one date in the order of their ids.
Earlier(i, j) == \/ table[i].date > table[j].date
                 \/ table[i].date = table[j].date /\ i < j
Rank(i) == Cardinality({j \in DOMAIN table : Earlier(j, i)})

RowAt(p) == CHOOSE i \in DOMAIN table : Rank(i) = p

\* LIMIT limit OFFSET offset
PageLength == IF offset >= Len(table) THEN 0
              ELSE IF Len(table) - offset < PageSize THEN Len(table) - offset ELSE PageSize

\* The API thread of the ingestion service selects a page; it sees the open
\* transaction, whose connection it shares.  An error of sqlite3_step ends its loop
\* like the last row.
SelectPage ==
    /\ pc = "request"
    /\ \E n \in 0 .. PageLength :
          /\ IF n = PageLength THEN UNCHANGED <<disturbed, spent>>
                              ELSE Spend("fault") /\ disturbed' = TRUE
          /\ page' = [k \in 1 .. n |-> LET i == RowAt(offset + k - 1)
                                       IN  [id |-> i, row |-> table[i]]]
          /\ count' = n
    /\ pc' = "count"
    /\ UNCHANGED <<store, daily, reading, offset, total, retries, base, folded>>

\* The total of the first answer is kept for the whole pass.
CountRows_FirstOnly ==
    /\ pc = "count"
    /\ total' = IF total = 0 THEN Len(table) ELSE total
    /\ pc' = "fold" /\ retries' = 0
    /\ UNCHANGED <<store, daily, reading, offset, page, count, history, spent>>

\* SELECT COUNT(*) for "total", a statement of its own; then the answer arrives.
CountRows ==
    /\ pc = "count"
    /\ total' = Len(table)
    /\ pc' = "fold" /\ retries' = 0
    /\ UNCHANGED <<store, daily, reading, offset, page, count, history, spent>>

\* A request is tried again after a failure, MAX_RETRIES times in all; after an
\* answer 4xx (fatal) it is not.  Then the pass ends where it is.
RequestFails(fatal) ==
    /\ pc \in {"request", "count"}
    /\ Spend("fault")
    /\ IF fatal \/ retries + 1 = MAX_RETRIES
       THEN Leave
       ELSE /\ pc' = "request" /\ retries' = retries + 1 /\ page' = <<>> /\ count' = 0
            /\ UNCHANGED <<offset, total, history>>
    /\ UNCHANGED <<store, daily, reading>>

FoldRecord ==
    /\ pc = "fold" /\ page # <<>>
    /\ LET r == Head(page).row
       IN  Execute([daily EXCEPT ![KeyOf(r)] = Upserted(@, r.value)])
    /\ page' = Tail(page)
    /\ folded' = folded \cup {Head(page).id}
    /\ UNCHANGED <<store, reading, pc, offset, total, retries, count, base, spent>>

\* The next page, unless this one was empty or reached the total it came with.
NextPage ==
    /\ pc = "fold" /\ page = <<>>
    /\ offset' = offset + count /\ count' = 0
    /\ pc' = IF count = 0 \/ (total > 0 /\ offset' >= total) THEN "done" ELSE "request"
    /\ UNCHANGED <<store, daily, reading, total, retries, page, history, spent>>

\* "Aggregation complete"
EndPass ==
    /\ pc = "done"
    /\ Leave
    /\ UNCHANGED <<store, daily, reading, spent>>

PassStep == \/ BeginPass \/ SelectPage \/ CountRows \/ FoldRecord \/ NextPage \/ EndPass
            \/ \E fatal \in BOOLEAN : RequestFails(fatal)

Next == \/ (\E r \in Record : InsertRow(r)) \/ Commit \/ Rollback
        \/ BeginQuery \/ EndQuery
        \/ PassStep \/ Crash

Spec == Init /\ [][Next]_vars

\* The main loop of the aggregation service runs for ever, the service is restarted
\* when it ends, and a query is answered some time.
FairSpec == Spec /\ WF_vars(PassStep) /\ WF_vars(EndQuery)

-----------------------------------------------------------------------------
(* Properties. *)

Row == [n : Nat, sum : Int, min : Int, max : Int]

\* The variables have their types, and a pass takes nothing over from the one before.
TypeOK ==
    /\ table \in Seq(Record) /\ committed \in 0 .. Len(table)
    /\ daily \in [Key -> Row]
    /\ reading \in BOOLEAN
    /\ pc \in {"idle", "request", "count", "fold", "done"}
    /\ offset \in Nat /\ total \in Nat /\ count \in Nat
    /\ retries \in 0 .. MAX_RETRIES - 1
    /\ page \in Seq([id : Nat \ {0}, row : Record])
    /\ (pc = "idle" => offset = 0 /\ total = 0 /\ count = 0 /\ page = <<>> /\ folded = {})
    /\ base \in Nat /\ folded \subseteq Nat \ {0} /\ disturbed \in BOOLEAN
    /\ spent \in [Bounded -> Nat]

\* A pass over a table that does not change, with no write refused, leaves exactly
\* the aggregates of its rows, whatever an earlier pass left and however many
\* requests had to be repeated.
CompletePassIsExact ==
    pc = "done" /\ ~disturbed /\ Len(table) = base => daily = Daily(table)

\* Rows that the ingestion service adds between two pages move the others to later
\* offsets; a complete pass has nevertheless aggregated every row that was there
\* when it began, unless a transaction was rolled back or an answer cut short.
NothingSkipped == pc = "done" /\ ~disturbed => 1 .. base \subseteq folded

\* A pass over a table that grows meanwhile may take a row twice, but it never counts
\* fewer than were there when it began, and its extremes enclose theirs and are
\* values of the table (aggregation.c:311-335, :348).
GrowingPassIsBounded ==
    pc = "done" /\ ~disturbed =>
       \A k \in Key :
          LET of(n) == {i \in 1 .. n : KeyOf(table[i]) = k}
          IN  of(base) # {} =>
                 /\ daily[k].n >= Cardinality(of(base))
                 /\ \A i \in of(base) : table[i].value \in daily[k].min .. daily[k].max
                 /\ {daily[k].min, daily[k].max} \subseteq {table[i].value : i \in of(Len(table))}

\* The table that is paged keeps the promise of WeatherTable: a page may hold rows of an
\* open transaction, and durable ones stay.
Table == INSTANCE WeatherTable WITH Row <- Record,
                                    durable <- {table[i] : i \in 1 .. committed},
                                    visible <- {table[i] : i \in DOMAIN table}
RowsAreKept == Table!Spec

\* Whatever was refused, repeated or cut short, later passes make it good: the
\* aggregates of the whole table appear again and again.
ExactInTheEnd == []<>(daily = Daily(table))

-----------------------------------------------------------------------------
(* What the documentation says and the code does not do. *)

\* aggregation_contract.yaml: isolation: serializable.  The aggregates of a complete,
\* undisturbed pass are those of the table at one moment.
PassIsSerializable ==
    pc = "done" /\ ~disturbed
        => \E n \in base .. Len(table) : daily = Daily(SubSeq(table, 1, n))

=============================================================================

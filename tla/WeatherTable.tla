---------------------------- MODULE WeatherTable ----------------------------
(***************************************************************************)
(* What the ingestion service promises of its table weather_data, whatever *)
(* it reads and whatever fails: rows are only added; a row that is durable *)
(* stays; the rows of an open transaction become durable together or go    *)
(* together.  Ingestion implements this, and the pages that Pipeline's     *)
(* aggregation service fetches are read from such a table.                 *)
(***************************************************************************)
CONSTANT Row

VARIABLES
    durable,  \* the rows that survive the end of the process
    visible   \* the rows that a read over the service's connection returns

vars == <<durable, visible>>

Init == durable = {} /\ visible = {}

\* One INSERT: in a transaction that is open, or one of its own.
Insert(r) ==
    /\ r \notin visible
    /\ visible' = visible \cup {r}
    /\ \/ UNCHANGED durable
       \/ durable = visible /\ durable' = visible'

Commit == durable' = visible /\ UNCHANGED visible

Rollback == visible' = durable /\ UNCHANGED durable

Next == (\E r \in Row : Insert(r)) \/ Commit \/ Rollback

Spec == Init /\ [][Next]_vars

=============================================================================

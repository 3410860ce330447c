---------------------------- MODULE PipelineProofs ----------------------------
(***************************************************************************)
(* Theorems about Pipeline, for any records, page size and bounds.         *)
(***************************************************************************)
EXTENDS Pipeline, SumTheorems

-----------------------------------------------------------------------------
(* The order in which the rows are paged. *)

\* An interval of naturals is finite and as large as it says.
LEMMA IntervalSize ==
    ASSUME NEW n \in Nat
    PROVE  /\ IsFiniteSet(1 .. n) /\ Cardinality(1 .. n) = n
           /\ IsFiniteSet(0 .. n - 1) /\ Cardinality(0 .. n - 1) = n
<1>1. /\ IsFiniteSet(1 .. n)
      /\ Cardinality(1 .. n) = IF 1 > n THEN 0 ELSE n - 1 + 1
  BY FS_Interval
<1>2. 0 \in Int /\ n - 1 \in Int
  OBVIOUS
<1>3. /\ IsFiniteSet(0 .. n - 1)
      /\ Cardinality(0 .. n - 1) = IF 0 > n - 1 THEN 0 ELSE n - 1 - 0 + 1
  BY <1>2, FS_Interval
<1> QED BY <1>1, <1>3

\* The rows that come before row i, and where that puts it.
Before(i) == {j \in DOMAIN table : Earlier(j, i)}

\* A row's place in the order of the pages is less than the number of rows.
LEMMA RankBounds ==
    ASSUME table \in Seq(Record), NEW i \in DOMAIN table
    PROVE  /\ IsFiniteSet(Before(i)) /\ Rank(i) = Cardinality(Before(i))
           /\ Rank(i) \in 0 .. Len(table) - 1
<1> DEFINE Others == (1 .. Len(table)) \ {i}
<1>1. /\ Len(table) \in Nat /\ IsFiniteSet(1 .. Len(table))
      /\ Cardinality(1 .. Len(table)) = Len(table)
  BY IntervalSize
<1>2. i \in 1 .. Len(table) /\ IsFiniteSet(Others) /\ Cardinality(Others) = Len(table) - 1
  <2>1. i \in 1 .. Len(table)
    OBVIOUS
  <2>2. /\ IsFiniteSet(Others)
        /\ Cardinality(Others) = IF i \in 1 .. Len(table) THEN Cardinality(1 .. Len(table)) - 1
                                ELSE Cardinality(1 .. Len(table))
    BY <1>1, FS_RemoveElement
  <2> QED BY <1>1, <2>1, <2>2
<1>3. table[i].date \in Nat /\ ~Earlier(i, i)
  BY RecordAssumption DEF Earlier
<1>4. Before(i) \in SUBSET Others
  BY <1>3 DEF Before
<1>5. IsFiniteSet(Before(i)) /\ Cardinality(Before(i)) <= Cardinality(Others)
  BY <1>2, <1>4, FS_Subset
<1>6. Cardinality(Before(i)) \in Nat
  BY <1>5, FS_CardinalityType
<1> QED BY <1>2, <1>5, <1>6 DEF Rank, Before

\* A row that comes before another has a smaller offset.
LEMMA EarlierIsSmaller ==
    ASSUME table \in Seq(Record), NEW i \in DOMAIN table, NEW j \in DOMAIN table, Earlier(i, j)
    PROVE  Rank(i) < Rank(j)
<1>1. /\ table[i].date \in Nat /\ table[j].date \in Nat
      /\ \A k \in DOMAIN table : table[k].date \in Nat
  BY RecordAssumption
<1>2. i \notin Before(i) /\ Before(i) \cup {i} \in SUBSET Before(j)
  BY <1>1 DEF Before, Earlier
<1>3. /\ IsFiniteSet(Before(i)) /\ Rank(i) = Cardinality(Before(i)) /\ Rank(i) \in Nat
      /\ IsFiniteSet(Before(j)) /\ Rank(j) = Cardinality(Before(j)) /\ Rank(j) \in Nat
  BY RankBounds
<1>4. Cardinality(Before(i) \cup {i}) = Cardinality(Before(i)) + 1
  BY <1>2, <1>3, FS_AddElement
<1>5. Cardinality(Before(i) \cup {i}) <= Cardinality(Before(j))
  BY <1>2, <1>3, FS_Subset
<1> QED BY <1>3, <1>4, <1>5

\* No two rows have the same offset, and every offset below the number of rows has
\* its row.
LEMMA OneRowPerOffset ==
    ASSUME table \in Seq(Record)
    PROVE  /\ \A i, j \in DOMAIN table : Rank(i) = Rank(j) => i = j
           /\ \A p \in 0 .. Len(table) - 1 : RowAt(p) \in DOMAIN table /\ Rank(RowAt(p)) = p
           /\ \A i \in DOMAIN table : RowAt(Rank(i)) = i
<1> DEFINE n == Len(table)
           f == [i \in 1 .. n |-> Rank(i)]
<1>1. \A i, j \in DOMAIN table : Rank(i) = Rank(j) => i = j
  <2> SUFFICES ASSUME NEW i \in DOMAIN table, NEW j \in DOMAIN table, i # j
               PROVE  Rank(i) # Rank(j)
    OBVIOUS
  <2>1. Earlier(i, j) \/ Earlier(j, i)
    BY RecordAssumption DEF Earlier
  <2>2. Rank(i) \in Nat /\ Rank(j) \in Nat
    BY RankBounds
  <2> QED BY <2>1, <2>2, EarlierIsSmaller
<1>2. f \in Injection(1 .. n, 0 .. n - 1)
  BY <1>1, RankBounds DEF Injection, IsInjective
<1>3. /\ IsFiniteSet(0 .. n - 1) /\ Cardinality(0 .. n - 1) = n
      /\ IsFiniteSet(1 .. n) /\ Cardinality(1 .. n) = n
  BY IntervalSize
<1>4. f \in Surjection(1 .. n, 0 .. n - 1)
  BY <1>2, <1>3, FS_Injection
<1>5. \A p \in 0 .. n - 1 : \E i \in DOMAIN table : Rank(i) = p
  <2>1. \A p \in 0 .. n - 1 : \E i \in 1 .. n : f[i] = p
    BY <1>4 DEF Surjection
  <2>2. DOMAIN table = 1 .. n /\ \A i \in 1 .. n : f[i] = Rank(i)
    OBVIOUS
  <2> HIDE DEF f
  <2> QED BY <2>1, <2>2
<1>6. \A p \in 0 .. n - 1 : RowAt(p) \in DOMAIN table /\ Rank(RowAt(p)) = p
  BY <1>5 DEF RowAt
<1>7. \A i \in DOMAIN table : RowAt(Rank(i)) = i
  BY <1>1, <1>6, RankBounds
<1> QED BY <1>1, <1>6, <1>7

\* A row that is added moves no other to a smaller offset.
LEMMA AppendKeepsOrder ==
    ASSUME table \in Seq(Record), NEW r \in Record, table' = Append(table, r),
           NEW i \in DOMAIN table
    PROVE  i \in DOMAIN table' /\ Rank(i)' >= Rank(i)
<1>1. /\ table' \in Seq(Record) /\ DOMAIN table \subseteq DOMAIN table'
      /\ \A j \in DOMAIN table : table'[j] = table[j]
  OBVIOUS
<1>2. Before(i) \in SUBSET Before(i)'
  BY <1>1 DEF Before, Earlier
<1>3. IsFiniteSet(Before(i)) /\ Rank(i) = Cardinality(Before(i))
  BY RankBounds
<1>4. IsFiniteSet(Before(i)') /\ Rank(i)' = Cardinality(Before(i)')
  <2> DEFINE Others == (1 .. Len(table'))
  <2>1. IsFiniteSet(Others)
    BY <1>1, FS_Interval
  <2>2. Before(i)' \in SUBSET Others
    BY <1>1 DEF Before
  <2> QED BY <2>1, <2>2, FS_Subset DEF Rank, Before
<1>5. Cardinality(Before(i)) \in Nat /\ Cardinality(Before(i)') \in Nat
  BY <1>3, <1>4, FS_CardinalityType
<1>6. Cardinality(Before(i)) <= Cardinality(Before(i)')
  BY <1>2, <1>4, FS_Subset
<1> QED BY <1>1, <1>3, <1>4, <1>5, <1>6

-----------------------------------------------------------------------------
(* Types. *)

Entry == [id : Nat \ {0}, row : Record]

\* The upsert makes a row of daily_aggregates of one.
LEMMA UpsertTypes ==
    ASSUME NEW a \in Row, NEW v \in Int
    PROVE  Upserted(a, v) \in Row
BY DEF Upserted, Row

LEMMA SpendTypes ==
    ASSUME TypeOK, NEW e \in Bounded, Spend(e)
    PROVE  spent' \in [Bounded -> Nat]
BY DEF TypeOK, Spend

\* The variables of a pass, when it is over.
LEMMA LeaveTypes ==
    ASSUME Leave, UNCHANGED <<store, daily, reading>>, TypeOK, spent' \in [Bounded -> Nat]
    PROVE  TypeOK'
<1>1. /\ table' \in Seq(Record) /\ committed' \in 0 .. Len(table')
      /\ daily' \in [Key -> Row] /\ reading' \in BOOLEAN
  BY DEF TypeOK, store
<1>2. retries' \in 0 .. MAX_RETRIES - 1
  BY RetryAssumption DEF Leave
<1>3. page' = <<>> /\ page' \in Seq([id : Nat \ {0}, row : Record])
  BY DEF Leave
<1> QED BY <1>1, <1>2, <1>3 DEF Leave, TypeOK

\* What a page holds: rows of the table, with their ids.
LEMMA PageTypes ==
    ASSUME TypeOK, NEW n \in 0 .. PageLength
    PROVE  /\ PageLength \in Nat /\ n \in Nat
           /\ \A k \in 1 .. n : /\ RowAt(offset + k - 1) \in DOMAIN table
                                /\ Rank(RowAt(offset + k - 1)) = offset + k - 1
           /\ [k \in 1 .. n |-> LET i == RowAt(offset + k - 1)
                                IN  [id |-> i, row |-> table[i]]] \in Seq(Entry)
<1>1. table \in Seq(Record) /\ offset \in Nat /\ Len(table) \in Nat /\ PageSize \in Nat \ {0}
  BY PageAssumption DEF TypeOK
<1>2. PageLength \in Nat /\ n \in Nat
      /\ \A k \in 1 .. n : offset + k - 1 \in 0 .. Len(table) - 1
  BY <1>1 DEF PageLength
<1>3. \A k \in 1 .. n : /\ RowAt(offset + k - 1) \in DOMAIN table
                        /\ Rank(RowAt(offset + k - 1)) = offset + k - 1
  BY <1>1, <1>2, OneRowPerOffset
<1>4. \A i \in DOMAIN table : [id |-> i, row |-> table[i]] \in Entry
  BY <1>1 DEF Entry
<1> QED BY <1>2, <1>3, <1>4

\* The variables keep their types in any order of insertions, rollbacks, failed
\* requests and queries, and each pass starts from nothing.
THEOREM TypeCorrect == Spec => []TypeOK
<1>1. Init => TypeOK
  <2> SUFFICES ASSUME Init PROVE TypeOK
    OBVIOUS
  <2>1. table \in Seq(Record) /\ committed \in 0 .. Len(table)
    BY DEF Init
  <2>2. daily \in [Key -> Row] /\ spent \in [Bounded -> Nat]
    BY DEF Init, Row, NoRow
  <2>3. retries \in 0 .. MAX_RETRIES - 1
    BY RetryAssumption DEF Init
  <2>4. page = <<>> /\ page \in Seq([id : Nat \ {0}, row : Record])
    BY DEF Init
  <2> QED BY <2>1, <2>2, <2>3, <2>4 DEF Init, TypeOK
<1>2. TypeOK /\ [Next]_vars => TypeOK'
  <2> SUFFICES ASSUME TypeOK, [Next]_vars PROVE TypeOK'
    OBVIOUS
  <2> USE DEF store, request, history
  <2>1. ASSUME NEW r \in Record, InsertRow(r) PROVE TypeOK'
    BY <2>1 DEF InsertRow, TypeOK
  <2>2. CASE Commit
    BY <2>2 DEF Commit, TypeOK
  <2>3. CASE Rollback
    <3>1. spent' \in [Bounded -> Nat]
      BY <2>3, SpendTypes DEF Rollback, Bounded
    <3>2. table' \in Seq(Record) /\ Len(table') = committed
      BY <2>3 DEF Rollback, TypeOK
    <3> QED BY <2>3, <3>1, <3>2 DEF Rollback, TypeOK
  <2>4. CASE BeginQuery
    <3>1. spent' \in [Bounded -> Nat]
      BY <2>4, SpendTypes DEF BeginQuery, Bounded
    <3> QED BY <2>4, <3>1 DEF BeginQuery, TypeOK
  <2>5. CASE EndQuery
    BY <2>5 DEF EndQuery, TypeOK
  <2>6. CASE BeginPass
    <3>1. Len(table) \in Nat /\ [k \in Key |-> NoRow] \in [Key -> Row]
      BY DEF TypeOK, NoRow, Row
    <3> QED BY <2>6, <3>1 DEF BeginPass, NewPass, TypeOK
  <2>7. CASE SelectPage
    <3>1. PICK n \in 0 .. PageLength :
             /\ IF n = PageLength THEN UNCHANGED <<disturbed, spent>>
                                  ELSE Spend("fault") /\ disturbed' = TRUE
             /\ page' = [k \in 1 .. n |-> LET i == RowAt(offset + k - 1)
                                          IN  [id |-> i, row |-> table[i]]]
             /\ count' = n
      BY <2>7 DEF SelectPage
    <3>2. page' \in Seq(Entry) /\ count' \in Nat
      BY <3>1, PageTypes
    <3>3. spent' \in [Bounded -> Nat] /\ disturbed' \in BOOLEAN
      BY <3>1, SpendTypes DEF TypeOK, Bounded
    <3> QED BY <2>7, <3>2, <3>3 DEF SelectPage, TypeOK, Entry
  <2>8. CASE CountRows
    BY <2>8, RetryAssumption DEF CountRows, TypeOK
  <2>9. ASSUME NEW fatal \in BOOLEAN, RequestFails(fatal) PROVE TypeOK'
    <3>1. spent' \in [Bounded -> Nat]
      BY <2>9, SpendTypes DEF RequestFails, Bounded
    <3>2. CASE Leave
      BY <2>9, <3>1, <3>2, LeaveTypes DEF RequestFails
    <3>3. CASE retries + 1 # MAX_RETRIES /\ pc' = "request" /\ retries' = retries + 1
               /\ page' = <<>> /\ count' = 0 /\ UNCHANGED <<offset, total, history>>
      BY <2>9, <3>1, <3>3, RetryAssumption DEF RequestFails, TypeOK
    <3> QED BY <2>9, <3>2, <3>3 DEF RequestFails
  <2>10. CASE FoldRecord
    <3>1. /\ Head(page) \in Entry /\ Tail(page) \in Seq(Entry)
      <4>1. page \in Seq(Entry) /\ page # <<>>
        BY <2>10 DEF FoldRecord, TypeOK, Entry
      <4> QED BY <4>1
    <3>2. /\ KeyOf(Head(page).row) \in Key
          /\ Head(page).row.value \in Int /\ Head(page).id \in Nat \ {0}
      BY <3>1, RecordAssumption DEF Entry, Key
    <3>3. [daily EXCEPT ![KeyOf(Head(page).row)] = Upserted(@, Head(page).row.value)]
             \in [Key -> Row]
      BY <3>2, UpsertTypes DEF TypeOK
    <3> QED BY <2>10, <3>1, <3>2, <3>3 DEF FoldRecord, Execute, TypeOK, Entry
  <2>11. CASE NextPage
    BY <2>11 DEF NextPage, TypeOK
  <2>12. CASE EndPass
    BY <2>12, LeaveTypes DEF EndPass, TypeOK
  <2>13. CASE Crash
    <3>1. spent' \in [Bounded -> Nat]
      BY <2>13, SpendTypes DEF Crash, Bounded
    <3> QED BY <2>13, <3>1, LeaveTypes DEF Crash
  <2>14. CASE UNCHANGED vars
    BY <2>14 DEF vars, TypeOK
  <2> QED BY <2>1, <2>2, <2>3, <2>4, <2>5, <2>6, <2>7, <2>8, <2>9, <2>10, <2>11, <2>12,
             <2>13, <2>14 DEF Next, PassStep
<1> QED BY <1>1, <1>2, PTL DEF Spec

-----------------------------------------------------------------------------
(* No row is skipped. *)

\* Row i is in the answer that is being aggregated.
OnPage(i) == \E k \in DOMAIN page : page[k].id = i

\* Where the next page begins.
Cursor == offset + count

\* The pass has, or will get, every row of its beginning: what it has not aggregated
\* is on its page or at the cursor or later, so that an insertion can only move it
\* further away; and while there is such a row the pass has a reason to go on.
Coverage ==
    /\ base <= Len(table)
    /\ pc = "request" => page = <<>> /\ count = 0
    /\ pc \in {"request", "count"} =>
          \A i \in 1 .. base : i \in folded \/ Rank(i) >= offset
    /\ pc \in {"count", "fold"} =>
          \A i \in 1 .. base : i \in folded \/ OnPage(i) \/ (Rank(i) >= Cursor /\ count > 0)
    /\ pc = "fold" =>
          \A i \in 1 .. base : i \in folded \/ OnPage(i) \/ total > Cursor
    /\ pc = "done" => 1 .. base \subseteq folded

CoverageInv == pc # "idle" /\ ~disturbed => Coverage

\* Steps that leave the table alone leave the order alone.
LEMMA SameOrder ==
    ASSUME UNCHANGED table, NEW i
    PROVE  Rank(i)' = Rank(i)
BY DEF Rank, Earlier

\* The rows of the beginning of a pass are still in the table.
LEMMA RowOfBase ==
    ASSUME TypeOK, base <= Len(table), NEW i \in 1 .. base
    PROVE  i \in DOMAIN table /\ Rank(i) \in 0 .. Len(table) - 1
<1>1. table \in Seq(Record) /\ i \in DOMAIN table
  BY DEF TypeOK
<1> QED BY <1>1, RankBounds

\* A page that was not cut short has every row between the old and the new cursor.
LEMMA SelectCovers ==
    ASSUME TypeOK, Coverage, SelectPage, ~disturbed'
    PROVE  Coverage'
<1>1. /\ page' = [k \in 1 .. PageLength |-> LET i == RowAt(offset + k - 1)
                                            IN  [id |-> i, row |-> table[i]]]
      /\ count' = PageLength /\ PageLength \in Nat
  BY PageTypes DEF SelectPage
<1>2. /\ pc = "request" /\ count = 0 /\ page = <<>> /\ pc' = "count"
      /\ UNCHANGED <<table, offset, base, folded>>
  BY DEF SelectPage, Coverage, store
<1>3. ASSUME NEW i \in 1 .. base
      PROVE  /\ i \in folded \/ Rank(i)' >= offset'
             /\ i \in folded \/ OnPage(i)' \/ (Rank(i)' >= Cursor' /\ count' > 0)
  <2>1. Rank(i)' = Rank(i)
    BY <1>2, SameOrder
  <2>2. i \in folded \/ Rank(i) >= offset
    BY <1>2 DEF Coverage
  <2>3. /\ i \in DOMAIN table /\ Rank(i) \in 0 .. Len(table) - 1
        /\ offset \in Nat /\ Len(table) \in Nat /\ PageSize \in Nat \ {0}
    BY RowOfBase, PageAssumption DEF Coverage, TypeOK
  <2>4. RowAt(Rank(i)) = i
    BY <2>3, OneRowPerOffset DEF TypeOK
  <2>5. CASE Rank(i) >= offset /\ Rank(i) < offset + PageLength
    <3>1. Rank(i) - offset + 1 \in 1 .. PageLength /\ offset + (Rank(i) - offset + 1) - 1 = Rank(i)
      BY <1>1, <2>3, <2>5
    <3>2. page'[Rank(i) - offset + 1].id = i /\ Rank(i) - offset + 1 \in DOMAIN page'
      BY <1>1, <2>4, <3>1
    <3> QED BY <2>1, <2>2, <1>2, <3>2 DEF OnPage
  <2>6. CASE Rank(i) >= offset + PageLength
    <3>1. PageLength > 0
      BY <2>3, <2>6, <1>1 DEF PageLength
    <3> QED BY <1>1, <1>2, <2>1, <2>2, <2>6, <3>1 DEF Cursor
  <2> QED BY <1>1, <1>2, <2>1, <2>2, <2>3, <2>5, <2>6
<1> QED BY <1>2, <1>3 DEF Coverage

\* The total of an answer is taken after its page: it counts every row that the page
\* leaves.
LEMMA CountCovers ==
    ASSUME TypeOK, Coverage, CountRows
    PROVE  Coverage'
<1>1. /\ pc = "count" /\ pc' = "fold" /\ total' = Len(table)
      /\ UNCHANGED <<table, offset, page, count, base, folded>>
  BY DEF CountRows, store, history
<1>2. ASSUME NEW i \in 1 .. base
      PROVE  /\ i \in folded \/ OnPage(i) \/ (Rank(i)' >= Cursor /\ count > 0)
             /\ i \in folded \/ OnPage(i) \/ total' > Cursor
  <2>1. i \in folded \/ OnPage(i) \/ (Rank(i) >= Cursor /\ count > 0)
    BY <1>1 DEF Coverage
  <2>2. Rank(i)' = Rank(i) /\ Rank(i) \in 0 .. Len(table) - 1
    BY <1>1, SameOrder, RowOfBase DEF Coverage
  <2>3. Cursor \in Nat /\ Len(table) \in Nat
    BY DEF Cursor, TypeOK
  <2> QED BY <1>1, <2>1, <2>2, <2>3
<1> QED BY <1>1, <1>2 DEF Coverage, OnPage, Cursor

\* A record that is folded moves from the page in hand to the aggregated ones.
LEMMA FoldCovers ==
    ASSUME TypeOK, Coverage, FoldRecord
    PROVE  Coverage'
<1>1. /\ pc = "fold" /\ page # <<>> /\ page' = Tail(page)
      /\ folded' = folded \cup {Head(page).id}
      /\ UNCHANGED <<table, pc, offset, total, count, base>>
  BY DEF FoldRecord, store
<1>2. page \in Seq(Entry)
  BY DEF TypeOK, Entry
<1>3. \A i : OnPage(i) => i \in folded' \/ OnPage(i)'
  <2> SUFFICES ASSUME NEW i, NEW k \in DOMAIN page, page[k].id = i
               PROVE  i \in folded' \/ OnPage(i)'
    BY DEF OnPage
  <2>1. CASE k = 1
    BY <1>1, <1>2, <2>1
  <2>2. CASE k # 1
    <3>1. k - 1 \in DOMAIN Tail(page) /\ Tail(page)[k - 1] = page[k]
      BY <1>1, <1>2, <2>2
    <3> QED BY <1>1, <3>1 DEF OnPage
  <2> QED BY <2>1, <2>2
<1>4. \A i : Rank(i)' = Rank(i)
  BY <1>1, SameOrder
<1> QED BY <1>1, <1>3, <1>4 DEF Coverage, Cursor

\* The next page begins where this one ended, and no row has a rank at or past the total.
LEMMA NextPageCovers ==
    ASSUME TypeOK, Coverage, NextPage
    PROVE  Coverage'
<1>1. /\ pc = "fold" /\ page = <<>> /\ offset' = Cursor /\ count' = 0
      /\ UNCHANGED <<table, page, base, folded, total>>
      /\ pc' = IF count = 0 \/ (total > 0 /\ offset' >= total) THEN "done" ELSE "request"
  BY DEF NextPage, store, history, Cursor
<1>2. offset' \in Nat /\ total \in Nat
  BY <1>1 DEF TypeOK, Cursor
<1>3. \A i : ~OnPage(i)
  BY <1>1 DEF OnPage
<1>4. \A i : Rank(i)' = Rank(i)
  BY <1>1, SameOrder
<1>5. \A i \in 1 .. base : i \in folded \/ (Rank(i) >= offset' /\ count > 0 /\ total > offset')
  BY <1>1, <1>3 DEF Coverage
<1>6. CASE pc' = "done"
  <2>1. count = 0 \/ offset' >= total
    BY <1>1, <1>6
  <2>2. 1 .. base \subseteq folded
    BY <1>2, <1>5, <2>1
  <2> QED BY <1>1, <1>6, <2>2 DEF Coverage
<1>7. CASE pc' = "request"
  BY <1>1, <1>4, <1>5, <1>7 DEF Coverage
<1> QED BY <1>1, <1>6, <1>7

\* What is inserted meanwhile moves a row only away from the pages that are behind.
LEMMA InsertCovers ==
    ASSUME TypeOK, Coverage, NEW r \in Record, InsertRow(r)
    PROVE  Coverage'
<1>1. /\ table' = Append(table, r) /\ table \in Seq(Record)
      /\ UNCHANGED <<pc, offset, total, page, count, base, folded>>
  BY DEF InsertRow, TypeOK, request, history
<1>2. base <= Len(table) /\ Len(table') = Len(table) + 1 /\ Len(table) \in Nat /\ base \in Nat
  BY <1>1 DEF Coverage, TypeOK
<1>3. ASSUME NEW i \in 1 .. base
      PROVE  /\ Rank(i)' >= Rank(i) /\ Rank(i)' \in Nat /\ Rank(i) \in Nat
  <2>1. i \in DOMAIN table /\ Rank(i) \in Nat
    BY <1>2, RowOfBase
  <2>2. table' \in Seq(Record) /\ i \in DOMAIN table' /\ Rank(i)' >= Rank(i)
    BY <1>1, <2>1, AppendKeepsOrder
  <2>3. Rank(i)' \in Nat
    <3>1. IsFiniteSet(1 .. Len(table'))
      BY <1>2, IntervalSize
    <3>2. {j \in DOMAIN table : Earlier(j, i)}' \in SUBSET (1 .. Len(table'))
      BY <2>2
    <3> QED BY <3>1, <3>2, FS_Subset, FS_CardinalityType DEF Rank
  <2> QED BY <2>1, <2>2, <2>3
<1>4. Cursor \in Nat /\ offset \in Nat /\ Cursor' = Cursor
  BY <1>1 DEF Cursor, TypeOK
<1>5. \A i \in 1 .. base : /\ Rank(i) >= Cursor => Rank(i)' >= Cursor
                           /\ Rank(i) >= offset => Rank(i)' >= offset
  BY <1>3, <1>4
<1> QED BY <1>1, <1>2, <1>4, <1>5 DEF Coverage, OnPage

\* Every row below the cursor is aggregated or in hand, throughout an undisturbed pass.
LEMMA AlwaysCovered == Spec => []CoverageInv
<1>1. Init => CoverageInv
  BY DEF Init, CoverageInv
<1>2. TypeOK /\ CoverageInv /\ [Next]_vars => CoverageInv'
  <2> SUFFICES ASSUME TypeOK, CoverageInv, [Next]_vars, pc' # "idle", ~disturbed'
               PROVE  Coverage'
    BY DEF CoverageInv
  <2>1. ASSUME pc # "idle", ~disturbed, NEW r \in Record, InsertRow(r) PROVE Coverage'
    BY <2>1, InsertCovers DEF CoverageInv
  <2>2. CASE BeginPass
    <3>1. /\ pc' = "request" /\ base' = Len(table) /\ table' = table
          /\ offset' = 0 /\ count' = 0 /\ page' = <<>>
      BY <2>2 DEF BeginPass, NewPass, TypeOK, store, request
    <3>2. \A i \in 1 .. base' : Rank(i)' >= 0
      <4> SUFFICES ASSUME NEW i \in 1 .. base' PROVE Rank(i)' >= 0
        OBVIOUS
      <4>1. i \in DOMAIN table /\ table \in Seq(Record)
        BY <3>1 DEF TypeOK
      <4> QED BY <3>1, <4>1, RankBounds, SameOrder
    <3> QED BY <3>1, <3>2 DEF Coverage, TypeOK
  <2>3. ASSUME pc # "idle", ~disturbed, SelectPage PROVE Coverage'
    BY <2>3, SelectCovers DEF CoverageInv
  <2>4. ASSUME pc # "idle", ~disturbed, CountRows PROVE Coverage'
    BY <2>4, CountCovers DEF CoverageInv
  <2>5. ASSUME pc # "idle", ~disturbed, NEW fatal \in BOOLEAN, RequestFails(fatal)
        PROVE  Coverage'
    <3>1. /\ pc \in {"request", "count"} /\ pc' = "request" /\ page' = <<>> /\ count' = 0
          /\ UNCHANGED <<table, offset, base, folded>>
      BY <2>5 DEF RequestFails, Leave, store, history
    <3>2. \A i : Rank(i)' = Rank(i)
      BY <3>1, SameOrder
    <3> QED BY <2>5, <3>1, <3>2 DEF CoverageInv, Coverage
  <2>6. ASSUME pc # "idle", ~disturbed, FoldRecord PROVE Coverage'
    BY <2>6, FoldCovers DEF CoverageInv
  <2>7. ASSUME pc # "idle", ~disturbed, NextPage PROVE Coverage'
    BY <2>7, NextPageCovers DEF CoverageInv
  <2>8. CASE Commit \/ BeginQuery \/ EndQuery \/ UNCHANGED vars
    <3>1. UNCHANGED <<table, pc, offset, total, page, count, base, folded, disturbed>>
      BY <2>8 DEF Commit, BeginQuery, EndQuery, vars, store, request, history
    <3>2. \A i : Rank(i)' = Rank(i)
      BY <3>1, SameOrder
    <3> QED BY <3>1, <3>2 DEF CoverageInv, Coverage, OnPage, Cursor
  <2>9. ~(EndPass \/ Crash) /\ (Rollback => disturbed')
    BY DEF EndPass, Crash, Leave, Rollback
  <2>10. pc = "idle" => BeginPass \/ ~(PassStep \/ Crash)
    BY DEF PassStep, SelectPage, CountRows, FoldRecord, NextPage, EndPass, RequestFails, Crash
  <2>11. disturbed => BeginPass \/ ~PassStep
    BY DEF PassStep, SelectPage, CountRows, FoldRecord, NextPage, EndPass, RequestFails,
           Leave, Execute, history
  <2>12. ASSUME NEW r \in Record, InsertRow(r) PROVE UNCHANGED <<pc, disturbed>>
    BY <2>12 DEF InsertRow, history
  <2> QED BY <2>1, <2>2, <2>3, <2>4, <2>5, <2>6, <2>7, <2>8, <2>9, <2>10, <2>11, <2>12
          DEF Next, PassStep
<1> QED BY <1>1, <1>2, TypeCorrect, PTL DEF Spec

\* Every row that was in the table when a complete, undisturbed pass began has been
\* aggregated by it, whatever the ingestion service added meanwhile.
THEOREM NoRowIsSkipped == Spec => []NothingSkipped
<1>1. CoverageInv => NothingSkipped
  BY DEF CoverageInv, Coverage, NothingSkipped
<1> QED BY <1>1, AlwaysCovered, PTL

-----------------------------------------------------------------------------
(* The aggregates of a complete pass. *)

\* A finite set of integers that is not empty has a least and a greatest element.
LEMMA ExtremesExist ==
    ASSUME NEW V \in SUBSET Int, IsFiniteSet(V), V # {}
    PROVE  /\ Min(V) \in V /\ \A y \in V : Min(V) <= y
           /\ Max(V) \in V /\ \A y \in V : Max(V) >= y
<1> DEFINE Good(T) == /\ \E x \in T : \A y \in T : x <= y
                      /\ \E x \in T : \A y \in T : x >= y
           Q == {T \in SUBSET V : T # {} /\ ~Good(T)}
<1>1. Q = {}
  <2> SUFFICES ASSUME Q # {} PROVE FALSE
    OBVIOUS
  <2>1. PICK U \in Q : \A T \in SUBSET U : T # U => T \notin Q
    <3>1. Q \in SUBSET (SUBSET V)
      OBVIOUS
    <3> HIDE DEF Q
    <3> QED BY <3>1, SmallestSet
  <2>2. U \in SUBSET Int /\ U # {} /\ ~Good(U)
    OBVIOUS
  <2>3. PICK x \in U : TRUE
    BY <2>2
  <2> DEFINE W == U \ {x}
  <2>4. CASE W = {}
    BY <2>2, <2>4
  <2>5. CASE W # {}
    <3>1. Good(W)
      BY <2>1, <2>5
    <3>2. PICK low \in W, high \in W : \A y \in W : low <= y /\ high >= y
      BY <3>1
    <3>3. \A y \in U : /\ (IF x < low THEN x ELSE low) <= y
                       /\ (IF x > high THEN x ELSE high) >= y
      BY <2>2, <3>2
    <3> QED BY <2>2, <3>3
  <2> QED BY <2>4, <2>5
<1>2. Good(V)
  BY <1>1
<1> QED BY <1>2 DEF Min, Max

\* With one more value.
LEMMA ExtremesOfMore ==
    ASSUME NEW V \in SUBSET Int, IsFiniteSet(V), V # {}, NEW v \in Int
    PROVE  /\ Min(V \cup {v}) = IF v < Min(V) THEN v ELSE Min(V)
           /\ Max(V \cup {v}) = IF v > Max(V) THEN v ELSE Max(V)
<1> DEFINE W == V \cup {v}
<1>1. IsFiniteSet(W) /\ W \in SUBSET Int /\ W # {}
  BY FS_AddElement
<1>2. /\ Min(V) \in V /\ \A y \in V : Min(V) <= y
      /\ Max(V) \in V /\ \A y \in V : Max(V) >= y
  BY ExtremesExist
<1>3. /\ Min(W) \in W /\ \A y \in W : Min(W) <= y
      /\ Max(W) \in W /\ \A y \in W : Max(W) >= y
  BY <1>1, ExtremesExist
<1>4. Min(V) \in Int /\ Max(V) \in Int /\ Min(W) \in Int /\ Max(W) \in Int
  BY <1>1, <1>2, <1>3
<1>5. /\ Min(W) <= v /\ Min(W) <= Min(V) /\ (Min(W) = v \/ Min(V) <= Min(W))
      /\ Max(W) >= v /\ Max(W) >= Max(V) /\ (Max(W) = v \/ Max(V) >= Max(W))
  BY <1>2, <1>3
<1> QED BY <1>4, <1>5

\* The upsert of a row that is not among those aggregated adds it to them.
LEMMA UpsertAdds ==
    ASSUME NEW rows \in Seq(Record), NEW I \in SUBSET DOMAIN rows, NEW i \in DOMAIN rows, i \notin I
    PROVE  Upserted(Aggregate(rows, I), rows[i].value) = Aggregate(rows, I \cup {i})
<1> DEFINE v == rows[i].value
           V(J) == {rows[j].value : j \in J}
           f(J) == [j \in J |-> rows[j].value]
           J == I \cup {i}
<1>1. \A j \in DOMAIN rows : rows[j].value \in Int
  BY RecordAssumption
<1>2. IsFiniteSet(I)
  <2>1. IsFiniteSet(1 .. Len(rows)) /\ I \in SUBSET (1 .. Len(rows))
    BY IntervalSize
  <2> QED BY <2>1, FS_Subset
<1>3. /\ J # {} /\ IsFiniteSet(J)
      /\ Cardinality(J) = Cardinality(I) + 1 /\ Cardinality(I) \in Nat
      /\ (Cardinality(I) = 0 <=> I = {})
  BY <1>2, FS_AddElement, FS_CardinalityType, FS_EmptySet
<1>4. SumFunction(f(J)) = SumFunction(f(I)) + v
  <2>1. SumFunctionOnSet(f(J), J) = SumFunctionOnSet(f(J), I) + f(J)[i]
    <3>1. \A x \in I \cup {i} : f(J)[x] \in Int
      BY <1>1
    <3> HIDE DEF f
    <3> QED BY <1>2, <3>1, SumAdd
  <2>2. SumFunctionOnSet(f(J), I) = SumFunctionOnSet(f(I), I)
    <3>1. \A x \in I : f(J)[x] = f(I)[x]
      OBVIOUS
    <3> HIDE DEF f
    <3>2. SumFunctionOnSet(f(J), I) = SumFunctionOnSet(f(I), I)
      BY <1>2, <3>1, SumOfEqual, Zenon
    <3> QED BY <3>2
  <2>3. DOMAIN f(J) = J /\ DOMAIN f(I) = I /\ f(J)[i] = v
    OBVIOUS
  <2> HIDE DEF f, v
  <2> QED BY <2>1, <2>2, <2>3 DEF SumFunction
<1>5. Aggregate(rows, J) = [n |-> Cardinality(I) + 1, sum |-> SumFunction(f(I)) + v,
                            min |-> Min(V(J)), max |-> Max(V(J))]
  BY <1>3, <1>4 DEF Aggregate
<1>6. CASE I = {}
  <2>1. V(J) = {v} /\ v \in Int
    <3>1. J = {i}
      BY <1>6
    <3> QED BY <1>1, <3>1
  <2>2. Min({v}) = v /\ Max({v}) = v
    BY <2>1 DEF Min, Max
  <2>3. SumFunction(f(I)) = 0
    <3>1. DOMAIN f(I) = {}
      BY <1>6
    <3> HIDE DEF f
    <3> QED BY <3>1, SumEmpty DEF SumFunction
  <2>4. Aggregate(rows, I) = NoRow
    BY <1>6 DEF Aggregate
  <2>5. Upserted(NoRow, v) = [n |-> 1, sum |-> v, min |-> v, max |-> v]
    BY DEF Upserted, NoRow
  <2>6. Cardinality(I) + 1 = 1 /\ SumFunction(f(I)) + v = v
    BY <1>3, <1>6, <2>1, <2>3
  <2>7. Min(V(J)) = v /\ Max(V(J)) = v
    BY <2>1, <2>2
  <2> HIDE DEF V, f, v, J
  <2>8. Upserted(Aggregate(rows, I), v) = Aggregate(rows, J)
    BY <1>5, <2>4, <2>5, <2>6, <2>7
  <2> QED BY <2>8 DEF v, J
<1>7. CASE I # {}
  <2>1. V(J) = V(I) \cup {v} /\ V(I) # {} /\ V(I) \in SUBSET Int /\ v \in Int
    BY <1>1, <1>7
  <2>2. IsFiniteSet(V(I))
    <3> DEFINE g == [j \in I |-> rows[j].value]
    <3>1. g \in Surjection(I, V(I))
      BY DEF Surjection
    <3> HIDE DEF g, V
    <3> QED BY <1>2, <3>1, FS_Surjection
  <2>3. /\ Min(V(J)) = IF v < Min(V(I)) THEN v ELSE Min(V(I))
        /\ Max(V(J)) = IF v > Max(V(I)) THEN v ELSE Max(V(I))
    BY <2>1, <2>2, ExtremesOfMore
  <2>4. Aggregate(rows, I) = [n |-> Cardinality(I), sum |-> SumFunction(f(I)),
                              min |-> Min(V(I)), max |-> Max(V(I))]
    BY <1>7 DEF Aggregate
  <2>5. Cardinality(I) # 0
    BY <1>3, <1>7
  <2> DEFINE a == Aggregate(rows, I)
  <2> HIDE DEF V, f, v, J
  <2>6. /\ a.n = Cardinality(I) /\ a.sum = SumFunction(f(I))
        /\ a.min = Min(V(I)) /\ a.max = Max(V(I))
    BY <2>4
  <2> HIDE DEF a
  <2>7. Upserted(a, v) = [n |-> a.n + 1, sum |-> a.sum + v,
                          min |-> IF v < a.min THEN v ELSE a.min,
                          max |-> IF v > a.max THEN v ELSE a.max]
    BY <2>5, <2>6 DEF Upserted
  <2>8. Upserted(a, v) = Aggregate(rows, J)
    BY <1>5, <2>3, <2>6, <2>7
  <2> QED BY <2>8 DEF a, v, J
<1> QED BY <1>6, <1>7

\* While the table is as it was when the pass began, what has been aggregated are the
\* rows before a position, each once; the page in hand begins there.
Position == offset + count - Len(page)

PassIsExact ==
    /\ folded = {i \in DOMAIN table : Rank(i) < Position}
    /\ \A k \in DOMAIN page : \E i \in DOMAIN table :
          page[k] = [id |-> i, row |-> table[i]] /\ Rank(i) = Position + k - 1
    /\ pc = "count" => count = Len(page)
    /\ daily = [k \in Key |-> Aggregate(table, {i \in folded : KeyOf(table[i]) = k})]

ExactInv == pc # "idle" /\ ~disturbed /\ Len(table) = base => PassIsExact

\* A DELETE that works leaves the aggregates of no row.
LEMMA BeginIsExact ==
    ASSUME TypeOK, BeginPass, ~disturbed'
    PROVE  PassIsExact'
<1>1. /\ pc' = "request" /\ daily' = [k \in Key |-> NoRow]
      /\ offset' = 0 /\ count' = 0 /\ page' = <<>> /\ folded' = {} /\ table' = table
  BY DEF BeginPass, NewPass, TypeOK, store, request
<1>2. \A i \in DOMAIN table : Rank(i) \in Nat /\ Rank(i)' = Rank(i)
  <2>1. ASSUME NEW i \in DOMAIN table PROVE Rank(i) \in Nat /\ Rank(i)' = Rank(i)
    BY <1>1, RankBounds, SameOrder DEF TypeOK
  <2> QED BY <2>1
<1>3. Position' = 0
  <2>1. offset' = 0 /\ count' = 0 /\ Len(page') = 0
    BY <1>1
  <2> QED BY <2>1 DEF Position
<1>4. folded' = {i \in DOMAIN table' : Rank(i)' < Position'}
  BY <1>1, <1>2, <1>3
<1>5. daily' = [k \in Key |-> Aggregate(table', {i \in folded' : KeyOf(table'[i]) = k})]
  BY <1>1 DEF Aggregate
<1> QED BY <1>1, <1>4, <1>5 DEF PassIsExact

\* A page of an unchanged table holds the rows at the next positions.
LEMMA SelectIsExact ==
    ASSUME TypeOK, Coverage, PassIsExact, SelectPage, ~disturbed'
    PROVE  PassIsExact'
<1>1. /\ page' = [k \in 1 .. PageLength |-> LET i == RowAt(offset + k - 1)
                                            IN  [id |-> i, row |-> table[i]]]
      /\ count' = PageLength /\ PageLength \in Nat
  BY PageTypes DEF SelectPage
<1>2. /\ pc = "request" /\ count = 0 /\ page = <<>> /\ pc' = "count"
      /\ UNCHANGED <<table, offset, daily, folded>>
  BY DEF SelectPage, Coverage, store
<1>3. offset \in Nat /\ Len(page') = PageLength /\ DOMAIN page' = 1 .. PageLength
  BY <1>1 DEF TypeOK
<1>4. Position = offset /\ Position' = offset /\ count' = Len(page')
  BY <1>1, <1>2, <1>3 DEF Position
<1>5. \A i : Rank(i)' = Rank(i)
  BY <1>2, SameOrder
<1>6. \A k \in 1 .. PageLength : /\ RowAt(offset + k - 1) \in DOMAIN table
                                 /\ Rank(RowAt(offset + k - 1)) = offset + k - 1
  BY <1>1, PageTypes
<1>7. \A k \in DOMAIN page' : \E i \in DOMAIN table' :
         page'[k] = [id |-> i, row |-> table'[i]] /\ Rank(i)' = Position' + k - 1
  <2> SUFFICES ASSUME NEW k \in 1 .. PageLength
               PROVE  \E i \in DOMAIN table' :
                        page'[k] = [id |-> i, row |-> table'[i]] /\ Rank(i)' = Position' + k - 1
    BY <1>3
  <2>1. /\ RowAt(offset + k - 1) \in DOMAIN table' /\ Rank(RowAt(offset + k - 1)) = offset + k - 1
        /\ page'[k] = [id |-> RowAt(offset + k - 1), row |-> table'[RowAt(offset + k - 1)]]
    BY <1>1, <1>2, <1>6
  <2> QED BY <1>4, <1>5, <2>1
<1> QED BY <1>2, <1>4, <1>5, <1>7 DEF PassIsExact

\* The head of the page is at the position reached and not aggregated before, so the upsert adds it once.
LEMMA FoldIsExact ==
    ASSUME TypeOK, PassIsExact, FoldRecord, ~disturbed'
    PROVE  PassIsExact'
<1> DEFINE i == Head(page).id
           r == Head(page).row
<1>1. /\ pc = "fold" /\ page # <<>> /\ page' = Tail(page)
      /\ folded' = folded \cup {i}
      /\ daily' = [daily EXCEPT ![KeyOf(r)] = Upserted(@, r.value)]
      /\ UNCHANGED <<table, pc, offset, count>>
  BY DEF FoldRecord, Execute, store
<1>2. /\ page \in Seq(Entry) /\ Len(page) \in Nat \ {0} /\ 1 \in DOMAIN page
      /\ page[1] = Head(page) /\ offset \in Nat /\ count \in Nat /\ table \in Seq(Record)
  BY <1>1 DEF TypeOK, Entry
<1>3. /\ Len(page') = Len(page) - 1 /\ DOMAIN page' = 1 .. Len(page) - 1
      /\ \A k \in DOMAIN page' : k + 1 \in DOMAIN page /\ page'[k] = page[k + 1]
  BY <1>1, <1>2
<1>4. Position \in Int /\ Position' = Position + 1
  BY <1>1, <1>2, <1>3 DEF Position
<1>5. i \in DOMAIN table /\ r = table[i] /\ Rank(i) = Position
  <2>1. PICK j \in DOMAIN table : page[1] = [id |-> j, row |-> table[j]] /\ Rank(j) = Position + 1 - 1
    BY <1>2 DEF PassIsExact
  <2> QED BY <1>2, <1>4, <2>1
<1>6. \A j \in DOMAIN table : Rank(j) \in Nat /\ (Rank(j) = Position => j = i) /\ Rank(j)' = Rank(j)
  <2>1. ASSUME NEW j \in DOMAIN table
        PROVE  Rank(j) \in Nat /\ (Rank(j) = Position => j = i) /\ Rank(j)' = Rank(j)
    BY <1>1, <1>2, <1>5, RankBounds, OneRowPerOffset, SameOrder
  <2> QED BY <2>1
<1> HIDE DEF i, r
<1>7. i \notin folded /\ folded \subseteq DOMAIN table
  BY <1>4, <1>5 DEF PassIsExact
<1>8. folded' = {j \in DOMAIN table' : Rank(j)' < Position'}
  <2>1. folded = {j \in DOMAIN table : Rank(j) < Position}
    BY DEF PassIsExact
  <2>2. \A j \in DOMAIN table : Rank(j) < Position + 1 <=> Rank(j) < Position \/ j = i
    BY <1>4, <1>5, <1>6
  <2>3. \A j \in DOMAIN table : Rank(j)' < Position' <=> Rank(j) < Position \/ j = i
    BY <1>4, <1>6, <2>2
  <2> QED BY <1>1, <1>5, <2>1, <2>3
<1>9. \A k \in DOMAIN page' : \E j \in DOMAIN table' :
         page'[k] = [id |-> j, row |-> table'[j]] /\ Rank(j)' = Position' + k - 1
  <2> SUFFICES ASSUME NEW k \in DOMAIN page'
               PROVE  \E j \in DOMAIN table' :
                        page'[k] = [id |-> j, row |-> table'[j]] /\ Rank(j)' = Position' + k - 1
    OBVIOUS
  <2>1. k + 1 \in DOMAIN page /\ page'[k] = page[k + 1] /\ k \in Nat
    BY <1>2, <1>3
  <2>2. PICK j \in DOMAIN table :
           page[k + 1] = [id |-> j, row |-> table[j]] /\ Rank(j) = Position + (k + 1) - 1
    BY <2>1 DEF PassIsExact
  <2>3. Position + (k + 1) - 1 = Position' + k - 1
    BY <1>4, <2>1
  <2> QED BY <1>1, <1>6, <2>1, <2>2, <2>3
<1> DEFINE Rows(F, k) == {j \in F : KeyOf(table[j]) = k}
<1>10. KeyOf(r) \in Key
  BY <1>2, <1>5 DEF Key
<1>11. ASSUME NEW k \in Key
       PROVE  daily'[k] = Aggregate(table, Rows(folded', k))
  <2>1. daily[k] = Aggregate(table, Rows(folded, k)) /\ daily \in [Key -> Row]
    BY DEF PassIsExact, TypeOK
  <2>2. CASE k = KeyOf(r)
    <3>1. daily'[k] = Upserted(daily[k], r.value)
      BY <1>1, <1>10, <2>1, <2>2
    <3>2. Rows(folded, k) \in SUBSET DOMAIN table /\ i \notin Rows(folded, k)
      BY <1>7
    <3>3. Rows(folded', k) = Rows(folded, k) \cup {i}
      BY <1>1, <1>5, <2>2
    <3> HIDE DEF Rows
    <3>4. Upserted(Aggregate(table, Rows(folded, k)), table[i].value)
             = Aggregate(table, Rows(folded, k) \cup {i})
      BY <1>2, <1>5, <3>2, UpsertAdds
    <3> QED BY <1>5, <2>1, <3>1, <3>3, <3>4
  <2>3. CASE k # KeyOf(r)
    <3>1. daily'[k] = daily[k] /\ Rows(folded', k) = Rows(folded, k)
      BY <1>1, <1>5, <2>1, <2>3
    <3> QED BY <2>1, <3>1
  <2> QED BY <2>2, <2>3
<1>12. daily' = [k \in Key |-> Aggregate(table', {j \in folded' : KeyOf(table'[j]) = k})]
  <2>1. DOMAIN daily' = Key /\ daily' = [k \in DOMAIN daily' |-> daily'[k]]
    BY <1>1 DEF TypeOK
  <2> QED BY <1>1, <1>11, <2>1
<1>13. pc' # "count"
  BY <1>1
<1> QED BY <1>8, <1>9, <1>12, <1>13 DEF PassIsExact

\* The other steps of a pass, and those that leave the pass and the table alone.
LEMMA RestIsExact ==
    ASSUME TypeOK, Coverage, PassIsExact,
           \/ CountRows
           \/ NextPage
           \/ \E fatal \in BOOLEAN : RequestFails(fatal) /\ pc' # "idle"
           \/ UNCHANGED <<table, pc, offset, count, page, folded, daily>>
    PROVE  PassIsExact'
<1>1. /\ UNCHANGED <<table, folded, daily>> /\ (pc' = "count" => pc = "count")
      /\ \/ page' = page /\ count' = count /\ offset' = offset
         \/ page' = page /\ count' = 0 /\ offset' = offset + count /\ pc = "fold" /\ pc' # "count"
         \/ page' = <<>> /\ count' = 0 /\ offset' = offset /\ pc \in {"request", "count"} /\ pc' = "request"
  BY DEF CountRows, NextPage, RequestFails, Leave, store, history
<1>2. \A i : Rank(i)' = Rank(i)
  BY <1>1, SameOrder
<1>3. page \in Seq(Entry) /\ Len(page) \in Nat /\ offset \in Nat /\ count \in Nat
  BY DEF TypeOK, Entry
<1>4. Position' = Position
  <2>1. pc \in {"request", "count"} => count = Len(page)
    BY DEF Coverage, PassIsExact
  <2> QED BY <1>1, <1>3, <2>1 DEF Position
<1>5. page' = page \/ page' = <<>>
  BY <1>1
<1>6. pc' = "count" => count' = Len(page')
  BY <1>1 DEF PassIsExact
<1>7. \A k \in DOMAIN page' : \E i \in DOMAIN table' :
         page'[k] = [id |-> i, row |-> table'[i]] /\ Rank(i)' = Position' + k - 1
  BY <1>1, <1>2, <1>4, <1>5 DEF PassIsExact
<1>8. folded' = {i \in DOMAIN table' : Rank(i)' < Position'}
  BY <1>1, <1>2, <1>4 DEF PassIsExact
<1> QED BY <1>1, <1>6, <1>7, <1>8 DEF PassIsExact

\* No step of any of the three services breaks ExactInv.
LEMMA ExactKept ==
    ASSUME TypeOK, CoverageInv, ExactInv, [Next]_vars
    PROVE  ExactInv'
<1> SUFFICES ASSUME pc' # "idle", ~disturbed', Len(table') = base'
             PROVE  PassIsExact'
  BY DEF ExactInv
<1>1. CASE BeginPass
  BY <1>1, BeginIsExact
<1>2. CASE ~BeginPass
  <2>1. pc # "idle" /\ ~disturbed /\ base' = base
    <3>1. CASE Commit \/ BeginQuery \/ EndQuery \/ UNCHANGED vars
      BY <3>1 DEF Commit, BeginQuery, EndQuery, vars, history
    <3>2. CASE SelectPage \/ CountRows \/ NextPage
      BY <3>2 DEF SelectPage, CountRows, NextPage, history
    <3>3. CASE FoldRecord
      BY <3>3 DEF FoldRecord, Execute
    <3>4. ASSUME NEW fatal \in BOOLEAN, RequestFails(fatal)
          PROVE  pc # "idle" /\ ~disturbed /\ base' = base
      BY <3>4 DEF RequestFails, Leave, history
    <3>5. ~(EndPass \/ Crash)
      BY DEF EndPass, Crash, Leave
    <3>6. ~Rollback
      BY DEF Rollback, request
    <3>7. ASSUME NEW r \in Record, InsertRow(r)
          PROVE  pc # "idle" /\ ~disturbed /\ base' = base
      BY <3>7 DEF InsertRow, history
    <3> QED BY <1>2, <3>1, <3>2, <3>3, <3>4, <3>5, <3>6, <3>7 DEF Next, PassStep
  <2>2. Coverage /\ base <= Len(table) /\ base \in Nat /\ Len(table) \in Nat
    BY <2>1 DEF CoverageInv, Coverage, TypeOK
  <2>3. ~ \E r \in Record : InsertRow(r)
    BY <2>1, <2>2 DEF InsertRow, TypeOK
  <2>4. ~(Rollback \/ Crash \/ EndPass)
    BY <2>1 DEF Rollback, Crash, EndPass, Leave
  <2>5. UNCHANGED table
    BY <1>2, <2>3, <2>4 DEF Next, PassStep, Commit, BeginQuery, EndQuery, SelectPage, CountRows,
                FoldRecord, NextPage, RequestFails, vars, store
  <2>6. PassIsExact
    BY <2>1, <2>5 DEF ExactInv
  <2>7. CASE Commit \/ BeginQuery \/ EndQuery \/ UNCHANGED vars
    <3>1. UNCHANGED <<table, pc, offset, count, page, folded, daily>>
      BY <2>7 DEF Commit, BeginQuery, EndQuery, vars, store, request, history
    <3> QED BY <2>2, <2>6, <3>1, RestIsExact
  <2>8. CASE SelectPage
    BY <2>2, <2>6, <2>8, SelectIsExact
  <2>9. CASE FoldRecord
    BY <2>6, <2>9, FoldIsExact
  <2>10. CASE CountRows \/ NextPage \/ \E fatal \in BOOLEAN : RequestFails(fatal)
    BY <2>2, <2>6, <2>10, RestIsExact
  <2> QED BY <1>2, <2>3, <2>4, <2>7, <2>8, <2>9, <2>10 DEF Next, PassStep
<1> QED BY <1>1, <1>2

\* A pass that no write, no answer and no rollback has disturbed, over a table that has not
\* changed, leaves the aggregates of its rows: however it was cut into pages, however
\* many requests were repeated, and whatever the pass before had left.
THEOREM CompletePassesAreExact == Spec => []CompletePassIsExact
<1>1. Init => ExactInv
  BY DEF Init, ExactInv
<1>2. TypeOK /\ CoverageInv /\ ExactInv /\ [Next]_vars => ExactInv'
  BY ExactKept
<1>3. TypeOK /\ CoverageInv /\ ExactInv => CompletePassIsExact
  <2> SUFFICES ASSUME TypeOK, CoverageInv, ExactInv, pc = "done", ~disturbed, Len(table) = base
               PROVE  daily = Daily(table)
    BY DEF CompletePassIsExact
  <2>1. PassIsExact /\ 1 .. base \subseteq folded
    BY DEF CoverageInv, Coverage, ExactInv
  <2>2. folded = DOMAIN table
    BY <2>1 DEF PassIsExact, TypeOK
  <2> QED BY <2>1, <2>2 DEF PassIsExact, Daily
<1> QED BY <1>1, <1>2, <1>3, TypeCorrect, AlwaysCovered, PTL DEF Spec

-----------------------------------------------------------------------------
(* A pass over a table that grows.                                         *)

\* Daily row a covers those of the rows that are at I: it counts each at least once, and its extremes are
\* those of their values.
Covers(rows, a, I) ==
    /\ a.n >= Cardinality(I) /\ (a.n = 0 <=> I = {})
    /\ \A i \in I : a.min <= rows[i].value /\ rows[i].value <= a.max
    /\ I # {} => /\ \E i \in I : rows[i].value = a.min
                 /\ \E i \in I : rows[i].value = a.max

FoldedOf(k) == {i \in folded : KeyOf(table[i]) = k}

PassIsBounded ==
    /\ folded \subseteq DOMAIN table
    /\ \A j \in DOMAIN page : \E i \in DOMAIN table : page[j] = [id |-> i, row |-> table[i]]
    /\ \A k \in Key : Covers(table, daily[k], FoldedOf(k))

BoundedInv == pc # "idle" /\ ~disturbed => PassIsBounded

\* To aggregate row i, for the first time or again.
LEMMA UpsertCovers ==
    ASSUME table \in Seq(Record), NEW a \in Row, NEW I \in SUBSET DOMAIN table,
           NEW i \in DOMAIN table, Covers(table, a, I)
    PROVE  Covers(table, Upserted(a, table[i].value), I \cup {i})
<1> DEFINE v == table[i].value
           b == Upserted(a, v)
           J == I \cup {i}
<1>1. v \in Int /\ \A j \in I : table[j].value \in Int
  BY RecordAssumption
<1>2. IsFiniteSet(I)
  <2>1. IsFiniteSet(1 .. Len(table)) /\ I \in SUBSET (1 .. Len(table))
    BY IntervalSize
  <2> QED BY <2>1, FS_Subset
<1>3. Cardinality(I) \in Nat /\ Cardinality(J) \in Nat /\ Cardinality(J) <= Cardinality(I) + 1
  <2>1. Cardinality(I) \in Nat /\ Cardinality(J) \in {Cardinality(I), Cardinality(I) + 1}
    BY <1>2, FS_AddElement, FS_CardinalityType
  <2> HIDE DEF J
  <2> QED BY <2>1
<1>4. a.n \in Nat /\ a.min \in Int /\ a.max \in Int
  BY DEF Row
<1>5. b.n = a.n + 1
  BY DEF Upserted
<1>6. /\ \A j \in J : b.min <= table[j].value /\ table[j].value <= b.max
      /\ \E j \in J : table[j].value = b.min
      /\ \E j \in J : table[j].value = b.max
  <2>1. CASE a.n = 0
    <3>1. I = {} /\ b.min = v /\ b.max = v
      BY <2>1 DEF Covers, Upserted
    <3> QED BY <1>1, <3>1
  <2>2. CASE a.n # 0
    <3>1. /\ b.min = (IF v < a.min THEN v ELSE a.min)
          /\ b.max = (IF v > a.max THEN v ELSE a.max)
      BY <2>2 DEF Upserted
    <3>2. /\ \A j \in I : a.min <= table[j].value /\ table[j].value <= a.max
          /\ \E j \in I : table[j].value = a.min
          /\ \E j \in I : table[j].value = a.max
      BY <2>2 DEF Covers
    <3> HIDE DEF b
    <3>3. \A j \in J : b.min <= table[j].value /\ table[j].value <= b.max
      BY <1>1, <1>4, <3>1, <3>2
    <3>4. b.min \in {v, a.min} /\ b.max \in {v, a.max}
      BY <3>1
    <3> QED BY <3>2, <3>3, <3>4
  <2> QED BY <2>1, <2>2
<1>7. b.n >= Cardinality(J) /\ b.n # 0
  BY <1>3, <1>4, <1>5 DEF Covers
<1> QED BY <1>6, <1>7 DEF Covers

\* Steps that aggregate nothing and take no row away.
LEMMA GrowthCovers ==
    ASSUME TypeOK, PassIsBounded, UNCHANGED <<folded, daily>>, page' \in {page, <<>>},
           UNCHANGED table \/ \E r \in Record : table' = Append(table, r)
    PROVE  PassIsBounded'
<1>1. table \in Seq(Record) /\ page \in Seq(Entry)
  BY DEF TypeOK, Entry
<1>2. DOMAIN table \subseteq DOMAIN table' /\ \A i \in DOMAIN table : table'[i] = table[i]
  BY <1>1
<1>3. folded' \subseteq DOMAIN table'
  BY <1>2 DEF PassIsBounded
<1>4. \A j \in DOMAIN page' : \E i \in DOMAIN table' : page'[j] = [id |-> i, row |-> table'[i]]
  <2> SUFFICES ASSUME NEW j \in DOMAIN page'
               PROVE  \E i \in DOMAIN table' : page'[j] = [id |-> i, row |-> table'[i]]
    OBVIOUS
  <2>1. j \in DOMAIN page /\ page'[j] = page[j]
    BY <1>1
  <2> QED BY <1>2, <2>1 DEF PassIsBounded
<1>5. ASSUME NEW k \in Key PROVE Covers(table', daily'[k], FoldedOf(k)')
  <2>1. FoldedOf(k)' = FoldedOf(k) /\ FoldedOf(k) \subseteq DOMAIN table
    BY <1>2 DEF FoldedOf, PassIsBounded
  <2>2. Covers(table, daily[k], FoldedOf(k))
    BY DEF PassIsBounded
  <2> QED BY <1>2, <2>1, <2>2 DEF Covers
<1> QED BY <1>3, <1>4, <1>5 DEF PassIsBounded

\* The upsert of the head of the page, aggregated before or not, keeps the daily row a cover.
LEMMA FoldBounded ==
    ASSUME TypeOK, PassIsBounded, FoldRecord, ~disturbed'
    PROVE  PassIsBounded'
<1> DEFINE r == Head(page).row
<1>1. /\ page # <<>> /\ page' = Tail(page)
      /\ folded' = folded \cup {Head(page).id}
      /\ daily' = [daily EXCEPT ![KeyOf(r)] = Upserted(@, r.value)]
      /\ UNCHANGED table
  BY DEF FoldRecord, Execute, store
<1>2. page \in Seq(Entry) /\ table \in Seq(Record) /\ daily \in [Key -> Row]
  BY DEF TypeOK, Entry
<1>3. PICK i \in DOMAIN table : Head(page) = [id |-> i, row |-> table[i]]
  <2>1. 1 \in DOMAIN page /\ Head(page) = page[1]
    BY <1>1, <1>2
  <2> QED BY <2>1 DEF PassIsBounded
<1>4. Head(page).id = i /\ r = table[i] /\ KeyOf(r) \in Key
  BY <1>2, <1>3 DEF Key
<1>5. \A j \in DOMAIN page' : j + 1 \in DOMAIN page /\ page'[j] = page[j + 1]
  BY <1>1, <1>2
<1>6. folded' \subseteq DOMAIN table'
  BY <1>1, <1>4 DEF PassIsBounded
<1>7. \A j \in DOMAIN page' : \E x \in DOMAIN table' : page'[j] = [id |-> x, row |-> table'[x]]
  BY <1>1, <1>5 DEF PassIsBounded
<1>8. ASSUME NEW k \in Key PROVE Covers(table', daily'[k], FoldedOf(k)')
  <2>1. Covers(table, daily[k], FoldedOf(k)) /\ FoldedOf(k) \in SUBSET DOMAIN table
    BY DEF PassIsBounded, FoldedOf
  <2>2. CASE k = KeyOf(r)
    <3>1. daily'[k] = Upserted(daily[k], table[i].value)
      BY <1>1, <1>2, <1>4, <2>2
    <3>2. FoldedOf(k)' = FoldedOf(k) \cup {i}
      BY <1>1, <1>4, <2>2 DEF FoldedOf
    <3>3. Covers(table, Upserted(daily[k], table[i].value), FoldedOf(k) \cup {i})
      BY <1>2, <2>1, UpsertCovers
    <3> QED BY <1>1, <3>1, <3>2, <3>3 DEF Covers
  <2>3. CASE k # KeyOf(r)
    <3>1. daily'[k] = daily[k] /\ FoldedOf(k)' = FoldedOf(k)
      BY <1>1, <1>2, <1>4, <2>3 DEF FoldedOf
    <3> QED BY <1>1, <2>1, <3>1 DEF Covers
  <2> QED BY <2>2, <2>3
<1> QED BY <1>6, <1>7, <1>8 DEF PassIsBounded

\* No step of any of the three services breaks BoundedInv.
LEMMA BoundedKept ==
    ASSUME TypeOK, BoundedInv, [Next]_vars
    PROVE  BoundedInv'
<1> SUFFICES ASSUME pc' # "idle", ~disturbed'
             PROVE  PassIsBounded'
  BY DEF BoundedInv
<1>1. CASE BeginPass
  <2>1. /\ daily' = [k \in Key |-> NoRow] /\ page' = <<>> /\ folded' = {}
    BY <1>1 DEF BeginPass, NewPass, TypeOK, store, request
  <2>2. Cardinality({}) = 0
    BY FS_EmptySet
  <2>3. ASSUME NEW k \in Key PROVE Covers(table', daily'[k], FoldedOf(k)')
    BY <2>1, <2>2 DEF Covers, FoldedOf, NoRow
  <2> QED BY <2>1, <2>3 DEF PassIsBounded
<1>2. CASE SelectPage
  <2>1. /\ page' = [k \in 1 .. PageLength |-> LET i == RowAt(offset + k - 1)
                                              IN  [id |-> i, row |-> table[i]]]
        /\ pc # "idle" /\ ~disturbed /\ UNCHANGED <<table, daily, folded>>
    BY <1>2 DEF SelectPage, store
  <2>2. \A k \in 1 .. PageLength : RowAt(offset + k - 1) \in DOMAIN table
    <3>1. PageLength \in Nat /\ PageLength \in 0 .. PageLength
      BY PageAssumption DEF PageLength, TypeOK
    <3> QED BY <3>1, PageTypes
  <2>3. \A j \in DOMAIN page' : \E i \in DOMAIN table' : page'[j] = [id |-> i, row |-> table'[i]]
    BY <2>1, <2>2
  <2>4. PassIsBounded
    BY <2>1 DEF BoundedInv
  <2> QED BY <2>1, <2>3, <2>4 DEF PassIsBounded, Covers, FoldedOf
<1>3. CASE FoldRecord
  <2>1. pc # "idle" /\ ~disturbed
    BY <1>3 DEF FoldRecord, Execute
  <2> QED BY <1>3, <2>1, FoldBounded DEF BoundedInv
<1>4. CASE CountRows \/ NextPage \/ \E fatal \in BOOLEAN : RequestFails(fatal)
  <2>1. /\ pc # "idle" /\ ~disturbed /\ UNCHANGED <<table, daily, folded>>
        /\ page' \in {page, <<>>}
    BY <1>4 DEF CountRows, NextPage, RequestFails, Leave, store, history
  <2> QED BY <2>1, GrowthCovers DEF BoundedInv
<1>5. CASE Commit \/ BeginQuery \/ EndQuery \/ UNCHANGED vars
  <2>1. UNCHANGED <<table, daily, folded, page, pc, disturbed>>
    BY <1>5 DEF Commit, BeginQuery, EndQuery, vars, store, request, history
  <2> QED BY <2>1, GrowthCovers DEF BoundedInv
<1>6. ASSUME NEW r \in Record, InsertRow(r) PROVE PassIsBounded'
  <2>1. table' = Append(table, r) /\ UNCHANGED <<daily, folded, page, pc, disturbed>>
    BY <1>6 DEF InsertRow, request, history
  <2> QED BY <2>1, GrowthCovers DEF BoundedInv
<1>7. ~(Rollback \/ Crash \/ EndPass)
  BY DEF Rollback, Crash, EndPass, Leave, request
<1> QED BY <1>1, <1>2, <1>3, <1>4, <1>5, <1>6, <1>7 DEF Next, PassStep

\* While rows arrive, a complete pass that nothing disturbed counts no fewer rows of a key
\* than there were at its beginning, and its extremes enclose theirs and are values of
\* the table, although it may have taken a row twice.
THEOREM GrowingPassesAreBounded == Spec => []GrowingPassIsBounded
<1>1. Init => BoundedInv
  BY DEF Init, BoundedInv
<1>2. TypeOK /\ BoundedInv /\ [Next]_vars => BoundedInv'
  BY BoundedKept
<1>3. TypeOK /\ CoverageInv /\ BoundedInv => GrowingPassIsBounded
  <2> DEFINE of(k, n) == {i \in 1 .. n : KeyOf(table[i]) = k}
  <2> SUFFICES ASSUME TypeOK, CoverageInv, BoundedInv, pc = "done", ~disturbed,
                      NEW k \in Key, of(k, base) # {}
               PROVE  /\ daily[k].n >= Cardinality(of(k, base))
                      /\ \A i \in of(k, base) : table[i].value \in daily[k].min .. daily[k].max
                      /\ {daily[k].min, daily[k].max} \subseteq {table[i].value : i \in of(k, Len(table))}
    BY DEF GrowingPassIsBounded
  <2>1. 1 .. base \subseteq folded /\ folded \subseteq DOMAIN table /\ Covers(table, daily[k], FoldedOf(k))
    BY DEF CoverageInv, Coverage, BoundedInv, PassIsBounded
  <2>2. table \in Seq(Record) /\ daily[k] \in Row
    BY DEF TypeOK
  <2>3. of(k, base) \in SUBSET FoldedOf(k) /\ FoldedOf(k) \in SUBSET of(k, Len(table))
    BY <2>1, <2>2 DEF FoldedOf
  <2>4. /\ IsFiniteSet(FoldedOf(k)) /\ Cardinality(of(k, base)) <= Cardinality(FoldedOf(k))
        /\ Cardinality(FoldedOf(k)) \in Nat /\ Cardinality(of(k, base)) \in Nat
    <3>1. IsFiniteSet(1 .. Len(table)) /\ of(k, Len(table)) \in SUBSET (1 .. Len(table))
      BY <2>2, IntervalSize
    <3> HIDE DEF of
    <3> QED BY <2>3, <3>1, FS_Subset, FS_CardinalityType
  <2>5. daily[k].n >= Cardinality(of(k, base))
    <3>1. daily[k].n >= Cardinality(FoldedOf(k)) /\ daily[k].n \in Nat
      BY <2>1, <2>2 DEF Covers, Row
    <3> HIDE DEF of
    <3> QED BY <2>4, <3>1
  <2>6. \A i \in of(k, base) : table[i].value \in daily[k].min .. daily[k].max
    <3>1. \A i \in of(k, base) : table[i].value \in Int
      BY <2>1, <2>2, RecordAssumption
    <3> QED BY <2>1, <2>2, <2>3, <3>1 DEF Covers, Row
  <2>7. {daily[k].min, daily[k].max} \subseteq {table[i].value : i \in of(k, Len(table))}
    <3>1. FoldedOf(k) # {}
      BY <2>3
    <3>2. PICK x \in FoldedOf(k), y \in FoldedOf(k) :
             table[x].value = daily[k].min /\ table[y].value = daily[k].max
      BY <2>1, <3>1 DEF Covers
    <3> HIDE DEF of
    <3> QED BY <2>3, <3>2
  <2> QED BY <2>5, <2>6, <2>7
<1> QED BY <1>1, <1>2, <1>3, TypeCorrect, AlwaysCovered, PTL DEF Spec

-----------------------------------------------------------------------------
(* The table that is paged is a WeatherTable.                              *)

\* Every step of the pipeline inserts, commits, rolls back or leaves the table alone.
LEMMA TableStep ==
    ASSUME TypeOK, [Next]_vars
    PROVE  [Table!Next]_(Table!vars)
<1>1. table \in Seq(Record) /\ committed \in 0 .. Len(table) /\ Len(table) \in Nat
  BY DEF TypeOK
<1>2. ASSUME NEW r \in Record, InsertRow(r) PROVE Table!Next
  <2>1. /\ r \notin {table[i] : i \in DOMAIN table} /\ table' = Append(table, r)
        /\ UNCHANGED committed \/ (committed = Len(table) /\ committed' = Len(table'))
    BY <1>2 DEF InsertRow
  <2>2. {table'[i] : i \in DOMAIN table'} = {table[i] : i \in DOMAIN table} \cup {r}
    <3>1. /\ DOMAIN table' = 1 .. Len(table) + 1 /\ DOMAIN table = 1 .. Len(table)
          /\ table'[Len(table) + 1] = r /\ \A i \in DOMAIN table : table'[i] = table[i]
      BY <1>1, <2>1
    <3> QED BY <1>1, <3>1
  <2>3. \/ committed' = committed /\ \A i \in 1 .. committed : table'[i] = table[i]
        \/ 1 .. committed = DOMAIN table /\ 1 .. committed' = DOMAIN table'
    BY <1>1, <2>1
  <2>4. \/ {table'[i] : i \in 1 .. committed'} = {table[i] : i \in 1 .. committed}
        \/ /\ {table[i] : i \in 1 .. committed} = {table[i] : i \in DOMAIN table}
           /\ {table'[i] : i \in 1 .. committed'} = {table'[i] : i \in DOMAIN table'}
    BY <1>1, <2>1, <2>3
  <2> QED BY <2>1, <2>2, <2>4 DEF Table!Next, Table!Insert
<1>3. CASE Commit
  <2>1. table' = table /\ 1 .. committed' = DOMAIN table
    BY <1>1, <1>3 DEF Commit
  <2> QED BY <2>1 DEF Table!Next, Table!Commit
<1>4. CASE Rollback
  <2>1. /\ committed' = committed /\ DOMAIN table' = 1 .. committed
        /\ \A i \in 1 .. committed : table'[i] = table[i]
    BY <1>1, <1>4 DEF Rollback
  <2> QED BY <2>1 DEF Table!Next, Table!Rollback
<1>5. CASE UNCHANGED store
  BY <1>5 DEF store, Table!vars
<1> QED BY <1>2, <1>3, <1>4, <1>5
        DEF Next, PassStep, BeginQuery, EndQuery, BeginPass, SelectPage, CountRows, FoldRecord,
            NextPage, EndPass, RequestFails, Crash, vars

\* Rows come, are committed and rolled back as WeatherTable promises, which Ingestion
\* implements: the pages that the theorems above are about are read from the table
\* that the ingestion service keeps.
THEOREM PagesAWeatherTable == Spec => RowsAreKept
<1>1. Init => Table!Init
  BY DEF Init, Table!Init
<1>2. TypeOK /\ [Next]_vars => [Table!Next]_(Table!vars)
  BY TableStep
<1> QED BY <1>1, <1>2, TypeCorrect, PTL DEF Spec, RowsAreKept, Table!Spec

=============================================================================

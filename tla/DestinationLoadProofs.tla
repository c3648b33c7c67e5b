------------------------ MODULE DestinationLoadProofs ------------------------
(***************************************************************************)
(* Theorems about DestinationLoad, for any loads, batches and tables: the  *)
(* statements stay within the limits of the servers, a load returns the    *)
(* number of its records, and, for the settings under which loads of one   *)
(* key exclude each other, Upsert leaves one row per key.                  *)
(***************************************************************************)
EXTENDS DestinationLoad, TLAPS, FiniteSetTheorems

\* A load that waits to insert has a record in hand.
InsertingHasRecord ==
    \A l \in Loads : pc[l] = "inserting" => next[l] <= Len(batch[l])

LoadInv == TypeOK /\ InsertingHasRecord

LEMMA BatchLength ==
    ASSUME TypeOK, NEW l \in Loads
    PROVE  /\ batch[l] \in Seq(Keys \cup {NoKey})
           /\ Len(batch[l]) \in Nat
           /\ Len(batch[l]) <= 1000
           /\ \A i \in 1 .. Len(batch[l]) : batch[l][i] \in Keys \cup {NoKey}
<1>1. batch[l] \in Batches
  BY DEF TypeOK
<1>2. batch[l] \in Seq(Keys \cup {NoKey}) /\ Len(batch[l]) <= 1000
  BY <1>1, DestinationAssumption DEF BatchSize
<1> QED
  BY <1>2

LEMMA SettingType ==
    ASSUME TypeOK
    PROVE  /\ setting.server \in Servers
           /\ setting.columns \in Nat \ {0}
           /\ setting.columns <= MaxColumns[setting.server]
           /\ setting.alone \in BOOLEAN
BY DestinationAssumption DEF TypeOK, AllSettings

LEMMA MaxRowsType ==
    ASSUME TypeOK
    PROVE  maxRowsPerBatch \in Nat \ {0}
BY SettingType DEF maxRowsPerBatch, maxParameters

\* The size of an interval that may be empty.
LEMMA IntervalSize ==
    ASSUME NEW a \in Nat, NEW b \in Nat, a <= b + 1
    PROVE  IsFiniteSet(a .. b) /\ Cardinality(a .. b) = b - a + 1
<1>1. a \in Int /\ b \in Int
  OBVIOUS
<1>2. IsFiniteSet(a .. b) /\ Cardinality(a .. b) = IF a > b THEN 0 ELSE b - a + 1
  BY <1>1, FS_Interval
<1>3. a > b => b - a + 1 = 0
  OBVIOUS
<1> QED
  BY <1>2, <1>3

\* A statement covers the records from the next one on, at most so many.
LEMMA ChunkBounds ==
    ASSUME TypeOK, NEW l \in Loads
    PROVE  /\ Chunk(l) \subseteq 1 .. Len(batch[l])
           /\ IsFiniteSet(Chunk(l))
           /\ Cardinality(Chunk(l)) \in Nat
           /\ Cardinality(Chunk(l)) <= maxRowsPerBatch
           /\ Cardinality(Chunk(l)) + next[l] <= Len(batch[l]) + 1
<1>0. /\ next[l] \in Nat \ {0}
      /\ next[l] <= Len(batch[l]) + 1
      /\ Len(batch[l]) \in Nat
      /\ maxRowsPerBatch \in Nat \ {0}
  BY BatchLength, MaxRowsType DEF TypeOK
<1>1. /\ Chunk(l) \subseteq next[l] .. Len(batch[l])
      /\ Chunk(l) \subseteq next[l] .. next[l] + maxRowsPerBatch - 1
  BY <1>0 DEF Chunk
<1>2. /\ IsFiniteSet(next[l] .. Len(batch[l]))
      /\ Cardinality(next[l] .. Len(batch[l])) = Len(batch[l]) - next[l] + 1
  BY <1>0, IntervalSize
<1> DEFINE last == next[l] + maxRowsPerBatch - 1
<1>3. IsFiniteSet(next[l] .. last) /\ Cardinality(next[l] .. last) = maxRowsPerBatch
  <2>1. last \in Nat /\ next[l] <= last + 1 /\ last - next[l] + 1 = maxRowsPerBatch
    BY <1>0
  <2> HIDE DEF last
  <2> QED
    BY <1>0, <2>1, IntervalSize
<1>4. IsFiniteSet(Chunk(l)) /\ Cardinality(Chunk(l)) <= Len(batch[l]) - next[l] + 1
  BY <1>1, <1>2, FS_Subset
<1>5. Cardinality(Chunk(l)) <= maxRowsPerBatch
  BY <1>1, <1>3, FS_Subset
<1>6. Cardinality(Chunk(l)) \in Nat
  BY <1>4, FS_CardinalityType
<1> QED
  BY <1>0, <1>1, <1>4, <1>5, <1>6

-----------------------------------------------------------------------------
(* Types *)

LEMMA RowTypes ==
    ASSUME TypeOK, NEW l \in Loads
    PROVE  /\ Visible(l) \subseteq AllRows
           /\ \A i \in 1 .. Len(batch[l]) : NewRow(l, i) \in AllRows
           /\ \A rows : rows \subseteq AllRows => Updated(l, rows) \subseteq AllRows
<1>1. Visible(l) \subseteq AllRows
  BY DEF Visible, TypeOK
<1>2. ASSUME NEW i \in 1 .. Len(batch[l])
      PROVE  NewRow(l, i) \in AllRows
  <2>1. batch[l][i] \in Keys \cup {NoKey} /\ <<l, i>> \in (Loads \cup {Before}) \X Nat
    BY <1>2, BatchLength
  <2> QED
    BY <2>1 DEF NewRow, AllRows
<1>3. ASSUME NEW rows, rows \subseteq AllRows
      PROVE  Updated(l, rows) \subseteq AllRows
  <2>1. <<l, next[l]>> \in (Loads \cup {Before}) \X Nat
    BY DEF TypeOK
  <2> QED
    BY <1>3, <2>1 DEF Updated, AllRows
<1> QED
  BY <1>1, <1>2, <1>3

LEMMA InitLoadInv == Init => LoadInv
<1> SUFFICES ASSUME Init PROVE LoadInv
  OBVIOUS
<1>1. \A l \in Loads : Len(batch[l]) \in Nat
  BY DestinationAssumption DEF Init
<1> QED
  BY <1>1, DestinationAssumption DEF Init, LoadInv, TypeOK, InsertingHasRecord, InTransaction

LEMMA NextLoadInv == LoadInv /\ [Next]_vars => LoadInv'
<1> SUFFICES ASSUME LoadInv, [Next]_vars
             PROVE  LoadInv'
  OBVIOUS
<1>0. TypeOK
  BY DEF LoadInv
<1>a. CASE UNCHANGED vars
  BY <1>a DEF vars, LoadInv, TypeOK, InsertingHasRecord, InTransaction
<1>b. ASSUME NEW l \in Loads, Throw(l)
      PROVE  LoadInv'
  BY <1>b DEF Throw, Dispose, LoadInv, TypeOK, InsertingHasRecord, InTransaction
<1>c. ASSUME NEW l \in Loads, NEW rows, NEW n \in Nat, rows \subseteq AllRows,
             InTransaction(l), next[l] + n <= Len(batch[l]) + 1,
             Write(l, rows), Advance(l, n), UNCHANGED <<setting, batch>>,
             pc' = [pc EXCEPT ![l] = "writing"]
      PROVE  LoadInv'
  <2>1. work' \in [Loads -> SUBSET AllRows] /\ table' = table
    BY <1>c DEF Write, LoadInv, TypeOK
  <2>2. \A m \in Loads : Len(batch[m]) \in Nat
    BY <1>0, BatchLength
  <2>3. /\ next' \in [Loads -> Nat] /\ loaded' \in [Loads -> Nat]
        /\ \A m \in Loads : next'[m] \in 1 .. Len(batch[m]) + 1
        /\ \A m \in Loads : m # l => next'[m] = next[m]
    BY <1>c, <2>2 DEF Advance, LoadInv, TypeOK
  <2>4. \A m \in Loads : m # l => work'[m] = work[m] /\ pc'[m] = pc[m]
    BY <1>c DEF Write, LoadInv, TypeOK
  <2>5. pc'[l] = "writing"
    BY <1>c DEF LoadInv, TypeOK
  <2>6. pc' \in [Loads -> {"called", "writing", "inserting", "returned", "threw"}]
    BY <1>c DEF LoadInv, TypeOK
  <2> QED
    BY <1>c, <2>1, <2>3, <2>4, <2>5, <2>6 DEF LoadInv, TypeOK, InsertingHasRecord, InTransaction
<1>1. ASSUME NEW l \in Loads, Begin(l)
      PROVE  LoadInv'
  BY <1>1 DEF Begin, LoadInv, TypeOK, InsertingHasRecord, InTransaction
<1>2. ASSUME NEW l \in Loads, BulkStatement(l)
      PROVE  LoadInv'
  <2>1. {NewRow(l, i) : i \in Chunk(l)} \subseteq AllRows
    BY <1>0, RowTypes, ChunkBounds
  <2>2. pc' = [pc EXCEPT ![l] = "writing"]
    BY <1>2, <1>0 DEF BulkStatement, Ready, TypeOK
  <2> QED
    <3>1. /\ InTransaction(l) /\ UNCHANGED <<setting, batch>>
          /\ Write(l, {NewRow(l, i) : i \in Chunk(l)})
          /\ Advance(l, Cardinality(Chunk(l)))
      BY <1>2 DEF BulkStatement, Ready, Remaining
    <3>2. /\ Cardinality(Chunk(l)) \in Nat
          /\ next[l] + Cardinality(Chunk(l)) <= Len(batch[l]) + 1
      <4>1. Cardinality(Chunk(l)) + next[l] <= Len(batch[l]) + 1
        BY <1>0, ChunkBounds
      <4>2. Cardinality(Chunk(l)) \in Nat /\ next[l] \in Nat /\ Len(batch[l]) \in Nat
        BY <1>0, ChunkBounds, BatchLength DEF TypeOK
      <4> QED
        BY <4>1, <4>2
    <3> QED
      BY <1>c, <2>1, <2>2, <3>1, <3>2
<1>3. ASSUME NEW l \in Loads, UpsertPostgres(l)
      PROVE  LoadInv'
  <2> DEFINE found == Matching(l, Key(l))
             rows == IF found = {} THEN {NewRow(l, next[l])} ELSE Updated(l, found)
  <2>1. next[l] \in 1 .. Len(batch[l])
    BY <1>0, <1>3, BatchLength DEF UpsertPostgres, Ready, Remaining, TypeOK
  <2>2. rows \subseteq AllRows
    <3>1. found \subseteq AllRows
      BY <1>0, RowTypes DEF Matching
    <3> QED
      BY <1>0, <2>1, <3>1, RowTypes
  <2>3. pc' = [pc EXCEPT ![l] = "writing"] /\ Write(l, rows)
    BY <1>3, <1>0 DEF UpsertPostgres, Ready, TypeOK
  <2>4. next[l] + 1 <= Len(batch[l]) + 1
    BY <1>0, <2>1, BatchLength
  <2>5. InTransaction(l) /\ Advance(l, 1) /\ UNCHANGED <<setting, batch>>
    BY <1>3 DEF UpsertPostgres, Ready, Remaining
  <2> HIDE DEF rows
  <2> QED
    BY <1>c, <2>2, <2>3, <2>4, <2>5
<1>4. ASSUME NEW l \in Loads, UpdateSqlServer(l)
      PROVE  LoadInv'
  <2> DEFINE found == Matching(l, Key(l))
  <2>1. /\ next[l] \in 1 .. Len(batch[l]) /\ pc[l] = "writing"
        /\ next[l] <= Len(batch[l])
    BY <1>0, <1>4, BatchLength DEF UpdateSqlServer, Ready, Remaining, TypeOK
  <2>2. Updated(l, found) \subseteq AllRows
    <3>1. found \subseteq AllRows
      BY <1>0, RowTypes DEF Matching
    <3> QED
      BY <1>0, <3>1, RowTypes
  <2>3. CASE Write(l, Updated(l, found)) /\ Advance(l, 1) /\ UNCHANGED pc
    <3>1. pc' = [pc EXCEPT ![l] = "writing"]
      BY <2>1, <2>3, <1>0 DEF TypeOK
    <3>2. next[l] + 1 <= Len(batch[l]) + 1
      BY <1>0, <2>1, BatchLength
    <3>3. InTransaction(l) /\ UNCHANGED <<setting, batch>>
      BY <1>4, <2>1 DEF UpdateSqlServer, InTransaction
    <3> QED
      BY <1>c, <2>2, <2>3, <3>1, <3>2, <3>3
  <2>4. CASE pc' = [pc EXCEPT ![l] = "inserting"] /\ UNCHANGED <<next, loaded, table, work>>
    BY <1>4, <2>1, <2>4 DEF UpdateSqlServer, LoadInv, TypeOK, InsertingHasRecord, InTransaction
  <2> QED
    BY <1>4, <2>3, <2>4 DEF UpdateSqlServer
<1>5. ASSUME NEW l \in Loads, InsertSqlServer(l)
      PROVE  LoadInv'
  <2>1. next[l] \in 1 .. Len(batch[l]) /\ next[l] + 1 <= Len(batch[l]) + 1
    BY <1>0, <1>5, BatchLength DEF InsertSqlServer, LoadInv, InsertingHasRecord, TypeOK
  <2>2. {NewRow(l, next[l])} \subseteq AllRows
    BY <1>0, <2>1, RowTypes
  <2>3. /\ InTransaction(l) /\ Write(l, {NewRow(l, next[l])}) /\ Advance(l, 1)
        /\ UNCHANGED <<setting, batch>> /\ pc' = [pc EXCEPT ![l] = "writing"]
    BY <1>5 DEF InsertSqlServer, InTransaction
  <2> QED
    BY <1>c, <2>1, <2>2, <2>3
<1>6. ASSUME NEW l \in Loads, Commit(l)
      PROVE  LoadInv'
  <2>1. table' \subseteq AllRows
    BY <1>0, <1>6, RowTypes DEF Commit
  <2> QED
    BY <1>6, <2>1 DEF Commit, Dispose, LoadInv, TypeOK, InsertingHasRecord, InTransaction
<1>7. ASSUME NEW l \in Loads, Rejected(l) \/ DeadlockVictim(l) \/ Fail(l)
      PROVE  LoadInv'
  BY <1>7, <1>b DEF Rejected, DeadlockVictim, Fail
<1> QED
  BY <1>a, <1>1, <1>2, <1>3, <1>4, <1>5, <1>6, <1>7 DEF Next, Progress

\* The variables keep their types, and only an open transaction holds locks.
THEOREM LoadTypes == Spec => []TypeOK
<1>1. LoadInv => TypeOK
  BY DEF LoadInv
<1> QED
  BY <1>1, InitLoadInv, NextLoadInv, PTL DEF Spec

-----------------------------------------------------------------------------
(* Limits of the servers *)

\* A quotient times its divisor stays below the dividend.
LEMMA QuotientFits ==
    ASSUME NEW limit \in Nat, NEW width \in Nat \ {0}
    PROVE  (limit \div width) * width <= limit
OBVIOUS

LEMMA TypesGiveFits == TypeOK => StatementFits
<1> SUFFICES ASSUME TypeOK, NEW l \in Loads
             PROVE  LET rows == Cardinality(Chunk(l))
                    IN  IF setting.server = "SqlServer"
                        THEN rows <= 1000 /\ rows * setting.columns <= 2100
                        ELSE rows * setting.columns <= 65535
  BY DEF StatementFits
<1> DEFINE rows == Cardinality(Chunk(l))
           width == setting.columns
           quotient == maxParameters \div width
<1>1. /\ rows \in Nat /\ rows <= maxRowsPerBatch
      /\ rows + next[l] <= Len(batch[l]) + 1
      /\ next[l] \in Nat \ {0} /\ Len(batch[l]) \in Nat /\ Len(batch[l]) <= 1000
  BY ChunkBounds, BatchLength DEF TypeOK
<1>2. /\ width \in Nat \ {0}
      /\ setting.server = "SqlServer" => width <= 1024 /\ maxParameters = 2000
      /\ setting.server # "SqlServer" => width <= 1600 /\ maxParameters = 65000
  BY SettingType DEF MaxColumns, Servers, maxParameters
<1>3. quotient \in Nat /\ quotient * width <= maxParameters
  BY <1>2, QuotientFits
<1>4. maxRowsPerBatch = IF quotient = 0 THEN 1 ELSE quotient
  BY DEF maxRowsPerBatch
<1>5. rows * width <= IF quotient = 0 THEN width ELSE maxParameters
  <2> HIDE DEF rows, width, quotient
  <2>1. CASE quotient = 0
    <3>1. rows = 0 \/ rows = 1
      BY <1>1, <1>4, <2>1
    <3> QED
      BY <1>2, <2>1, <3>1
  <2>2. CASE quotient # 0
    <3>1. rows <= quotient
      BY <1>1, <1>4, <2>2
    <3>2. rows * width <= quotient * width
      BY <1>1, <1>2, <1>3, <3>1
    <3>3. rows * width \in Nat /\ quotient * width \in Nat /\ maxParameters \in Nat
      BY <1>1, <1>2, <1>3
    <3> QED
      BY <1>3, <2>2, <3>2, <3>3
  <2> QED
    BY <2>1, <2>2
<1>6. rows <= 1000
  <2> HIDE DEF rows
  <2> QED
    BY <1>1
<1> HIDE DEF rows, width, quotient
<1>7. rows * width \in Nat
  BY <1>1, <1>2
<1>8. CASE setting.server = "SqlServer"
  BY <1>2, <1>5, <1>6, <1>7, <1>8 DEF rows, width
<1>9. CASE setting.server # "SqlServer"
  BY <1>2, <1>5, <1>7, <1>9 DEF rows, width
<1> QED
  BY <1>8, <1>9

\* Whatever the table's width and the batch, every INSERT of BulkInsertAsync
\* stays within the parameters and rows its server accepts.
THEOREM StatementsFit == Spec => []StatementFits
BY LoadTypes, TypesGiveFits, PTL

-----------------------------------------------------------------------------
(* The count *)

\* The count follows the position, and only a call at its end returns.
CountFollows ==
    \A l \in Loads :
        /\ loaded[l] + 1 = next[l]
        /\ pc[l] = "returned" => next[l] = Len(batch[l]) + 1

LEMMA CountStep == LoadInv /\ CountFollows /\ [Next]_vars => CountFollows'
<1> SUFFICES ASSUME LoadInv, CountFollows, [Next]_vars
             PROVE  CountFollows'
  OBVIOUS
<1>0. TypeOK /\ \A l \in Loads : Len(batch[l]) \in Nat
  BY BatchLength DEF LoadInv
<1>a. CASE UNCHANGED vars
  BY <1>a DEF vars, CountFollows
<1>b. ASSUME NEW l \in Loads, UNCHANGED <<batch, next, loaded>>,
             NEW s \in {"writing", "inserting", "threw"}, pc' = [pc EXCEPT ![l] = s]
      PROVE  CountFollows'
  BY <1>0, <1>b DEF CountFollows, TypeOK
<1>c. ASSUME NEW l \in Loads, NEW n \in Nat, Advance(l, n), UNCHANGED batch,
             InTransaction(l), pc' = [pc EXCEPT ![l] = "writing"]
      PROVE  CountFollows'
  <2>1. \A m \in Loads : loaded[m] \in Nat /\ next[m] \in Nat
    BY <1>0 DEF TypeOK
  <2>2. /\ loaded'[l] = loaded[l] + n /\ next'[l] = next[l] + n
        /\ \A m \in Loads : m # l => loaded'[m] = loaded[m] /\ next'[m] = next[m]
    BY <1>0, <1>c DEF Advance, TypeOK
  <2>3. pc'[l] = "writing" /\ \A m \in Loads : m # l => pc'[m] = pc[m]
    BY <1>0, <1>c DEF TypeOK
  <2> QED
    BY <1>c, <2>1, <2>2, <2>3 DEF CountFollows
<1>1. ASSUME NEW l \in Loads, Begin(l)
      PROVE  CountFollows'
  <2>1. batch[l] = <<>> => next[l] = 1
    BY <1>0 DEF TypeOK
  <2> QED
    BY <1>0, <1>1, <2>1 DEF Begin, CountFollows, TypeOK
<1>2. ASSUME NEW l \in Loads, BulkStatement(l)
      PROVE  CountFollows'
  <2>1. Cardinality(Chunk(l)) \in Nat
    BY <1>0, ChunkBounds
  <2>2. /\ Advance(l, Cardinality(Chunk(l))) /\ UNCHANGED batch /\ InTransaction(l)
        /\ pc' = [pc EXCEPT ![l] = "writing"]
    BY <1>0, <1>2 DEF BulkStatement, Ready, Remaining, TypeOK
  <2> QED
    BY <1>c, <2>1, <2>2
<1>3. ASSUME NEW l \in Loads, UpsertPostgres(l)
      PROVE  CountFollows'
  BY <1>0, <1>3, <1>c DEF UpsertPostgres, Ready, Remaining, TypeOK
<1>4. ASSUME NEW l \in Loads, UpdateSqlServer(l)
      PROVE  CountFollows'
  <2>1. pc[l] = "writing" /\ InTransaction(l) /\ UNCHANGED batch
    BY <1>4 DEF UpdateSqlServer, Ready, InTransaction
  <2>2. CASE Advance(l, 1) /\ UNCHANGED pc
    BY <1>0, <1>c, <2>1, <2>2 DEF TypeOK
  <2>3. CASE pc' = [pc EXCEPT ![l] = "inserting"] /\ UNCHANGED <<next, loaded>>
    BY <1>b, <2>1, <2>3
  <2> QED
    BY <1>4, <2>2, <2>3 DEF UpdateSqlServer
<1>5. ASSUME NEW l \in Loads, InsertSqlServer(l)
      PROVE  CountFollows'
  BY <1>5, <1>c DEF InsertSqlServer, InTransaction
<1>6. ASSUME NEW l \in Loads, Commit(l)
      PROVE  CountFollows'
  <2>1. next[l] \in 1 .. Len(batch[l]) + 1 /\ ~ (next[l] <= Len(batch[l]))
    BY <1>0, <1>6 DEF Commit, Remaining, InTransaction, TypeOK
  <2>2. next[l] = Len(batch[l]) + 1
    BY <1>0, <2>1
  <2> QED
    BY <1>0, <1>6, <2>2 DEF Commit, CountFollows, TypeOK
<1>7. ASSUME NEW l \in Loads, Rejected(l) \/ DeadlockVictim(l) \/ Fail(l)
      PROVE  CountFollows'
  BY <1>7, <1>b DEF Rejected, DeadlockVictim, Fail, Throw
<1> QED
  BY <1>a, <1>1, <1>2, <1>3, <1>4, <1>5, <1>6, <1>7 DEF Next, Progress

\* A load that returns has written, and reports, each record of its batch.
THEOREM LoadCounts == Spec => []CountIsBatch
<1>1. Init => CountFollows
  BY DEF Init, CountFollows
<1>2. LoadInv /\ CountFollows => CountIsBatch
  <2> SUFFICES ASSUME LoadInv, CountFollows, NEW l \in Loads, pc[l] = "returned"
               PROVE  loaded[l] = Len(batch[l])
    BY DEF CountIsBatch
  <2>1. loaded[l] \in Nat /\ Len(batch[l]) \in Nat
    BY BatchLength DEF LoadInv, TypeOK
  <2> QED
    BY <2>1 DEF CountFollows
<1> QED
  BY <1>1, <1>2, InitLoadInv, NextLoadInv, CountStep, PTL DEF Spec

-----------------------------------------------------------------------------
(* One row per key *)

\* Rows are only added, or loads of one key exclude each other.
Exclusive == \A s \in Settings : s.strategy = "Upsert" => s.index = "unique" \/ s.alone

Unique(t) == \A r, s \in t : r.key = s.key /\ r.key # NoKey => r.id = s.id

\* No two open transactions hold one key.
HeldApart ==
    \A l, m \in Loads : \A v \in work[l], w \in work[m] :
        l # m /\ v.key = w.key => v.key = NoKey

\* The UPDATE's verdict still holds when nobody else writes.
StillMissing ==
    \A l \in Loads :
        setting.alone /\ pc[l] = "inserting" => Matching(l, Key(l)) = {}

AtMostOne ==
    setting.alone =>
        \A l, m \in Loads : InTransaction(l) /\ InTransaction(m) => l = m

\* Each transaction keeps the keys it sees unique.
KeysInv ==
    /\ AtMostOne
    /\ setting.strategy = "Upsert" =>
        /\ StillMissing
        /\ HeldApart
        /\ Unique(table) => \A l \in Loads : Unique(Visible(l))

\* What a transaction sees after it wrote rows.
LEMMA WriteShows ==
    ASSUME TypeOK, NEW l \in Loads, NEW rows, Write(l, rows)
    PROVE  /\ Visible(l)' \subseteq Visible(l) \cup rows
           /\ work'[l] \subseteq work[l] \cup rows
           /\ \A m \in Loads : m # l => work'[m] = work[m] /\ Visible(m)' = Visible(m)
           /\ table' = table
<1>1. /\ work'[l] = {v \in work[l] : \A r \in rows : r.id # v.id} \cup rows
      /\ table' = table
      /\ \A m \in Loads : m # l => work'[m] = work[m]
  BY DEF Write, TypeOK
<1>2. ASSUME NEW x \in table, \A v \in work'[l] : v.id # x.id
      PROVE  \A v \in work[l] : v.id # x.id
  <2> SUFFICES ASSUME NEW v \in work[l], v.id = x.id
               PROVE  FALSE
    OBVIOUS
  <2>1. CASE v \in work'[l]
    BY <1>2, <2>1
  <2>2. CASE v \notin work'[l]
    <3>1. PICK r \in rows : r.id = v.id
      BY <1>1, <2>2
    <3> QED
      BY <1>1, <1>2, <3>1
  <2> QED
    BY <2>1, <2>2
<1>3. Visible(l)' \subseteq Visible(l) \cup rows
  BY <1>1, <1>2 DEF Visible
<1> QED
  BY <1>1, <1>3 DEF Visible

\* A write of versions of rows that were visible, or of a row whose key no
\* visible row and no other transaction has, keeps the keys apart.
LEMMA WriteKeepsKeys ==
    ASSUME TypeOK, NEW l \in Loads, NEW rows, Write(l, rows),
           HeldApart,
           Unique(table) => \A m \in Loads : Unique(Visible(m)),
           NEW k, \A r \in rows : r.key = k,
           k # NoKey => Holders(l, k) = {},
           \/ \A r \in rows : \E s \in Visible(l) : s.id = r.id /\ s.key = r.key
           \/ /\ k # NoKey => \A s \in Visible(l) : s.key # k
              /\ \A r, s \in rows : r = s
    PROVE  /\ HeldApart'
           /\ Unique(table') => \A m \in Loads : Unique(Visible(m)')
<1>1. HeldApart'
  <2> SUFFICES ASSUME NEW m \in Loads, NEW n \in Loads,
                      NEW v \in work'[m], NEW w \in work'[n],
                      m # n, v.key = w.key, v.key # NoKey
               PROVE  FALSE
    BY DEF HeldApart
  <2>1. ASSUME NEW a, a # NoKey, NEW u \in rows, u.key = a,
               NEW x \in Loads, x # l, NEW y \in work[x], y.key = a
        PROVE  FALSE
    BY <2>1 DEF Holders
  <2>2. CASE m = l
    <3>1. w \in work[n] /\ v \in work[l] \cup rows
      BY <2>2, WriteShows
    <3> QED
      BY <2>1, <2>2, <3>1 DEF HeldApart
  <2>3. CASE n = l
    <3>1. v \in work[m] /\ w \in work[l] \cup rows
      BY <2>3, WriteShows
    <3> QED
      BY <2>1, <2>3, <3>1 DEF HeldApart
  <2>4. CASE m # l /\ n # l
    BY <2>4, WriteShows DEF HeldApart
  <2> QED
    BY <2>2, <2>3, <2>4
<1>2. ASSUME Unique(table'), NEW m \in Loads
      PROVE  Unique(Visible(m)')
  <2>0. Unique(Visible(m))
    BY <1>2, WriteShows
  <2>1. CASE m # l
    BY <2>0, <2>1, WriteShows
  <2>2. CASE m = l
    <3> SUFFICES ASSUME NEW r \in Visible(l) \cup rows, NEW s \in Visible(l) \cup rows,
                        r.key = s.key, r.key # NoKey
                 PROVE  r.id = s.id
      BY <2>2, WriteShows DEF Unique
    <3>1. CASE \A u \in rows : \E x \in Visible(l) : x.id = u.id /\ x.key = u.key
      <4>1. PICK x \in Visible(l) : x.id = r.id /\ x.key = r.key
        BY <3>1
      <4>2. PICK y \in Visible(l) : y.id = s.id /\ y.key = s.key
        BY <3>1
      <4> QED
        BY <2>0, <2>2, <4>1, <4>2 DEF Unique
    <3>2. CASE /\ k # NoKey => \A x \in Visible(l) : x.key # k
               /\ \A u, x \in rows : u = x
      BY <2>0, <2>2, <3>2 DEF Unique
    <3> QED
      BY <3>1, <3>2
  <2> QED
    BY <2>1, <2>2
<1> QED
  BY <1>1, <1>2

\* The key of a row follows from who inserted it.
KeyFromId(x) ==
    IF x.id[1] = Before THEN \E o \in OldRows : o.id = x.id /\ o.key = x.key
    ELSE x.key = batch[x.id[1]][x.id[2]]

RowKeys == /\ \A r \in table : KeyFromId(r)
           /\ \A l \in Loads : \A v \in work[l] : KeyFromId(v)

LEMMA SameIdSameKey ==
    ASSUME NEW x, NEW y, KeyFromId(x), KeyFromId(y), x.id = y.id
    PROVE  x.key = y.key
<1>1. CASE x.id[1] = Before
  <2>1. PICK o \in OldRows : o.id = x.id /\ o.key = x.key
    BY <1>1 DEF KeyFromId
  <2>2. PICK p \in OldRows : p.id = x.id /\ p.key = y.key
    BY <1>1 DEF KeyFromId
  <2>3. o = p
    BY <2>1, <2>2, DestinationAssumption
  <2> QED
    BY <2>1, <2>2, <2>3
<1>2. CASE x.id[1] # Before
  BY <1>2 DEF KeyFromId
<1> QED
  BY <1>1, <1>2

\* What the loads write keeps the keys of rows.
LEMMA WrittenKeys ==
    ASSUME TypeOK, RowKeys, NEW l \in Loads
    PROVE  /\ \A r \in Visible(l) : KeyFromId(r)
           /\ \A i : KeyFromId(NewRow(l, i))
           /\ \A rows : (\A r \in rows : r \in AllRows /\ KeyFromId(r))
                  => \A r \in Updated(l, rows) : KeyFromId(r)
<1>1. \A r \in Visible(l) : KeyFromId(r)
  BY DEF Visible, RowKeys
<1>2. ASSUME NEW i PROVE KeyFromId(NewRow(l, i))
  BY DestinationAssumption DEF KeyFromId, NewRow
<1>3. ASSUME NEW r, r \in AllRows, KeyFromId(r), NEW b
      PROVE  KeyFromId([r EXCEPT !.by = b])
  <2>1. [r EXCEPT !.by = b].id = r.id /\ [r EXCEPT !.by = b].key = r.key
    BY <1>3 DEF AllRows
  <2> QED
    BY <1>3, <2>1 DEF KeyFromId
<1> QED
  BY <1>1, <1>2, <1>3 DEF Updated

\* One proof for all that preserve it: rows that are there, or written.
LEMMA RowKeysStep ==
    ASSUME LoadInv, RowKeys, [Next]_vars
    PROVE  RowKeys'
<1>0. TypeOK /\ work \in [Loads -> SUBSET AllRows]
  BY DEF LoadInv, TypeOK
<1>1. batch' = batch
  BY DEF Next, vars, Progress, Begin, BulkStatement, UpsertPostgres, UpdateSqlServer,
         InsertSqlServer, Rejected, Commit, DeadlockVictim, Fail, Throw
<1>a. ASSUME \A r \in table' : KeyFromId(r),
             \A m \in Loads : \A v \in work'[m] : KeyFromId(v)
      PROVE  RowKeys'
  BY <1>1, <1>a DEF RowKeys, KeyFromId
<1>b. ASSUME NEW l \in Loads, NEW rows, Write(l, rows), \A r \in rows : KeyFromId(r)
      PROVE  RowKeys'
  <2>1. /\ table' = table
        /\ \A m \in Loads : work'[m] \subseteq work[m] \cup rows
    BY <1>0, <1>b, WriteShows
  <2> QED
    BY <1>a, <1>b, <2>1 DEF RowKeys
<1>c. ASSUME UNCHANGED <<table, work>> PROVE RowKeys'
  BY <1>a, <1>c DEF RowKeys
<1>d. ASSUME NEW l \in Loads, Dispose(l), table' = table \/ table' = Visible(l)
      PROVE  RowKeys'
  BY <1>0, <1>a, <1>d, WrittenKeys DEF RowKeys, Dispose
<1>e. ASSUME NEW l \in Loads
      PROVE  \A r \in Updated(l, Matching(l, Key(l))) : KeyFromId(r)
  <2>1. \A r \in Matching(l, Key(l)) : r \in AllRows /\ KeyFromId(r)
    BY <1>0, RowTypes, WrittenKeys DEF Matching
  <2> QED
    BY <1>0, <2>1, WrittenKeys
<1>2. CASE UNCHANGED vars
  BY <1>2, <1>c DEF vars
<1>3. ASSUME NEW l \in Loads, Begin(l) PROVE RowKeys'
  BY <1>3, <1>c DEF Begin
<1>4. ASSUME NEW l \in Loads, BulkStatement(l) PROVE RowKeys'
  BY <1>0, <1>4, <1>b, WrittenKeys DEF BulkStatement
<1>5. ASSUME NEW l \in Loads, UpsertPostgres(l) PROVE RowKeys'
  <2> DEFINE found == Matching(l, Key(l))
             rows == IF found = {} THEN {NewRow(l, next[l])} ELSE Updated(l, found)
  <2>1. Write(l, rows)
    BY <1>5 DEF UpsertPostgres
  <2>2. \A r \in rows : KeyFromId(r)
    BY <1>0, <1>e, WrittenKeys
  <2> HIDE DEF rows
  <2> QED
    BY <1>b, <2>1, <2>2
<1>6. ASSUME NEW l \in Loads, UpdateSqlServer(l) PROVE RowKeys'
  BY <1>6, <1>b, <1>c, <1>e DEF UpdateSqlServer
<1>7. ASSUME NEW l \in Loads, InsertSqlServer(l) PROVE RowKeys'
  BY <1>0, <1>7, <1>b, WrittenKeys DEF InsertSqlServer
<1>8. ASSUME NEW l \in Loads, Commit(l) PROVE RowKeys'
  BY <1>8, <1>d DEF Commit
<1>9. ASSUME NEW l \in Loads, Rejected(l) \/ DeadlockVictim(l) \/ Fail(l) PROVE RowKeys'
  BY <1>9, <1>d DEF Rejected, DeadlockVictim, Fail, Throw
<1> QED
  BY <1>2, <1>3, <1>4, <1>5, <1>6, <1>7, <1>8, <1>9 DEF Next, Progress

\* A transaction begins only when no other is open, where loads are alone.
LEMMA AtMostOneStep ==
    ASSUME LoadInv, AtMostOne, [Next]_vars
    PROVE  AtMostOne'
<1>0. TypeOK
  BY DEF LoadInv
<1>a. ASSUME NEW l \in Loads, setting' = setting,
             NEW s \in {"writing", "inserting", "returned", "threw"},
             pc' = [pc EXCEPT ![l] = s],
             InTransaction(l) \/ s \in {"returned", "threw"}
      PROVE  AtMostOne'
  BY <1>0, <1>a DEF AtMostOne, InTransaction, TypeOK
<1>1. CASE UNCHANGED <<setting, pc>>
  BY <1>1 DEF AtMostOne, InTransaction
<1>2. ASSUME NEW l \in Loads, Begin(l) PROVE AtMostOne'
  BY <1>0, <1>2 DEF Begin, AtMostOne, InTransaction, TypeOK
<1>3. ASSUME NEW l \in Loads, UpdateSqlServer(l) PROVE AtMostOne'
  BY <1>1, <1>3, <1>a DEF UpdateSqlServer, Ready, Remaining
<1>4. ASSUME NEW l \in Loads, InsertSqlServer(l) \/ Commit(l) PROVE AtMostOne'
  BY <1>4, <1>a DEF InsertSqlServer, Commit, InTransaction
<1>5. ASSUME NEW l \in Loads, Rejected(l) \/ DeadlockVictim(l) \/ Fail(l) PROVE AtMostOne'
  BY <1>5, <1>a DEF Rejected, DeadlockVictim, Fail, Throw
<1> QED
  BY <1>1, <1>2, <1>3, <1>4, <1>5 DEF Next, Progress, vars, BulkStatement, UpsertPostgres

\* The UPDATE that found nothing is still right when the INSERT comes.
LEMMA StillMissingStep ==
    ASSUME LoadInv, AtMostOne, StillMissing, [Next]_vars
    PROVE  StillMissing'
<1>0. TypeOK /\ setting' = setting /\ batch' = batch
  BY DEF LoadInv, Next, vars, Progress, Begin, BulkStatement, UpsertPostgres, UpdateSqlServer,
         InsertSqlServer, Rejected, Commit, DeadlockVictim, Fail, Throw
<1>a. ASSUME UNCHANGED <<table, work, next>>,
             \A m \in Loads : pc'[m] = "inserting" =>
                 pc[m] = "inserting" \/ Matching(m, Key(m)) = {}
      PROVE  StillMissing'
  BY <1>0, <1>a DEF StillMissing, Matching, Visible, Key
\* l is the only one in a transaction, and it is not inserting any more.
<1>b. ASSUME NEW l \in Loads, InTransaction(l), NEW s \in {"writing", "returned", "threw"},
             pc' = [pc EXCEPT ![l] = s]
      PROVE  StillMissing'
  BY <1>0, <1>b DEF StillMissing, AtMostOne, InTransaction, TypeOK
<1>1. CASE UNCHANGED vars
  BY <1>1, <1>a DEF vars
<1>2. ASSUME NEW l \in Loads, Begin(l) PROVE StillMissing'
  BY <1>0, <1>2, <1>a DEF Begin, TypeOK
<1>3. ASSUME NEW l \in Loads, BulkStatement(l) \/ UpsertPostgres(l) PROVE StillMissing'
  <2>1. InTransaction(l) /\ pc' = [pc EXCEPT ![l] = "writing"]
    BY <1>0, <1>3 DEF BulkStatement, UpsertPostgres, Ready, Remaining, TypeOK
  <2> QED
    BY <1>b, <2>1
<1>4. ASSUME NEW l \in Loads, UpdateSqlServer(l) PROVE StillMissing'
  <2>1. InTransaction(l) /\ pc[l] = "writing"
    BY <1>4 DEF UpdateSqlServer, Ready, Remaining
  <2>2. CASE UNCHANGED pc
    <3>1. pc' = [pc EXCEPT ![l] = "writing"]
      BY <1>0, <2>1, <2>2 DEF TypeOK
    <3> QED
      BY <1>b, <2>1, <3>1
  <2>3. CASE /\ Matching(l, Key(l)) = {} /\ pc' = [pc EXCEPT ![l] = "inserting"]
             /\ UNCHANGED <<next, table, work>>
    BY <1>0, <1>a, <2>3 DEF TypeOK
  <2> QED
    BY <1>4, <2>2, <2>3 DEF UpdateSqlServer
<1>5. ASSUME NEW l \in Loads, InsertSqlServer(l) \/ Commit(l) PROVE StillMissing'
  BY <1>5, <1>b DEF InsertSqlServer, Commit, InTransaction
<1>6. ASSUME NEW l \in Loads, Rejected(l) \/ DeadlockVictim(l) \/ Fail(l) PROVE StillMissing'
  <2>1. Throw(l)
    BY <1>6 DEF Rejected, DeadlockVictim, Fail
  <2>2. CASE InTransaction(l)
    BY <1>b, <2>1, <2>2 DEF Throw
  <2>3. CASE ~ InTransaction(l)
    <3>1. work' = work
      BY <1>0, <2>1, <2>3 DEF Throw, Dispose, TypeOK
    <3> QED
      BY <1>0, <1>a, <2>1, <3>1 DEF Throw, TypeOK
  <2> QED
    BY <2>2, <2>3
<1> QED
  BY <1>1, <1>2, <1>3, <1>4, <1>5, <1>6 DEF Next, Progress

\* The rows committed by l were visible to it alone: what other transactions
\* see stays unique, and so does the table.
LEMMA CommitKeepsKeys ==
    ASSUME LoadInv, RowKeys, HeldApart, NEW l \in Loads, Commit(l),
           Unique(table) => \A m \in Loads : Unique(Visible(m))
    PROVE  /\ Unique(table) => Unique(table')
           /\ HeldApart'
           /\ Unique(table') => \A m \in Loads : Unique(Visible(m)')
<1>0. /\ TypeOK /\ table' = Visible(l) /\ work' = [work EXCEPT ![l] = {}]
      /\ work'[l] = {} /\ \A m \in Loads : m # l => work'[m] = work[m]
  BY DEF LoadInv, Commit, Dispose, TypeOK
<1>1. Unique(table) => Unique(table')
  BY <1>0
<1>2. HeldApart'
  BY <1>0 DEF HeldApart
<1>3. ASSUME Unique(table') PROVE Unique(table)
  <2> SUFFICES ASSUME NEW r \in table, NEW s \in table, r.key = s.key, r.key # NoKey
               PROVE  r.id = s.id
    BY DEF Unique
  <2>1. ASSUME NEW x \in table
        PROVE  \E y \in table' : y.id = x.id /\ y.key = x.key
    <3>1. CASE x \in table'
      BY <3>1
    <3>2. CASE x \notin table'
      <4>1. PICK v \in work[l] : v.id = x.id
        BY <1>0, <2>1, <3>2 DEF Visible
      <4>2. v.key = x.key
        BY <2>1, <4>1, SameIdSameKey DEF RowKeys
      <4> QED
        BY <1>0, <4>1, <4>2 DEF Visible
    <3> QED
      BY <3>1, <3>2
  <2>2. PICK y \in table' : y.id = r.id /\ y.key = r.key
    BY <2>1
  <2>3. PICK z \in table' : z.id = s.id /\ z.key = s.key
    BY <2>1
  <2> QED
    BY <1>3, <2>2, <2>3 DEF Unique
<1>4. ASSUME Unique(table'), NEW m \in Loads
      PROVE  Unique(Visible(m)')
  <2>0. Unique(table) /\ Unique(Visible(m))
    BY <1>3, <1>4
  <2>1. CASE m = l
    BY <1>0, <1>4, <2>1 DEF Visible, Unique
  <2>2. CASE m # l
    <3>1. \A x \in Visible(m)' :
            x \in work[m] \/ (x \in table' /\ \A v \in work[m] : v.id # x.id)
      <4>1. work'[m] = work[m]
        BY <1>0, <2>2
      <4> QED
        BY <4>1 DEF Visible
    <3>2. ASSUME NEW v \in work[m], NEW s \in table', \A u \in work[m] : u.id # s.id,
                 v.key = s.key, v.key # NoKey
          PROVE  v.id = s.id
      <4>1. CASE s \in work[l]
        BY <2>2, <3>2, <4>1 DEF HeldApart
      <4>2. CASE s \in table
        <5>1. s \in Visible(m) /\ v \in Visible(m)
          BY <3>2, <4>2 DEF Visible
        <5> QED
          BY <2>0, <3>2, <5>1 DEF Unique
      <4> QED
        BY <1>0, <4>1, <4>2 DEF Visible
    <3> SUFFICES ASSUME NEW r \in Visible(m)', NEW s \in Visible(m)',
                        r.key = s.key, r.key # NoKey
                 PROVE  r.id = s.id
      BY DEF Unique
    <3>3. CASE r \in work[m] /\ s \in work[m]
      BY <2>0, <3>3 DEF Visible, Unique
    <3>4. CASE r \in table' /\ s \in table'
      BY <1>4, <3>4 DEF Unique
    <3>5. CASE r \in work[m] /\ s \notin work[m]
      BY <3>1, <3>2, <3>5
    <3>6. CASE s \in work[m] /\ r \notin work[m]
      <4>1. r \in table' /\ \A u \in work[m] : u.id # r.id
        BY <3>1, <3>6
      <4> QED
        BY <3>2, <3>6, <4>1
    <3>7. CASE r \notin work[m] /\ s \notin work[m]
      BY <3>1, <3>4, <3>7
    <3> QED
      BY <3>3, <3>5, <3>6, <3>7
  <2> QED
    BY <2>1, <2>2
<1> QED
  BY <1>1, <1>2, <1>4

\* Where loads of one key exclude each other, each step keeps them apart.
LEMMA KeysStep ==
    ASSUME Exclusive, LoadInv, RowKeys, KeysInv, [Next]_vars
    PROVE  /\ KeysInv'
           /\ setting.strategy = "Upsert" /\ Unique(table) => Unique(table')
<1>0. /\ TypeOK /\ setting' = setting /\ AtMostOne' /\ AtMostOne
      /\ setting.strategy = "Upsert" => HasUniqueIndex \/ setting.alone
  <2>1. setting' = setting
    BY DEF Next, vars, Progress, Begin, BulkStatement, UpsertPostgres, UpdateSqlServer,
           InsertSqlServer, Rejected, Commit, DeadlockVictim, Fail, Throw
  <2>2. setting.strategy = "Upsert" => setting.index = "unique" \/ setting.alone
    BY DEF Exclusive, LoadInv, TypeOK
  <2> QED
    BY <2>1, <2>2, AtMostOneStep DEF LoadInv, KeysInv, HasUniqueIndex
<1> SUFFICES ASSUME setting.strategy = "Upsert"
             PROVE  /\ KeysInv'
                    /\ Unique(table) => Unique(table')
  BY <1>0 DEF KeysInv
<1>k. StillMissing' /\ StillMissing /\ HeldApart
      /\ (Unique(table) => \A m \in Loads : Unique(Visible(m)))
  BY <1>0, StillMissingStep DEF KeysInv
<1>s. ASSUME HeldApart', Unique(table') => \A m \in Loads : Unique(Visible(m)')
      PROVE  KeysInv'
  BY <1>0, <1>k, <1>s DEF KeysInv, Unique
\* What l writes is held by nobody else.
<1>h. ASSUME NEW l \in Loads, InTransaction(l), NEW k, k # NoKey,
             HasUniqueIndex => Holders(l, k) = {}
      PROVE  Holders(l, k) = {}
  <2>1. CASE setting.alone
    <3>1. \A m \in Loads \ {l} : work[m] = {}
      BY <1>0, <1>h, <2>1 DEF AtMostOne, TypeOK
    <3> QED
      BY <3>1 DEF Holders
  <2> QED
    BY <1>0, <1>h, <2>1
<1>w. ASSUME NEW l \in Loads, InTransaction(l), NEW rows, NEW k, Write(l, rows),
             \A r \in rows : r.key = k,
             k # NoKey /\ HasUniqueIndex => Holders(l, k) = {},
             \/ \A r \in rows : \E s \in Visible(l) : s.id = r.id /\ s.key = r.key
             \/ /\ k # NoKey => \A s \in Visible(l) : s.key # k
                /\ \A r, s \in rows : r = s
      PROVE  KeysInv' /\ table' = table
  <2>1. k # NoKey => Holders(l, k) = {}
    BY <1>h, <1>w
  <2>2. HeldApart' /\ (Unique(table') => \A m \in Loads : Unique(Visible(m)'))
    BY <1>0, <1>k, <1>w, <2>1, WriteKeepsKeys
  <2>3. table' = table
    BY <1>w DEF Write
  <2> QED
    BY <1>s, <2>2, <2>3
\* A new row, of a key that is not visible.
<1>n. ASSUME NEW l \in Loads, InTransaction(l), Write(l, {NewRow(l, next[l])}),
             Key(l) # NoKey /\ HasUniqueIndex => Holders(l, Key(l)) = {},
             Key(l) # NoKey => \A s \in Visible(l) : s.key # Key(l)
      PROVE  KeysInv' /\ table' = table
  <2>1. \A r \in {NewRow(l, next[l])} : r.key = Key(l)
    BY DEF NewRow, Key
  <2>2. \A r, s \in {NewRow(l, next[l])} : r = s
    OBVIOUS
  <2> QED
    BY <1>n, <1>w, <2>1, <2>2
\* New versions of the rows found.
<1>u. ASSUME NEW l \in Loads, InTransaction(l), Write(l, Updated(l, Matching(l, Key(l)))),
             Key(l) # NoKey /\ HasUniqueIndex => Holders(l, Key(l)) = {}
      PROVE  KeysInv' /\ table' = table
  <2> DEFINE rows == Updated(l, Matching(l, Key(l)))
  <2>1. ASSUME NEW r \in rows
        PROVE  r.key = Key(l) /\ \E s \in Visible(l) : s.id = r.id /\ s.key = r.key
    <3>1. PICK s \in Matching(l, Key(l)) : r = [s EXCEPT !.by = <<l, next[l]>>]
      BY <2>1 DEF Updated
    <3>2. s \in AllRows /\ s \in Visible(l) /\ s.key = Key(l)
      BY <1>0, <3>1, RowTypes DEF Matching
    <3>3. r.key = s.key /\ r.id = s.id
      BY <3>1, <3>2 DEF AllRows
    <3> QED
      BY <3>2, <3>3
  <2> HIDE DEF rows
  <2>2. Write(l, rows)
    BY <1>u DEF rows
  <2> QED
    BY <1>u, <1>w, <2>1, <2>2
<1>1. CASE UNCHANGED <<table, work>>
  BY <1>1, <1>k, <1>s DEF HeldApart, Visible
<1>2. ASSUME NEW l \in Loads, BulkStatement(l) PROVE FALSE
  BY <1>2 DEF BulkStatement, Ready
<1>3. ASSUME NEW l \in Loads, UpsertPostgres(l) PROVE KeysInv' /\ table' = table
  <2>1. InTransaction(l) /\ WaitsFor(l) = {} /\ setting.server = "PostgreSql"
    BY <1>3 DEF UpsertPostgres, Ready, Remaining
  <2>2. Key(l) # NoKey /\ HasUniqueIndex => Holders(l, Key(l)) = {}
    BY <2>1 DEF WaitsFor, EntryWaits, Clashing
  <2>3. CASE Matching(l, Key(l)) = {}
    <3>1. Write(l, {NewRow(l, next[l])})
      BY <1>3, <2>3 DEF UpsertPostgres
    <3>2. Key(l) # NoKey => \A s \in Visible(l) : s.key # Key(l)
      BY <2>3 DEF Matching
    <3> QED
      BY <1>n, <2>1, <2>2, <3>1, <3>2
  <2>4. CASE Matching(l, Key(l)) # {}
    BY <1>3, <1>u, <2>1, <2>2, <2>4 DEF UpsertPostgres
  <2> QED
    BY <2>3, <2>4
<1>4. ASSUME NEW l \in Loads, UpdateSqlServer(l) PROVE KeysInv' /\ table' = table
  <2>1. /\ InTransaction(l) /\ WaitsFor(l) = {} /\ setting.server = "SqlServer"
        /\ pc[l] = "writing"
    BY <1>4 DEF UpdateSqlServer, Ready, Remaining
  <2>2. Key(l) # NoKey /\ HasUniqueIndex => Holders(l, Key(l)) = {}
    BY <2>1 DEF WaitsFor, UpdateWaits, HasUniqueIndex
  <2>3. CASE Write(l, Updated(l, Matching(l, Key(l))))
    BY <1>u, <2>1, <2>2, <2>3
  <2>4. CASE UNCHANGED <<table, work>>
    BY <1>1, <2>4
  <2> QED
    BY <1>4, <2>3, <2>4 DEF UpdateSqlServer
<1>5. ASSUME NEW l \in Loads, InsertSqlServer(l) PROVE KeysInv' /\ table' = table
  <2>1. /\ InTransaction(l) /\ WaitsFor(l) = {} /\ pc[l] = "inserting"
        /\ Write(l, {NewRow(l, next[l])})
    BY <1>5 DEF InsertSqlServer, InTransaction
  <2>2. Key(l) # NoKey /\ HasUniqueIndex => Holders(l, Key(l)) = {}
    BY <2>1 DEF WaitsFor, EntryWaits, Clashing
  <2>3. Key(l) # NoKey => \A s \in Visible(l) : s.key # Key(l)
    <3>1. CASE HasUniqueIndex
      BY <1>5, <3>1 DEF InsertSqlServer, EntryClashes, Clashing
    <3>2. CASE setting.alone
      BY <1>k, <2>1, <3>2 DEF StillMissing, Matching
    <3> QED
      BY <1>0, <3>1, <3>2
  <2> QED
    BY <1>n, <2>1, <2>2, <2>3
<1>6. ASSUME NEW l \in Loads, Commit(l)
      PROVE  KeysInv' /\ (Unique(table) => Unique(table'))
  BY <1>6, <1>k, <1>s, CommitKeepsKeys
<1>7. ASSUME NEW l \in Loads, Throw(l) PROVE KeysInv' /\ table' = table
  <2>1. /\ table' = table /\ work'[l] = {}
        /\ \A m \in Loads : m # l => work'[m] = work[m]
    BY <1>0, <1>7 DEF Throw, Dispose, TypeOK
  <2>2. HeldApart'
    BY <1>k, <2>1 DEF HeldApart
  <2>3. \A m \in Loads : Visible(m)' = Visible(m) \/ Visible(m)' = table'
    BY <2>1 DEF Visible
  <2> QED
    BY <1>k, <1>s, <2>1, <2>2, <2>3
<1>8. ASSUME NEW l \in Loads, Begin(l) PROVE UNCHANGED <<table, work>>
  BY <1>8 DEF Begin
<1>9. ASSUME NEW l \in Loads, Rejected(l) \/ DeadlockVictim(l) \/ Fail(l) PROVE Throw(l)
  BY <1>9 DEF Rejected, DeadlockVictim, Fail
<1> QED
  BY <1>1, <1>2, <1>3, <1>4, <1>5, <1>6, <1>7, <1>8, <1>9 DEF Next, Progress, vars

LEMMA InitKeys == Init => RowKeys /\ KeysInv
<1> SUFFICES ASSUME Init PROVE RowKeys /\ KeysInv
  OBVIOUS
<1>1. RowKeys
  BY DestinationAssumption DEF Init, RowKeys, KeyFromId
<1>2. \A l \in Loads : Visible(l) = table /\ ~ InTransaction(l) /\ pc[l] # "inserting"
                       /\ work[l] = {}
  BY DEF Init, Visible, InTransaction
<1> QED
  BY <1>1, <1>2 DEF KeysInv, AtMostOne, StillMissing, HeldApart

\* Where the key has a unique index, or no two loads of the table overlap,
\* Upsert never gives a key a second row.
THEOREM UpsertUnique ==
    ASSUME Exclusive
    PROVE  Spec => UpsertKeepsKeysUnique
<1>1. LoadInv /\ RowKeys /\ [Next]_vars => RowKeys'
  BY RowKeysStep
<1>2. LoadInv /\ RowKeys /\ KeysInv /\ [Next]_vars => KeysInv'
  BY KeysStep
<1>3. LoadInv /\ RowKeys /\ KeysInv /\ [Next]_vars
          => [setting.strategy = "Upsert" /\ OneRowPerKey => OneRowPerKey']_vars
  BY KeysStep DEF Unique, OneRowPerKey
<1> QED
  BY <1>1, <1>2, <1>3, InitLoadInv, InitKeys, NextLoadInv, PTL DEF Spec, UpsertKeepsKeysUnique

=============================================================================

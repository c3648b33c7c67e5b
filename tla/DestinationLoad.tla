--------------------------- MODULE DestinationLoad ---------------------------
(***************************************************************************)
(* LoadAsync of the two loaders: batches of records written to one table   *)
(* of the destination, each in one transaction of its own, by executions   *)
(* that may overlap.                                                       *)
(*                                                                         *)
(* A record is its key; which record wrote a row last stands for the other *)
(* columns.  The servers are modelled as far as the statements reach: row  *)
(* locks until the end of the transaction, unique indexes, deadlock        *)
(* victims, READ COMMITTED, the isolation level the loaders leave as it is.*)
(***************************************************************************)
EXTENDS Naturals, Sequences, FiniteSets

CONSTANTS
    Loads,     \* calls of LoadAsync
    Keys,      \* values of the key columns
    NoKey,     \* a null in the key, which is taken as one value
    Before,    \* stands for whoever wrote the rows found in the table
    Batches,   \* the batches a call may be given
    Settings,  \* the configurations and destination tables considered
    OldRows    \* rows that may be in the table beforehand

Servers == {"SqlServer", "PostgreSql"}

\* EtlExecutionRequest.BatchSize, which no caller sets.
BatchSize == 1000

\* The widest table each server allows.
MaxColumns == [SqlServer |-> 1024, PostgreSql |-> 1600]

\* keyColumns counts KeyColumns, which are taken to be columns of the records (one
\* that is not makes every statement fail); alone says whether the executions
\* that load this table are kept from overlapping.
AllSettings ==
    [server : Servers, strategy : {"BulkInsert", "Upsert"}, index : {"unique", "plain", "none"},
     columns : Nat \ {0}, keyColumns : Nat, alone : BOOLEAN]

AllRows ==
    [id : (Loads \cup {Before}) \X Nat, key : Keys \cup {NoKey}, by : (Loads \cup {Before}) \X Nat]

ASSUME DestinationAssumption ==
    /\ Before \notin Loads
    /\ NoKey \notin Keys
    /\ Batches \subseteq Seq(Keys \cup {NoKey})
    /\ \A b \in Batches : Len(b) <= BatchSize
    /\ Settings \subseteq AllSettings
    /\ \A s \in Settings : s.columns <= MaxColumns[s.server]
    /\ OldRows \subseteq AllRows
    /\ \A r \in OldRows : r.id[1] = Before
    /\ \A r, s \in OldRows : r.id = s.id => r = s

VARIABLES
    setting,  \* the configuration and the destination table
    batch,    \* batch[l]: the records of call l
    pc,       \* pc[l]: how far the call is
    next,     \* next[l]: position of the record it writes next
    loaded,   \* loaded[l]: the count it returns
    table,    \* the committed rows
    work      \* work[l]: rows written by its open transaction, all locked

vars == <<setting, batch, pc, next, loaded, table, work>>

HasUniqueIndex == setting.index = "unique"

\* SQL Server admits one null per unique index, PostgreSQL any number.
Clashing(k) == k # NoKey \/ setting.server = "SqlServer"

IndexHolds(t) ==
    HasUniqueIndex => \A r, s \in t : r.key = s.key /\ Clashing(r.key) => r = s

Init ==
    /\ setting \in Settings
    /\ batch \in [Loads -> Batches]
    /\ pc = [l \in Loads |-> "called"]
    /\ next = [l \in Loads |-> 1]
    /\ loaded = [l \in Loads |-> 0]
    /\ table \in {t \in SUBSET OldRows : IndexHolds(t)}
    /\ work = [l \in Loads |-> {}]

-----------------------------------------------------------------------------
(* What a transaction sees, writes and waits for *)

InTransaction(l) == pc[l] \in {"writing", "inserting"}
Remaining(l) == InTransaction(l) /\ next[l] <= Len(batch[l])
Key(l) == batch[l][next[l]]

Visible(l) == work[l] \cup {r \in table : \A v \in work[l] : v.id # r.id}

\* Mutant: the UPDATE is not enlisted in the transaction.
MatchingOutsideTransaction(l, k) == {r \in table : r.key = k /\ k # NoKey}

\* The rows a WHERE key = k finds: a null equals nothing.
Matching(l, k) == {r \in Visible(l) : r.key = k /\ k # NoKey}

\* Transactions that hold a row with key k.
Holders(l, k) == {m \in Loads \ {l} : \E v \in work[m] : v.key = k}

\* A new entry waits for one with the same key in a unique index.
EntryWaits(l, k) == IF HasUniqueIndex /\ Clashing(k) THEN Holders(l, k) ELSE {}
EntryClashes(l, k) == HasUniqueIndex /\ Clashing(k) /\ \E r \in Visible(l) : r.key = k

\* Mutant: the limit on parameters is taken for one on rows.
MaxRowsOfAnyWidth == IF setting.server = "SqlServer" THEN 2000 ELSE 65000

maxParameters == IF setting.server = "SqlServer" THEN 2000 ELSE 65000
maxRowsPerBatch ==
    LET rows == maxParameters \div setting.columns IN IF rows = 0 THEN 1 ELSE rows

\* The positions one INSERT covers.
Chunk(l) == {i \in next[l] .. Len(batch[l]) : i < next[l] + maxRowsPerBatch}

\* An UPDATE without an index on the key reads, and waits for, every row.
UpdateWaits(l, k) ==
    IF setting.index = "none" THEN {m \in Loads \ {l} : work[m] # {}}
    ELSE IF k = NoKey THEN {} ELSE Holders(l, k)

WaitsFor(l) ==
    IF setting.strategy = "BulkInsert" THEN UNION {EntryWaits(l, batch[l][i]) : i \in Chunk(l)}
    ELSE IF setting.server = "PostgreSql" \/ pc[l] = "inserting" THEN EntryWaits(l, Key(l))
    ELSE UpdateWaits(l, Key(l))

Waiting(l) == Remaining(l) /\ WaitsFor(l) # {}

\* A ring of transactions that wait for one another.
Deadlocked(S) ==
    S # {} /\ \A l \in S : Waiting(l) /\ WaitsFor(l) \cap S # {}

\* Mutant: rows are written past the transaction.
WriteThrough(l, rows) ==
    /\ table' = {r \in table : \A v \in rows : v.id # r.id} \cup rows
    /\ UNCHANGED work

\* New rows and new versions of rows, of l's own transaction.
Write(l, rows) ==
    /\ work' = [work EXCEPT ![l] = {v \in @ : \A r \in rows : r.id # v.id} \cup rows]
    /\ UNCHANGED table

NewRow(l, i) == [id |-> <<l, i>>, key |-> batch[l][i], by |-> <<l, i>>]
Updated(l, rows) == {[r EXCEPT !.by = <<l, next[l]>>] : r \in rows}

Advance(l, n) ==
    /\ next' = [next EXCEPT ![l] = @ + n]
    /\ loaded' = [loaded EXCEPT ![l] = @ + n]

\* Mutant: the connection stays open and its locks with it.
LeaveTransaction(l) == UNCHANGED work

\* await using: whatever was not committed is rolled back.
Dispose(l) == work' = [work EXCEPT ![l] = {}]

Throw(l) ==
    /\ pc' = [pc EXCEPT ![l] = "threw"]
    /\ Dispose(l)
    /\ UNCHANGED <<setting, batch, next, loaded, table>>

-----------------------------------------------------------------------------
(* Steps of a call *)

\* Mutant: records are counted from 0.
BeginAtZero(l) ==
    /\ pc[l] = "called"
    /\ setting.alone => \A m \in Loads : ~ InTransaction(m)
    /\ pc' = [pc EXCEPT ![l] = IF batch[l] = <<>> THEN "returned" ELSE "writing"]
    /\ next' = [next EXCEPT ![l] = 0]
    /\ UNCHANGED <<setting, batch, loaded, table, work>>

\* The connection is opened and a transaction begun, but for an empty batch.
Begin(l) ==
    /\ pc[l] = "called"
    /\ setting.alone => \A m \in Loads : ~ InTransaction(m)
    /\ pc' = [pc EXCEPT ![l] = IF batch[l] = <<>> THEN "returned" ELSE "writing"]
    /\ UNCHANGED <<setting, batch, next, loaded, table, work>>

Ready(l, strategy) ==
    /\ pc[l] = "writing"
    /\ setting.strategy = strategy
    /\ Remaining(l)
    /\ WaitsFor(l) = {}

BulkClashes(l) ==
    \/ \E i \in Chunk(l) : EntryClashes(l, batch[l][i])
    \/ HasUniqueIndex /\ \E i, j \in Chunk(l) :
          i # j /\ batch[l][i] = batch[l][j] /\ Clashing(batch[l][i])

BulkStatement(l) ==
    /\ Ready(l, "BulkInsert")
    /\ ~ BulkClashes(l)
    /\ Write(l, {NewRow(l, i) : i \in Chunk(l)})
    /\ Advance(l, Cardinality(Chunk(l)))
    /\ UNCHANGED <<setting, batch, pc>>

\* No key columns is an exception, no others leaves SET without a column;
\* ON CONFLICT needs a unique index on the key columns.
UpsertIsInvalid ==
    \/ setting.keyColumns = 0
    \/ setting.keyColumns >= setting.columns
    \/ setting.server = "PostgreSql" /\ ~ HasUniqueIndex

\* INSERT ... ON CONFLICT DO UPDATE
UpsertPostgres(l) ==
    /\ setting.server = "PostgreSql"
    /\ Ready(l, "Upsert")
    /\ ~ UpsertIsInvalid
    /\ LET found == Matching(l, Key(l))
       IN  Write(l, IF found = {} THEN {NewRow(l, next[l])} ELSE Updated(l, found))
    /\ Advance(l, 1)
    /\ UNCHANGED <<setting, batch, pc>>

\* Mutant: every row updated is counted.
UpdateCountsRows(l) ==
    /\ setting.server = "SqlServer"
    /\ Ready(l, "Upsert")
    /\ ~ UpsertIsInvalid
    /\ LET found == Matching(l, Key(l))
       IN  \/ /\ found # {}
              /\ Write(l, Updated(l, found))
              /\ next' = [next EXCEPT ![l] = @ + 1]
              /\ loaded' = [loaded EXCEPT ![l] = @ + Cardinality(found)]
              /\ UNCHANGED pc
           \/ /\ found = {}
              /\ pc' = [pc EXCEPT ![l] = "inserting"]
              /\ UNCHANGED <<next, loaded, table, work>>
    /\ UNCHANGED <<setting, batch>>

\* The UPDATE of the command; one that finds no row leaves no lock behind.
UpdateSqlServer(l) ==
    /\ setting.server = "SqlServer"
    /\ Ready(l, "Upsert")
    /\ ~ UpsertIsInvalid
    /\ LET found == Matching(l, Key(l))
       IN  \/ /\ found # {}
              /\ Write(l, Updated(l, found))
              /\ Advance(l, 1)
              /\ UNCHANGED pc
           \/ /\ found = {}
              /\ pc' = [pc EXCEPT ![l] = "inserting"]
              /\ UNCHANGED <<next, loaded, table, work>>
    /\ UNCHANGED <<setting, batch>>

\* IF @@ROWCOUNT = 0: the INSERT of the same command.
InsertSqlServer(l) ==
    /\ pc[l] = "inserting"
    /\ WaitsFor(l) = {}
    /\ ~ EntryClashes(l, Key(l))
    /\ Write(l, {NewRow(l, next[l])})
    /\ Advance(l, 1)
    /\ pc' = [pc EXCEPT ![l] = "writing"]
    /\ UNCHANGED <<setting, batch>>

\* A statement the server, or the loader, cannot accept.
Rejected(l) ==
    /\ \/ Ready(l, "BulkInsert") /\ BulkClashes(l)
       \/ pc[l] = "writing" /\ setting.strategy = "Upsert" /\ UpsertIsInvalid
       \/ pc[l] = "inserting" /\ WaitsFor(l) = {} /\ EntryClashes(l, Key(l))
    /\ Throw(l)

\* The commit; its answer may be lost.
Commit(l) ==
    /\ pc[l] = "writing"
    /\ ~ Remaining(l)
    /\ table' = Visible(l)
    /\ Dispose(l)
    /\ \E result \in {"returned", "threw"} : pc' = [pc EXCEPT ![l] = result]
    /\ UNCHANGED <<setting, batch, next, loaded>>

DeadlockVictim(l) ==
    /\ \E S \in SUBSET Loads :
          /\ l \in S
          /\ Deadlocked(S)
          /\ \A T \in SUBSET S : Deadlocked(T) => T = S
    /\ Throw(l)

\* No connection, a timeout, a cancelled token, the end of the process.
Fail(l) ==
    /\ pc[l] = "called" \/ InTransaction(l)
    /\ Throw(l)

Progress(l) ==
    BulkStatement(l) \/ UpsertPostgres(l) \/ UpdateSqlServer(l) \/ InsertSqlServer(l)
        \/ Rejected(l) \/ Commit(l)

Next == \E l \in Loads : Begin(l) \/ Progress(l) \/ DeadlockVictim(l) \/ Fail(l)

Spec == Init /\ [][Next]_vars

\* A call that began goes on, and the server breaks every deadlock.
Fairness == /\ \A l \in Loads : WF_vars(Progress(l))
            /\ WF_vars(\E l \in Loads : DeadlockVictim(l))

FairSpec == Spec /\ Fairness

-----------------------------------------------------------------------------
(* Properties *)

\* Types of the variables; a call that is not in a transaction holds no lock.
TypeOK ==
    /\ setting \in Settings
    /\ batch \in [Loads -> Batches]
    /\ pc \in [Loads -> {"called", "writing", "inserting", "returned", "threw"}]
    /\ next \in [Loads -> Nat] /\ loaded \in [Loads -> Nat]
    /\ \A l \in Loads : next[l] \in 1 .. Len(batch[l]) + 1
    /\ table \subseteq AllRows
    /\ work \in [Loads -> SUBSET AllRows]
    /\ \A l \in Loads : InTransaction(l) \/ work[l] = {}

\* No statement of BulkInsertAsync is beyond what its server accepts: 2100
\* parameters and 1000 rows of values in SQL Server, 65535 parameters in
\* PostgreSQL.  BulkInsertAsync divides by the width of the table; nothing in
\* it limits the rows but the engine's batches of at most 1000 records.
StatementFits ==
    \A l \in Loads :
        LET rows == Cardinality(Chunk(l))
        IN  IF setting.server = "SqlServer"
            THEN rows <= 1000 /\ rows * setting.columns <= 2100
            ELSE rows * setting.columns <= 65535

\* The count a call returns is the number of its records: what EtlEngine adds
\* to RecordsLoaded.
CountIsBatch ==
    \A l \in Loads : pc[l] = "returned" => loaded[l] = Len(batch[l])

OneRowPerKey == \A r, s \in table : r.key = s.key /\ r.key # NoKey => r.id = s.id

\* Upsert adds no second row for a key: no interleaving of loads, failures and
\* retries turns a table with one row per key into one with duplicates.
UpsertKeepsKeysUnique ==
    [][setting.strategy = "Upsert" /\ OneRowPerKey => OneRowPerKey']_vars

Serial == INSTANCE SerialLoads WITH
    upsert  <- setting.strategy = "Upsert",
    outcome <- [l \in Loads |-> IF pc[l] \in {"returned", "threw"} THEN pc[l] ELSE "pending"]

\* The loads take effect one at a time, each whole or not at all, in the order
\* in which they commit.
ImplementsSerialLoads == Serial!Spec

\* A call that began comes to an end: the others it waits for end, and a ring
\* of waiting calls is broken by the server.
EveryLoadEnds ==
    \A l \in Loads : pc[l] = "writing" ~> pc[l] \in {"returned", "threw"}

=============================================================================

-------------------------- MODULE MCDestinationLoad --------------------------
(***************************************************************************)
(* Instances of DestinationLoad for TLC: what the tables and the batches   *)
(* are.  A column count of 1024 makes SQL Server's loader write one row    *)
(* per statement, 667 two, 2 all of a batch.                               *)
(***************************************************************************)
EXTENDS DestinationLoad

CONSTANTS k1, k2

\* Batches in which keys repeat, are missing, and come in opposite orders.
MCBatches == UNION {[1 .. n -> {k1, k2, NoKey}] : n \in 0 .. 2}
                \cup {<<k1, k2, k1>>, <<NoKey, k1, k1>>}

\* A table may hold a key twice before the job ever runs.
MCOldRows == {[id |-> <<Before, n>>, key |-> k1, by |-> <<Before, n>>] : n \in 1 .. 2}

Setting(server, strategy, index, columns, keyColumns, alone) ==
    [server |-> server, strategy |-> strategy, index |-> index, columns |-> columns,
     keyColumns |-> keyColumns, alone |-> alone]

Upserts == {Setting(s, "Upsert", i, 2, n, a) :
               s \in Servers, i \in {"unique", "plain", "none"}, n \in 0 .. 2, a \in BOOLEAN}
Bulks == {Setting(s, "BulkInsert", i, c, 1, FALSE) :
             s \in Servers, i \in {"unique", "none"}, c \in {2, 667, 1024}}

\* The key has a unique index and executions overlap, or it has none and they do
\* not, or rows are only ever added.
SerialSettings ==
    {s \in Upserts : (s.index = "unique") # s.alone} \cup Bulks
UnindexedUpserts == {s \in Upserts : s.server = "SqlServer" /\ s.index = "plain" /\ ~ s.alone}
=============================================================================

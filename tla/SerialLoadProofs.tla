-------------------------- MODULE SerialLoadProofs --------------------------
(***************************************************************************)
(* DestinationLoad implements SerialLoads, for any loads, batches and      *)
(* tables, wherever rows are only added or loads of one key exclude each   *)
(* other: what an open transaction holds is always what its records do to  *)
(* the table of now, whatever the others have committed since it began.    *)
(***************************************************************************)
EXTENDS DestinationLoadProofs

-----------------------------------------------------------------------------
(* What an open transaction holds *)

\* The positions whose records l has written.
Written(l) == 1 .. next[l] - 1

\* Transactions write versions of rows under their ids, and new rows under ids of
\* their own, which no row has before they commit.
OneVersion(t) == \A r, s \in t : r.id = s.id => r = s
FreshIds == \A r \in table, l \in Loads : r.id[1] = l => pc[l] \in {"returned", "threw"}

\* BulkInsert holds one new row per record.
HoldsItsRows(l) == work[l] = {Serial!Row(l, i, i) : i \in Written(l)}

\* What is held was written for the last record of its key, or for its own.
HeldByLast(l) ==
    \A v \in work[l] : \E j \in Written(l) :
        /\ v.by = <<l, j>> /\ v.key = batch[l][j]
        /\ IF v.key = NoKey THEN v.id = <<l, j>> ELSE Serial!IsLast(l, next[l] - 1, j)

\* It is a version of a row of the table, or the row of the first record of a key
\* that the table does not have.
HeldFrom(l) ==
    \A v \in work[l] : v.key # NoKey =>
        \/ \E s \in table : s.id = v.id
        \/ /\ \E i \in Written(l) :
                 v.id = <<l, i>> /\ v.key = batch[l][i] /\ Serial!IsFirst(l, i)
           /\ \A s \in table : s.key # v.key

\* Every record written has its row, and every row of its key, held.
HoldsKeys(l) ==
    \A i \in Written(l) :
        IF batch[l][i] = NoKey THEN Serial!Row(l, i, i) \in work[l]
        ELSE /\ \E v \in work[l] : v.key = batch[l][i]
             /\ \A s \in table : s.key = batch[l][i] => \E v \in work[l] : v.id = s.id

Effect(l) ==
    /\ OneVersion(work[l])
    /\ IF setting.strategy = "Upsert" THEN HeldByLast(l) /\ HeldFrom(l) /\ HoldsKeys(l)
       ELSE HoldsItsRows(l)

\* Only the command of UpsertAsync goes on to an INSERT.
OnlyUpsertsInsert == \A l \in Loads : pc[l] = "inserting" => setting.strategy = "Upsert"

\* What an open transaction holds is what its records do to the table of now.
EffectInv ==
    /\ OneVersion(table)
    /\ FreshIds
    /\ OnlyUpsertsInsert
    /\ \A l \in Loads : IF InTransaction(l) THEN Effect(l) ELSE pc[l] = "called" => next[l] = 1

-----------------------------------------------------------------------------
(* What a transaction sees is what SerialLoads makes of the table *)

\* The rows of Upserted, one case per union.
LEMMA UpsertedRows ==
    ASSUME NEW l, NEW n, NEW t, NEW x
    PROVE  x \in Serial!Upserted(l, n, t) <=>
               \/ x \in t /\ \A i \in 1 .. n : x.key = batch[l][i] => x.key = NoKey
               \/ \E i \in 1 .. n, r \in t :
                     /\ Serial!IsLast(l, n, i) /\ r.key = batch[l][i] /\ r.key # NoKey
                     /\ x = [r EXCEPT !.by = <<l, i>>]
               \/ \E i, j \in 1 .. n :
                     /\ Serial!IsFirst(l, i) /\ Serial!IsLast(l, n, j)
                     /\ \A r \in t : r.key = batch[l][i] => r.key = NoKey
                     /\ batch[l][j] = batch[l][i] /\ batch[l][j] # NoKey
                     /\ x = Serial!Row(l, i, j)
               \/ \E i \in 1 .. n : batch[l][i] = NoKey /\ x = Serial!Row(l, i, i)
<1> DEFINE Same(k, i) == k = batch[l][i] /\ k # NoKey
           last == {i \in 1 .. n : Serial!IsLast(l, n, i)}
           fresh == {i \in 1 .. n : Serial!IsFirst(l, i) /\ \A r \in t : ~ Same(r.key, i)}
           versions == UNION {{[r EXCEPT !.by = <<l, i>>] : r \in {s \in t : Same(s.key, i)}}
                                 : i \in last}
           firsts == UNION {{Serial!Row(l, i, j) : j \in {m \in last : Same(batch[l][m], i)}}
                               : i \in fresh}
           nulls == {Serial!Row(l, i, i) : i \in {m \in 1 .. n : batch[l][m] = NoKey}}
<1>1. x \in versions <=>
         \E i \in 1 .. n, r \in t :
            /\ Serial!IsLast(l, n, i) /\ r.key = batch[l][i] /\ r.key # NoKey
            /\ x = [r EXCEPT !.by = <<l, i>>]
  OBVIOUS
<1>2. x \in firsts <=>
         \E i, j \in 1 .. n :
            /\ Serial!IsFirst(l, i) /\ Serial!IsLast(l, n, j)
            /\ \A r \in t : r.key = batch[l][i] => r.key = NoKey
            /\ batch[l][j] = batch[l][i] /\ batch[l][j] # NoKey
            /\ x = Serial!Row(l, i, j)
  OBVIOUS
<1>3. x \in nulls <=> \E i \in 1 .. n : batch[l][i] = NoKey /\ x = Serial!Row(l, i, i)
  OBVIOUS
<1>4. Serial!Upserted(l, n, t)
         = {r \in t : \A i \in 1 .. n : ~ Same(r.key, i)} \cup versions \cup firsts \cup nulls
  BY DEF Serial!Upserted
<1> HIDE DEF versions, firsts, nulls
<1> QED
  BY <1>1, <1>2, <1>3, <1>4

\* Two last, or two first, records of one key are one.
LEMMA LastIsOne ==
    ASSUME NEW l, NEW n \in Nat, NEW i \in 1 .. n, NEW j \in 1 .. n,
           batch[l][i] = batch[l][j]
    PROVE  /\ Serial!IsLast(l, n, i) /\ Serial!IsLast(l, n, j) => i = j
           /\ Serial!IsFirst(l, i) /\ Serial!IsFirst(l, j) => i = j
BY DEF Serial!IsLast, Serial!IsFirst

\* A row of the table that l holds a version of has the version's key, which is
\* not a null: records without a key are new rows.
LEMMA HeldRowHasKey ==
    ASSUME RowKeys, FreshIds, NEW l \in Loads, InTransaction(l), HeldByLast(l),
           NEW v \in work[l], NEW s \in table, v.id = s.id
    PROVE  v.key = s.key /\ v.key # NoKey
<1>1. v.key = s.key
  BY SameIdSameKey DEF RowKeys
<1>2. v.key = NoKey => v.id[1] = l
  BY DEF HeldByLast
<1>3. s.id[1] # l
  BY DEF FreshIds, InTransaction
<1> QED
  BY <1>1, <1>2, <1>3

\* What l holds, put in place of the rows it holds versions of, is Upserted.
LEMMA UpsertedIsVisible ==
    ASSUME LoadInv, RowKeys, EffectInv, NEW l \in Loads, InTransaction(l),
           setting.strategy = "Upsert"
    PROVE  Visible(l) = Serial!Upserted(l, next[l] - 1, table)
<1> DEFINE n == next[l] - 1
<1>0. /\ n \in Nat /\ Written(l) = 1 .. n /\ RowKeys /\ FreshIds /\ OneVersion(table)
      /\ OneVersion(work[l]) /\ HeldByLast(l) /\ HeldFrom(l) /\ HoldsKeys(l)
      /\ work[l] \subseteq AllRows /\ table \subseteq AllRows
  BY DEF LoadInv, TypeOK, EffectInv, Effect, Written
<1> HIDE DEF n
<1>a. ASSUME NEW v \in work[l], v.key # NoKey
      PROVE  \E j \in 1 .. n :
                /\ v.by = <<l, j>> /\ v.key = batch[l][j] /\ Serial!IsLast(l, n, j)
  BY <1>0, <1>a DEF HeldByLast, n
<1>b. ASSUME NEW v \in work[l], v.key = NoKey
      PROVE  \E j \in 1 .. n : v = Serial!Row(l, j, j) /\ batch[l][j] = NoKey
  <2>1. PICK j \in 1 .. n : v.by = <<l, j>> /\ v.key = batch[l][j] /\ v.id = <<l, j>>
    BY <1>0, <1>b DEF HeldByLast
  <2>2. v = [id |-> v.id, key |-> v.key, by |-> v.by]
    BY <1>0 DEF AllRows
  <2> QED
    BY <1>b, <2>1, <2>2 DEF Serial!Row
<1>1. ASSUME NEW x \in Visible(l)
      PROVE  x \in Serial!Upserted(l, n, table)
  <2>1. CASE x \in work[l] /\ x.key = NoKey
    <3>1. PICK j \in 1 .. n : x = Serial!Row(l, j, j) /\ batch[l][j] = NoKey
      BY <1>b, <2>1
    <3> QED
      BY <3>1, UpsertedRows
  <2>2. CASE x \in work[l] /\ x.key # NoKey
    <3>1. PICK j \in 1 .. n :
             /\ x.by = <<l, j>> /\ x.key = batch[l][j] /\ Serial!IsLast(l, n, j)
      BY <1>a, <2>2
    <3>2. CASE \E s \in table : s.id = x.id
      <4>1. PICK s \in table : s.id = x.id
        BY <3>2
      <4>2. s.key = x.key
        BY <1>0, <2>2, <4>1, HeldRowHasKey
      <4>3. x = [s EXCEPT !.by = <<l, j>>]
        BY <1>0, <2>2, <3>1, <4>1, <4>2 DEF AllRows
      <4> QED
        BY <2>2, <3>1, <4>2, <4>3, UpsertedRows
    <3>3. CASE ~ \E s \in table : s.id = x.id
      <4>1. /\ \E i \in 1 .. n : x.id = <<l, i>> /\ x.key = batch[l][i] /\ Serial!IsFirst(l, i)
            /\ \A s \in table : s.key # x.key
        BY <1>0, <2>2, <3>3 DEF HeldFrom
      <4>2. PICK i \in 1 .. n : x.id = <<l, i>> /\ x.key = batch[l][i] /\ Serial!IsFirst(l, i)
        BY <4>1
      <4>3. x = Serial!Row(l, i, j)
        BY <1>0, <2>2, <3>1, <4>2 DEF AllRows, Serial!Row
      <4> QED
        BY <2>2, <3>1, <4>1, <4>2, <4>3, UpsertedRows
    <3> QED
      BY <3>2, <3>3
  <2>3. CASE x \notin work[l]
    <3>1. x \in table /\ \A v \in work[l] : v.id # x.id
      BY <1>1, <2>3 DEF Visible
    <3>2. \A i \in 1 .. n : x.key = batch[l][i] => x.key = NoKey
      BY <1>0, <3>1 DEF HoldsKeys
    <3> QED
      BY <3>1, <3>2, UpsertedRows
  <2> QED
    BY <2>1, <2>2, <2>3
<1>2. ASSUME NEW x \in Serial!Upserted(l, n, table)
      PROVE  x \in Visible(l)
  <2>1. CASE x \in table /\ \A i \in 1 .. n : x.key = batch[l][i] => x.key = NoKey
    <3>1. ASSUME NEW v \in work[l], v.id = x.id PROVE FALSE
      <4>1. v.key = x.key /\ v.key # NoKey
        BY <1>0, <2>1, <3>1, HeldRowHasKey
      <4> QED
        BY <1>a, <2>1, <4>1
    <3> QED
      BY <2>1, <3>1 DEF Visible
  <2>2. ASSUME NEW i \in 1 .. n, NEW r \in table, Serial!IsLast(l, n, i),
               r.key = batch[l][i], r.key # NoKey, x = [r EXCEPT !.by = <<l, i>>]
        PROVE  x \in Visible(l)
    <3>1. PICK v \in work[l] : v.id = r.id
      BY <1>0, <2>2 DEF HoldsKeys
    <3>2. v.key = r.key /\ v.key # NoKey
      BY <1>0, <3>1, HeldRowHasKey
    <3>3. PICK j \in 1 .. n :
             /\ v.by = <<l, j>> /\ v.key = batch[l][j] /\ Serial!IsLast(l, n, j)
      BY <1>a, <3>2
    <3>4. i = j
      BY <1>0, <2>2, <3>2, <3>3, LastIsOne
    <3>5. v = x
      BY <1>0, <2>2, <3>1, <3>2, <3>3, <3>4 DEF AllRows
    <3> QED
      BY <3>5 DEF Visible
  <2>3. ASSUME NEW i \in 1 .. n, NEW j \in 1 .. n,
               Serial!IsFirst(l, i), Serial!IsLast(l, n, j),
               \A r \in table : r.key = batch[l][i] => r.key = NoKey,
               batch[l][j] = batch[l][i], batch[l][j] # NoKey,
               x = Serial!Row(l, i, j)
        PROVE  x \in Visible(l)
    <3>1. PICK v \in work[l] : v.key = batch[l][i]
      BY <1>0, <2>3 DEF HoldsKeys
    <3>2. PICK k \in 1 .. n : v.by = <<l, k>> /\ v.key = batch[l][k] /\ Serial!IsLast(l, n, k)
      BY <1>a, <2>3, <3>1
    <3>3. ~ \E s \in table : s.id = v.id
      BY <1>0, <2>3, <3>1, HeldRowHasKey
    <3>4. PICK h \in 1 .. n : v.id = <<l, h>> /\ v.key = batch[l][h] /\ Serial!IsFirst(l, h)
      BY <1>0, <2>3, <3>1, <3>3 DEF HeldFrom
    <3>5. k = j /\ h = i
      BY <1>0, <2>3, <3>1, <3>2, <3>4, LastIsOne
    <3>6. v = x
      BY <1>0, <2>3, <3>1, <3>2, <3>4, <3>5 DEF AllRows, Serial!Row
    <3> QED
      BY <3>6 DEF Visible
  <2>4. ASSUME NEW i \in 1 .. n, batch[l][i] = NoKey, x = Serial!Row(l, i, i)
        PROVE  x \in Visible(l)
    BY <1>0, <2>4 DEF HoldsKeys, Visible
  <2> QED
    BY <1>2, <2>1, <2>2, <2>3, <2>4, UpsertedRows
<1>3. Visible(l) = Serial!Upserted(l, n, table)
  BY <1>1, <1>2
<1> QED
  BY <1>3 DEF n

\* BulkInsert adds its rows, whose ids no row of the table has.
LEMMA InsertedIsVisible ==
    ASSUME LoadInv, EffectInv, NEW l \in Loads, InTransaction(l),
           setting.strategy # "Upsert"
    PROVE  Visible(l) = Serial!Inserted(l, next[l] - 1, table)
<1>1. FreshIds /\ HoldsItsRows(l)
  BY DEF EffectInv, Effect
<1>2. ASSUME NEW r \in table, NEW v \in work[l]
      PROVE  v.id # r.id
  <2>1. v.id[1] = l
    BY <1>1 DEF HoldsItsRows, Serial!Row
  <2>2. r.id[1] # l
    BY <1>1 DEF FreshIds, InTransaction
  <2> QED
    BY <2>1, <2>2
<1> QED
  BY <1>1, <1>2 DEF Visible, Serial!Inserted, HoldsItsRows, Written

-----------------------------------------------------------------------------
(* The statements of the transaction itself *)

\* Nothing changes for a transaction that neither writes nor sees a commit.
LEMMA EffectKept ==
    ASSUME NEW l, Effect(l), work'[l] = work[l], next'[l] = next[l],
           UNCHANGED <<setting, batch, table>>
    PROVE  Effect(l)'
BY DEF Effect, HoldsItsRows, HeldByLast, HeldFrom, HoldsKeys, Written, OneVersion,
       Serial!Row, Serial!IsLast, Serial!IsFirst

\* What l holds after it wrote rows.
LEMMA WriteHolds ==
    ASSUME TypeOK, NEW l \in Loads, NEW rows, Write(l, rows)
    PROVE  /\ work'[l] = {v \in work[l] : \A r \in rows : r.id # v.id} \cup rows
           /\ table' = table
           /\ \A v \in work[l] : \E w \in work'[l] : w.id = v.id
<1>1. work'[l] = {v \in work[l] : \A r \in rows : r.id # v.id} \cup rows /\ table' = table
  BY DEF Write, TypeOK
<1> QED
  BY <1>1

\* An UPDATE: the rows of the key get a new version, those already held as well.
LEMMA UpdateEffect ==
    ASSUME LoadInv, RowKeys, EffectInv, NEW l \in Loads, InTransaction(l),
           setting.strategy = "Upsert", UNCHANGED <<setting, batch>>,
           Matching(l, Key(l)) # {}, Write(l, Updated(l, Matching(l, Key(l)))),
           next'[l] = next[l] + 1
    PROVE  Effect(l)'
<1> DEFINE k == Key(l)
           n == next[l]
           rows == Updated(l, Matching(l, k))
<1>0. /\ TypeOK /\ n \in Nat \ {0} /\ Written(l) = 1 .. n - 1 /\ Written(l)' = 1 .. n
      /\ FreshIds /\ OneVersion(table) /\ OneVersion(work[l])
      /\ HeldByLast(l) /\ HeldFrom(l) /\ HoldsKeys(l)
      /\ work[l] \subseteq AllRows /\ Visible(l) \subseteq AllRows
      /\ k = batch[l][n] /\ batch' = batch
  BY RowTypes DEF LoadInv, TypeOK, EffectInv, Effect, Written, Key
<1>1. /\ k # NoKey
      /\ \A r \in rows : \E s \in Visible(l) : s.key = k /\ r = [s EXCEPT !.by = <<l, n>>]
      /\ \A s \in Visible(l) : s.key = k => [s EXCEPT !.by = <<l, n>>] \in rows
  BY DEF Matching, Updated
<1>2. rows # {}
  BY DEF Updated
<1> HIDE DEF k, n, rows
<1>3. /\ work'[l] = {v \in work[l] : \A r \in rows : r.id # v.id} \cup rows
      /\ table' = table
      /\ \A v \in work[l] : \E w \in work'[l] : w.id = v.id
  BY <1>0, WriteHolds DEF rows, k
<1>4. ASSUME NEW r \in rows
      PROVE  \E s \in Visible(l) :
                /\ r.id = s.id /\ r.key = k /\ s.key = k /\ r.by = <<l, n>>
                /\ r = [s EXCEPT !.by = <<l, n>>]
  BY <1>0, <1>1, <1>4 DEF AllRows
<1>5. ASSUME NEW v \in work[l], v \in work'[l]
      PROVE  v \in rows \/ v.key # k
  <2>1. SUFFICES ASSUME v.key = k, v \notin rows PROVE FALSE
    OBVIOUS
  <2>2. v \in Visible(l)
    BY DEF Visible
  <2>3. [v EXCEPT !.by = <<l, n>>] \in rows /\ [v EXCEPT !.by = <<l, n>>].id = v.id
    BY <1>0, <1>1, <2>1, <2>2 DEF AllRows
  <2> QED
    BY <1>3, <1>5, <2>1, <2>3
<1>6. \A v \in Visible(l) : KeyFromId(v)
  BY <1>0, WrittenKeys
<1>7. OneVersion(Visible(l))
  BY <1>0 DEF OneVersion, Visible
<1>8. OneVersion(work'[l])
  <2> SUFFICES ASSUME NEW v \in work'[l], NEW w \in work'[l], v.id = w.id
               PROVE  v = w
    BY DEF OneVersion
  <2>1. CASE v \in rows /\ w \in rows
    <3>1. PICK s \in Visible(l) : v.id = s.id /\ v = [s EXCEPT !.by = <<l, n>>]
      BY <1>4, <2>1
    <3>2. PICK t \in Visible(l) : w.id = t.id /\ w = [t EXCEPT !.by = <<l, n>>]
      BY <1>4, <2>1
    <3>3. s = t
      BY <1>7, <3>1, <3>2 DEF OneVersion
    <3> QED
      BY <3>1, <3>2, <3>3
  <2>2. CASE v \notin rows /\ w \notin rows
    BY <1>0, <1>3, <2>2 DEF OneVersion
  <2> QED
    BY <1>3, <2>1, <2>2
<1>9. ASSUME NEW v \in work'[l]
      PROVE  \E j \in 1 .. n :
                /\ v.by = <<l, j>> /\ v.key = batch[l][j]
                /\ IF v.key = NoKey THEN v.id = <<l, j>> ELSE Serial!IsLast(l, n, j)
  <2>1. CASE v \in rows
    <3>1. v.by = <<l, n>> /\ v.key = k
      BY <1>4, <2>1
    <3>2. Serial!IsLast(l, n, n)
      BY <1>0 DEF Serial!IsLast
    <3> QED
      BY <1>0, <1>1, <3>1, <3>2
  <2>2. CASE v \notin rows
    <3>1. v \in work[l] /\ v.key # k
      BY <1>3, <1>5, <2>2
    <3>2. PICK j \in 1 .. n - 1 :
             /\ v.by = <<l, j>> /\ v.key = batch[l][j]
             /\ IF v.key = NoKey THEN v.id = <<l, j>> ELSE Serial!IsLast(l, n - 1, j)
      BY <1>0, <3>1 DEF HeldByLast, n
    <3>3. Serial!IsLast(l, n - 1, j) => Serial!IsLast(l, n, j)
      <4> SUFFICES ASSUME Serial!IsLast(l, n - 1, j), NEW i \in j + 1 .. n
                   PROVE  batch[l][i] # batch[l][j]
        BY DEF Serial!IsLast
      <4>1. i = n \/ i \in j + 1 .. n - 1
        BY <1>0
      <4> QED
        BY <1>0, <3>1, <3>2, <4>1 DEF Serial!IsLast
    <3>4. j \in 1 .. n
      BY <1>0
    <3> QED
      BY <3>2, <3>3, <3>4
  <2> QED
    BY <2>1, <2>2
<1>10. ASSUME NEW v \in work'[l], v.key # NoKey
       PROVE  \/ \E s \in table : s.id = v.id
              \/ /\ \E i \in 1 .. n :
                       v.id = <<l, i>> /\ v.key = batch[l][i] /\ Serial!IsFirst(l, i)
                 /\ \A s \in table : s.key # v.key
  <2>1. \E u \in Visible(l) : u.id = v.id /\ u.key = v.key
    BY <1>3, <1>4 DEF Visible
  <2>2. PICK u \in Visible(l) : u.id = v.id /\ u.key = v.key
    BY <2>1
  <2>3. CASE u \in table
    BY <2>2, <2>3
  <2>4. CASE u \in work[l]
    <3>1. \A i \in 1 .. n - 1 : i \in 1 .. n
      BY <1>0
    <3> QED
      BY <1>0, <1>10, <2>2, <2>4, <3>1 DEF HeldFrom
  <2> QED
    BY <2>3, <2>4 DEF Visible
\* Whatever was held under an id is held under it still, with its key.
<1>11. ASSUME NEW v \in work[l]
       PROVE  \E w \in work'[l] : w.id = v.id /\ w.key = v.key /\ (v.key # k => w = v)
  <2>1. CASE v \in work'[l]
    BY <2>1
  <2>2. CASE v \notin work'[l]
    <3>1. PICK r \in rows : r.id = v.id
      BY <1>3, <2>2
    <3>2. PICK s \in Visible(l) : r.id = s.id /\ r.key = k /\ s.key = k
      BY <1>4
    <3>3. v \in Visible(l)
      BY DEF Visible
    <3>4. v.key = s.key
      BY <1>6, <3>1, <3>2, <3>3, SameIdSameKey
    <3> QED
      BY <1>3, <3>1, <3>2, <3>4
  <2> QED
    BY <2>1, <2>2
<1>12. ASSUME NEW i \in 1 .. n
       PROVE  IF batch[l][i] = NoKey THEN Serial!Row(l, i, i) \in work'[l]
              ELSE /\ \E v \in work'[l] : v.key = batch[l][i]
                   /\ \A s \in table : s.key = batch[l][i] => \E v \in work'[l] : v.id = s.id
  <2>1. CASE i = n
    <3>1. \E v \in work'[l] : v.key = k
      BY <1>2, <1>3, <1>4
    <3>2. ASSUME NEW s \in table, s.key = k
          PROVE  \E v \in work'[l] : v.id = s.id
      <4>1. CASE s \in Visible(l)
        <5>1. [s EXCEPT !.by = <<l, n>>] \in rows /\ [s EXCEPT !.by = <<l, n>>].id = s.id
          BY <1>0, <1>1, <3>2, <4>1 DEF AllRows
        <5> QED
          BY <1>3, <5>1
      <4>2. CASE s \notin Visible(l)
        BY <1>3, <4>2 DEF Visible
      <4> QED
        BY <4>1, <4>2
    <3> QED
      BY <1>0, <1>1, <2>1, <3>1, <3>2
  <2>2. CASE i # n
    <3>1. i \in Written(l)
      BY <1>0, <2>2
    <3>2. CASE batch[l][i] = NoKey
      <4>1. Serial!Row(l, i, i) \in work[l] /\ Serial!Row(l, i, i).key = NoKey
        BY <1>0, <3>1, <3>2 DEF HoldsKeys, Serial!Row
      <4> QED
        BY <1>1, <1>11, <3>2, <4>1
    <3>3. CASE batch[l][i] # NoKey
      <4>1. PICK v \in work[l] : v.key = batch[l][i]
        BY <1>0, <3>1, <3>3 DEF HoldsKeys
      <4>2. PICK w \in work'[l] : w.key = v.key
        BY <1>11
      <4>3. \A s \in table : s.key = batch[l][i] => \E u \in work[l] : u.id = s.id
        BY <1>0, <3>1, <3>3 DEF HoldsKeys
      <4>4. \A s \in table : s.key = batch[l][i] => \E u \in work'[l] : u.id = s.id
        BY <1>3, <4>3
      <4> QED
        BY <3>3, <4>1, <4>2, <4>4
    <3> QED
      BY <3>2, <3>3
  <2> QED
    BY <2>1, <2>2
<1>13. next'[l] - 1 = n
  BY <1>0 DEF n
<1>14. HeldByLast(l)'
  BY <1>0, <1>9, <1>13 DEF HeldByLast, Serial!IsLast
<1>15. HeldFrom(l)'
  BY <1>0, <1>3, <1>10 DEF HeldFrom, Serial!IsFirst
<1>16. HoldsKeys(l)'
  BY <1>0, <1>3, <1>12 DEF HoldsKeys, Serial!Row
<1> QED
  BY <1>8, <1>14, <1>15, <1>16 DEF Effect, OneVersion

\* What an open upsert holds has an id of the table, or one of its positions.
LEMMA HeldIds ==
    ASSUME TypeOK, NEW l \in Loads, NEW v \in work[l],
           IF setting.strategy = "Upsert" THEN HeldByLast(l) /\ HeldFrom(l) ELSE HoldsItsRows(l)
    PROVE  (\E s \in table : s.id = v.id) \/ (\E i \in Written(l) : v.id = <<l, i>>)
BY DEF HeldByLast, HeldFrom, HoldsItsRows, Serial!Row

\* An INSERT: the key, if there is one, is in no row that l holds or sees.
LEMMA NewRowEffect ==
    ASSUME LoadInv, RowKeys, EffectInv, NEW l \in Loads, InTransaction(l),
           setting.strategy = "Upsert", UNCHANGED <<setting, batch>>,
           Key(l) # NoKey => \A s \in Visible(l) : s.key # Key(l),
           Write(l, {NewRow(l, next[l])}), next'[l] = next[l] + 1
    PROVE  Effect(l)'
<1> DEFINE k == Key(l)
           n == next[l]
           new == Serial!Row(l, n, n)
<1>0. /\ TypeOK /\ n \in Nat \ {0} /\ Written(l) = 1 .. n - 1 /\ Written(l)' = 1 .. n
      /\ FreshIds /\ OneVersion(work[l])
      /\ HeldByLast(l) /\ HeldFrom(l) /\ HoldsKeys(l)
      /\ k = batch[l][n] /\ batch' = batch /\ next'[l] - 1 = n
  BY DEF LoadInv, TypeOK, EffectInv, Effect, Written, Key
<1>1. /\ new.id = <<l, n>> /\ new.key = k /\ new.by = <<l, n>>
      /\ new = NewRow(l, next[l])
  BY DEF Serial!Row, NewRow, Key
<1>k. k # NoKey => \A s \in Visible(l) : s.key # k
  OBVIOUS
<1> HIDE DEF k, n, new
<1>2. ASSUME NEW v \in work[l]
      PROVE  v.id # <<l, n>>
  <2>1. (\E s \in table : s.id = v.id) \/ (\E i \in 1 .. n - 1 : v.id = <<l, i>>)
    BY <1>0, HeldIds
  <2>2. \A s \in table : s.id # <<l, n>>
    BY <1>0 DEF FreshIds, InTransaction
  <2>3. \A i \in 1 .. n - 1 : <<l, i>> # <<l, n>>
    BY <1>0
  <2> QED
    BY <2>1, <2>2, <2>3
<1>3. work'[l] = work[l] \cup {new} /\ table' = table
  <2>1. work'[l] = {v \in work[l] : \A r \in {new} : r.id # v.id} \cup {new} /\ table' = table
    BY <1>0, <1>1, WriteHolds
  <2> QED
    BY <1>1, <1>2, <2>1
<1>4. k # NoKey => /\ \A v \in work[l] : v.key # k
                   /\ \A s \in table : s.key # k
  <2> SUFFICES ASSUME k # NoKey
               PROVE  (\A v \in work[l] : v.key # k) /\ (\A s \in table : s.key # k)
    OBVIOUS
  <2>1. \A v \in work[l] : v.key # k
    BY <1>k DEF Visible
  <2>2. ASSUME NEW s \in table PROVE s.key # k
    <3>1. CASE s \in Visible(l)
      BY <1>k, <3>1
    <3>2. CASE s \notin Visible(l)
      <4>1. PICK v \in work[l] : v.id = s.id
        BY <3>2 DEF Visible
      <4> QED
        BY <1>0, <2>1, <4>1, HeldRowHasKey
    <3> QED
      BY <3>1, <3>2
  <2> QED
    BY <2>1, <2>2
<1>5. OneVersion(work'[l])
  BY <1>0, <1>1, <1>2, <1>3 DEF OneVersion
<1>6. ASSUME NEW v \in work'[l]
      PROVE  \E j \in 1 .. n :
                /\ v.by = <<l, j>> /\ v.key = batch[l][j]
                /\ IF v.key = NoKey THEN v.id = <<l, j>> ELSE Serial!IsLast(l, n, j)
  <2>1. CASE v = new
    <3>1. Serial!IsLast(l, n, n)
      BY <1>0 DEF Serial!IsLast
    <3> QED
      BY <1>0, <1>1, <2>1, <3>1
  <2>2. CASE v # new
    <3>1. v \in work[l] /\ (k # NoKey => v.key # k)
      BY <1>3, <1>4, <2>2
    <3>2. PICK j \in 1 .. n - 1 :
             /\ v.by = <<l, j>> /\ v.key = batch[l][j]
             /\ IF v.key = NoKey THEN v.id = <<l, j>> ELSE Serial!IsLast(l, n - 1, j)
      BY <1>0, <3>1 DEF HeldByLast, n
    <3>3. v.key # NoKey /\ Serial!IsLast(l, n - 1, j) => Serial!IsLast(l, n, j)
      <4> SUFFICES ASSUME v.key # NoKey, Serial!IsLast(l, n - 1, j), NEW i \in j + 1 .. n
                   PROVE  batch[l][i] # batch[l][j]
        BY DEF Serial!IsLast
      <4>1. i = n \/ i \in j + 1 .. n - 1
        BY <1>0
      <4> QED
        BY <1>0, <3>1, <3>2, <4>1 DEF Serial!IsLast
    <3>4. j \in 1 .. n
      BY <1>0
    <3> QED
      BY <3>2, <3>3, <3>4
  <2> QED
    BY <2>1, <2>2
<1>7. k # NoKey => Serial!IsFirst(l, n)
  <2> SUFFICES ASSUME k # NoKey, NEW j \in 1 .. n - 1, batch[l][j] = k
               PROVE  FALSE
    BY <1>0 DEF Serial!IsFirst
  <2>1. \E v \in work[l] : v.key = k
    BY <1>0 DEF HoldsKeys
  <2> QED
    BY <1>4, <2>1
<1>8. ASSUME NEW v \in work'[l], v.key # NoKey
      PROVE  \/ \E s \in table : s.id = v.id
             \/ /\ \E i \in 1 .. n :
                      v.id = <<l, i>> /\ v.key = batch[l][i] /\ Serial!IsFirst(l, i)
                /\ \A s \in table : s.key # v.key
  <2>1. CASE v = new
    BY <1>0, <1>1, <1>4, <1>7, <1>8, <2>1
  <2>2. CASE v \in work[l]
    <3>1. \A i \in 1 .. n - 1 : i \in 1 .. n
      BY <1>0
    <3> QED
      BY <1>0, <1>8, <2>2, <3>1 DEF HeldFrom
  <2> QED
    BY <1>3, <2>1, <2>2
<1>9. ASSUME NEW i \in 1 .. n
      PROVE  IF batch[l][i] = NoKey THEN Serial!Row(l, i, i) \in work'[l]
             ELSE /\ \E v \in work'[l] : v.key = batch[l][i]
                  /\ \A s \in table : s.key = batch[l][i] => \E v \in work'[l] : v.id = s.id
  <2>1. CASE i = n
    BY <1>0, <1>1, <1>3, <1>4, <2>1 DEF new
  <2>2. CASE i # n
    <3>1. i \in Written(l)
      BY <1>0, <2>2
    <3> QED
      BY <1>0, <1>3, <3>1 DEF HoldsKeys
  <2> QED
    BY <2>1, <2>2
<1>10. HeldByLast(l)'
  BY <1>0, <1>6 DEF HeldByLast, Serial!IsLast
<1>11. HeldFrom(l)'
  BY <1>0, <1>3, <1>8 DEF HeldFrom, Serial!IsFirst
<1>12. HoldsKeys(l)'
  BY <1>0, <1>3, <1>9 DEF HoldsKeys, Serial!Row
<1> QED
  BY <1>5, <1>10, <1>11, <1>12 DEF Effect, OneVersion

\* One INSERT covers the positions up to the next one.
LEMMA ChunkIsInterval ==
    ASSUME TypeOK, NEW l \in Loads
    PROVE  Chunk(l) = next[l] .. next[l] + Cardinality(Chunk(l)) - 1
<1>0. /\ next[l] \in Nat \ {0}
      /\ next[l] <= Len(batch[l]) + 1
      /\ Len(batch[l]) \in Nat
      /\ maxRowsPerBatch \in Nat \ {0}
  BY BatchLength, MaxRowsType DEF TypeOK
<1>1. PICK b \in Nat : next[l] <= b + 1 /\ Chunk(l) = next[l] .. b
  <2>1. CASE next[l] + maxRowsPerBatch - 1 <= Len(batch[l])
    <3>1. /\ next[l] + maxRowsPerBatch - 1 \in Nat
          /\ next[l] <= (next[l] + maxRowsPerBatch - 1) + 1
      BY <1>0
    <3>2. Chunk(l) = next[l] .. (next[l] + maxRowsPerBatch - 1)
      BY <1>0, <2>1 DEF Chunk
    <3> QED
      BY <3>1, <3>2
  <2>2. CASE next[l] + maxRowsPerBatch - 1 > Len(batch[l])
    <3>1. Chunk(l) = next[l] .. Len(batch[l])
      BY <1>0, <2>2 DEF Chunk
    <3> QED
      BY <1>0, <3>1
  <2> QED
    BY <1>0, <2>1, <2>2
<1>2. Cardinality(Chunk(l)) = b - next[l] + 1
  BY <1>0, <1>1, IntervalSize
<1>3. next[l] + Cardinality(Chunk(l)) - 1 = b
  BY <1>0, <1>1, <1>2
<1> QED
  BY <1>1, <1>3

\* A chunk of new rows.
LEMMA BulkEffect ==
    ASSUME LoadInv, EffectInv, NEW l \in Loads, BulkStatement(l)
    PROVE  Effect(l)'
<1> DEFINE n == next[l]
           c == Cardinality(Chunk(l))
           rows == {NewRow(l, i) : i \in Chunk(l)}
<1>0. /\ TypeOK /\ n \in Nat \ {0} /\ c \in Nat /\ Chunk(l) = n .. n + c - 1
      /\ InTransaction(l) /\ setting.strategy = "BulkInsert"
      /\ UNCHANGED <<setting, batch>>
      /\ Written(l) = 1 .. n - 1 /\ Written(l)' = 1 .. n + c - 1
      /\ HoldsItsRows(l)
  <2>1. TypeOK /\ n \in Nat \ {0} /\ c \in Nat /\ Chunk(l) = n .. n + c - 1
    <3>1. TypeOK
      BY DEF LoadInv
    <3>2. n \in Nat \ {0}
      BY <3>1, BatchLength DEF TypeOK
    <3>3. c \in Nat /\ Chunk(l) = n .. n + c - 1
      BY <3>1, ChunkBounds, ChunkIsInterval
    <3> QED
      BY <3>1, <3>2, <3>3
  <2>2. /\ InTransaction(l) /\ setting.strategy = "BulkInsert"
        /\ UNCHANGED <<setting, batch>> /\ Advance(l, c)
    BY DEF BulkStatement, Ready, Remaining
  <2>3. next'[l] = n + c
    BY <2>1, <2>2 DEF Advance, TypeOK
  <2> HIDE DEF c
  <2> QED
    BY <2>1, <2>2, <2>3 DEF Written, EffectInv, Effect
<1>1. rows = {Serial!Row(l, i, i) : i \in n .. n + c - 1}
  BY <1>0 DEF NewRow, Serial!Row
<1> HIDE DEF n, c, rows
<1>2. work'[l] = {v \in work[l] : \A r \in rows : r.id # v.id} \cup rows
  BY <1>0, WriteHolds DEF BulkStatement, rows
<1>3. \A v \in work[l], r \in rows : r.id # v.id
  BY <1>0, <1>1 DEF HoldsItsRows, Serial!Row
<1>4. work'[l] = {Serial!Row(l, i, i) : i \in 1 .. n + c - 1}
  <2>1. work'[l] = work[l] \cup rows
    BY <1>2, <1>3
  <2>2. 1 .. n + c - 1 = (1 .. n - 1) \cup (n .. n + c - 1)
    BY <1>0
  <2> QED
    BY <1>0, <1>1, <2>1, <2>2 DEF HoldsItsRows
<1>5. HoldsItsRows(l)'
  BY <1>0, <1>4 DEF HoldsItsRows, Serial!Row
<1>6. OneVersion(work'[l])
  BY <1>4 DEF OneVersion, Serial!Row
<1> QED
  BY <1>0, <1>5, <1>6 DEF Effect, OneVersion

-----------------------------------------------------------------------------
(* The commits of others *)

\* What a commit leaves: m has nothing open, and its versions replace the rows.
LEMMA CommitShows ==
    ASSUME TypeOK, NEW m \in Loads, Commit(m)
    PROVE  /\ table' = work[m] \cup {r \in table : \A v \in work[m] : v.id # r.id}
           /\ work'[m] = {}
           /\ \A l \in Loads : l # m => work'[l] = work[l]
           /\ UNCHANGED <<setting, batch, next>>
BY DEF Commit, Dispose, Visible, TypeOK

\* m, which holds no row with a key that l holds, changes nothing that the
\* records written by l depend on.
LEMMA CommitKeepsEffect ==
    ASSUME LoadInv, RowKeys, EffectInv, NEW l \in Loads, NEW m \in Loads, l # m,
           InTransaction(l), Commit(m), setting.strategy = "Upsert" => HeldApart
    PROVE  Effect(l)'
<1>0. /\ TypeOK /\ FreshIds /\ Effect(l) /\ Effect(m) /\ InTransaction(m)
      /\ work'[l] = work[l] /\ UNCHANGED <<setting, batch, next>>
      /\ table' = work[m] \cup {r \in table : \A v \in work[m] : v.id # r.id}
  BY CommitShows DEF LoadInv, EffectInv, Commit, InTransaction
<1>1. CASE setting.strategy # "Upsert"
  BY <1>0, <1>1 DEF Effect, HoldsItsRows, OneVersion, Written, Serial!Row
<1>2. CASE setting.strategy = "Upsert"
  <2>0. /\ HeldByLast(l) /\ HeldFrom(l) /\ HoldsKeys(l) /\ OneVersion(work[l])
        /\ HeldByLast(m) /\ HeldApart
    BY <1>0, <1>2 DEF Effect
  <2>1. ASSUME NEW v \in work[l], NEW w \in work[m], v.key = w.key
        PROVE  v.key = NoKey
    BY <2>0, <2>1 DEF HeldApart
\* The table has the same ids as before under a key that l holds.
  <2>2. ASSUME NEW v \in work[l], v.key # NoKey, NEW s \in table', s.key = v.key
        PROVE  s \in table
    BY <1>0, <2>1, <2>2
  <2>3. ASSUME NEW v \in work[l], v.key # NoKey, NEW s \in table, s.key = v.key
        PROVE  s \in table'
    <3>1. ASSUME NEW w \in work[m], w.id = s.id PROVE FALSE
      <4>1. w.key = s.key
        BY <1>0, <2>0, <3>1, HeldRowHasKey
      <4> QED
        BY <2>1, <2>3, <4>1
    <3> QED
      BY <1>0, <3>1
  <2>4. HeldByLast(l)'
    BY <1>0, <2>0 DEF HeldByLast, Written, Serial!IsLast
  <2>5. ASSUME NEW v \in work[l], v.key # NoKey
        PROVE  \/ \E s \in table' : s.id = v.id
               \/ /\ \E i \in Written(l) :
                        v.id = <<l, i>> /\ v.key = batch[l][i] /\ Serial!IsFirst(l, i)
                  /\ \A s \in table' : s.key # v.key
    <3>1. CASE \E s \in table : s.id = v.id
      <4>1. PICK s \in table : s.id = v.id
        BY <3>1
      <4>2. s.key = v.key
        BY <1>0, <2>0, <4>1, HeldRowHasKey
      <4> QED
        BY <2>3, <2>5, <4>1, <4>2
    <3>2. CASE ~ \E s \in table : s.id = v.id
      <4>1. /\ \E i \in Written(l) :
                  v.id = <<l, i>> /\ v.key = batch[l][i] /\ Serial!IsFirst(l, i)
            /\ \A s \in table : s.key # v.key
        BY <2>0, <2>5, <3>2 DEF HeldFrom
      <4> QED
        BY <2>2, <2>5, <4>1
    <3> QED
      BY <3>1, <3>2
  <2>6. HeldFrom(l)'
    BY <1>0, <2>5 DEF HeldFrom, Written, Serial!IsFirst
  <2>7. ASSUME NEW i \in Written(l)
        PROVE  IF batch[l][i] = NoKey THEN Serial!Row(l, i, i) \in work[l]
               ELSE /\ \E v \in work[l] : v.key = batch[l][i]
                    /\ \A s \in table' : s.key = batch[l][i] => \E v \in work[l] : v.id = s.id
    <3>1. CASE batch[l][i] = NoKey
      BY <2>0, <3>1 DEF HoldsKeys
    <3>2. CASE batch[l][i] # NoKey
      <4>1. PICK v \in work[l] : v.key = batch[l][i]
        BY <2>0, <3>2 DEF HoldsKeys
      <4>2. \A s \in table' : s.key = batch[l][i] => s \in table
        BY <2>2, <3>2, <4>1
      <4> QED
        BY <2>0, <3>2, <4>1, <4>2 DEF HoldsKeys
    <3> QED
      BY <3>1, <3>2
  <2>8. HoldsKeys(l)'
    BY <1>0, <2>7 DEF HoldsKeys, Written, Serial!Row
  <2> QED
    BY <1>0, <1>2, <2>0, <2>4, <2>6, <2>8 DEF Effect, OneVersion
<1> QED
  BY <1>1, <1>2

\* The table keeps one version of each row, and no id of an open transaction.
LEMMA CommitKeepsIds ==
    ASSUME LoadInv, EffectInv, NEW m \in Loads, Commit(m)
    PROVE  OneVersion(table') /\ FreshIds'
<1>0. /\ TypeOK /\ FreshIds /\ OneVersion(table) /\ OneVersion(work[m])
      /\ table' = work[m] \cup {r \in table : \A v \in work[m] : v.id # r.id}
      /\ IF setting.strategy = "Upsert" THEN HeldByLast(m) /\ HeldFrom(m) ELSE HoldsItsRows(m)
  BY CommitShows DEF LoadInv, EffectInv, Effect, Commit, InTransaction
<1>1. OneVersion(table')
  BY <1>0 DEF OneVersion
<1>2. /\ pc'[m] \in {"returned", "threw"}
      /\ \A l \in Loads : l # m => pc'[l] = pc[l]
  BY <1>0 DEF Commit, TypeOK
<1>3. ASSUME NEW r \in table', NEW l \in Loads, r.id[1] = l
      PROVE  pc'[l] \in {"returned", "threw"}
  <2>1. CASE \E s \in table : s.id = r.id
    BY <1>0, <1>2, <1>3, <2>1 DEF FreshIds
  <2>2. CASE ~ \E s \in table : s.id = r.id
    <3>1. r \in work[m]
      BY <1>0, <2>2
    <3>2. r.id[1] = m
      BY <1>0, <2>2, <3>1, HeldIds
    <3> QED
      BY <1>2, <1>3, <3>2
  <2> QED
    BY <2>1, <2>2
<1> QED
  BY <1>1, <1>3 DEF FreshIds

-----------------------------------------------------------------------------
(* The invariant *)

\* Rows are only added, or loads of one key exclude each other.
Apart == setting.strategy = "Upsert" => HasUniqueIndex \/ setting.alone

\* Only a call that has not ended throws.
LEMMA ThrowsWhileOpen ==
    ASSUME NEW m \in Loads, Rejected(m) \/ DeadlockVictim(m) \/ Fail(m)
    PROVE  pc[m] \in {"called", "writing", "inserting"}
<1>1. CASE Rejected(m) \/ Fail(m)
  BY <1>1 DEF Rejected, Fail, Ready, InTransaction
<1>2. CASE DeadlockVictim(m)
  <2>1. Waiting(m)
    BY <1>2 DEF DeadlockVictim, Deadlocked
  <2> QED
    BY <2>1 DEF Waiting, Remaining, InTransaction
<1> QED
  BY <1>1, <1>2

LEMMA OnlyUpsertsInsertStep ==
    ASSUME LoadInv, OnlyUpsertsInsert, [Next]_vars
    PROVE  OnlyUpsertsInsert'
<1>0. pc \in [Loads -> {"called", "writing", "inserting", "returned", "threw"}]
  BY DEF LoadInv, TypeOK
<1>1. CASE UNCHANGED vars
  BY <1>1 DEF vars, OnlyUpsertsInsert
<1>2. ASSUME NEW l \in Loads, Begin(l) PROVE OnlyUpsertsInsert'
  BY <1>0, <1>2 DEF Begin, OnlyUpsertsInsert
<1>3. ASSUME NEW l \in Loads, BulkStatement(l) \/ UpsertPostgres(l) PROVE OnlyUpsertsInsert'
  BY <1>3 DEF BulkStatement, UpsertPostgres, OnlyUpsertsInsert
<1>4. ASSUME NEW l \in Loads, UpdateSqlServer(l) PROVE OnlyUpsertsInsert'
  BY <1>0, <1>4 DEF UpdateSqlServer, Ready, OnlyUpsertsInsert
<1>5. ASSUME NEW l \in Loads, InsertSqlServer(l) \/ Commit(l) PROVE OnlyUpsertsInsert'
  BY <1>0, <1>5 DEF InsertSqlServer, Commit, OnlyUpsertsInsert
<1>6. ASSUME NEW l \in Loads, Rejected(l) \/ DeadlockVictim(l) \/ Fail(l)
      PROVE  OnlyUpsertsInsert'
  BY <1>0, <1>6 DEF Rejected, DeadlockVictim, Fail, Throw, OnlyUpsertsInsert
<1> QED
  BY <1>1, <1>2, <1>3, <1>4, <1>5, <1>6 DEF Next, Progress

\* Every step keeps it: the statements of the transaction itself by the lemmas
\* on UPDATE and INSERT, the commits of others by CommitKeepsEffect.
LEMMA EffectStep ==
    ASSUME LoadInv, RowKeys, KeysInv, Apart, EffectInv, [Next]_vars
    PROVE  EffectInv'
<1>0. /\ TypeOK /\ OneVersion(table) /\ FreshIds
      /\ \A l \in Loads : IF InTransaction(l) THEN Effect(l) ELSE pc[l] = "called" => next[l] = 1
  BY DEF LoadInv, EffectInv
<1>o. OnlyUpsertsInsert'
  BY OnlyUpsertsInsertStep DEF EffectInv
<1>a. ASSUME NEW m \in Loads, UNCHANGED <<setting, batch, table>>,
             \A l \in Loads : l # m =>
                 work'[l] = work[l] /\ pc'[l] = pc[l] /\ next'[l] = next[l],
             pc[m] \notin {"returned", "threw"},
             IF InTransaction(m)' THEN Effect(m)' ELSE pc'[m] # "called"
      PROVE  EffectInv'
  <2>1. OneVersion(table)' /\ FreshIds'
    BY <1>0, <1>a DEF OneVersion, FreshIds
  <2>2. ASSUME NEW l \in Loads
        PROVE  IF InTransaction(l)' THEN Effect(l)' ELSE pc'[l] = "called" => next'[l] = 1
    <3>1. CASE l = m
      BY <1>a, <3>1
    <3>2. CASE l # m
      <4>1. /\ InTransaction(l)' = InTransaction(l) /\ next'[l] = next[l]
            /\ work'[l] = work[l] /\ pc'[l] = pc[l]
        BY <1>a, <3>2 DEF InTransaction
      <4>2. InTransaction(l) => Effect(l)'
        BY <1>0, <1>a, <4>1, EffectKept
      <4> QED
        BY <1>0, <4>1, <4>2
    <3> QED
      BY <3>1, <3>2
  <2> QED
    BY <1>o, <2>1, <2>2 DEF EffectInv
\* A statement of m.
<1>b. ASSUME NEW m \in Loads, NEW rows, NEW n, Write(m, rows), Advance(m, n),
             UNCHANGED <<setting, batch>>, InTransaction(m),
             pc' = [pc EXCEPT ![m] = "writing"], Effect(m)'
      PROVE  EffectInv'
  <2>1. /\ table' = table
        /\ \A l \in Loads : l # m =>
              work'[l] = work[l] /\ pc'[l] = pc[l] /\ next'[l] = next[l]
    BY <1>0, <1>b DEF Write, Advance, TypeOK
  <2>2. InTransaction(m)' /\ pc[m] \notin {"returned", "threw"}
    BY <1>0, <1>b DEF InTransaction, TypeOK
  <2> QED
    BY <1>a, <1>b, <2>1, <2>2
<1>n. ASSUME NEW m \in Loads, Advance(m, 1) PROVE next'[m] = next[m] + 1
  BY <1>0, <1>n DEF Advance, TypeOK
<1>1. CASE UNCHANGED vars
  <2>1. OneVersion(table)' /\ FreshIds'
    BY <1>0, <1>1 DEF vars, OneVersion, FreshIds
  <2>2. ASSUME NEW l \in Loads
        PROVE  IF InTransaction(l)' THEN Effect(l)' ELSE pc'[l] = "called" => next'[l] = 1
    <3>1. /\ InTransaction(l)' = InTransaction(l) /\ next'[l] = next[l]
          /\ work'[l] = work[l] /\ pc'[l] = pc[l] /\ UNCHANGED <<setting, batch, table>>
      BY <1>1 DEF vars, InTransaction
    <3>2. InTransaction(l) => Effect(l)'
      BY <1>0, <3>1, EffectKept
    <3> QED
      BY <1>0, <3>1, <3>2
  <2> QED
    BY <1>o, <2>1, <2>2 DEF EffectInv
<1>2. ASSUME NEW m \in Loads, Begin(m) PROVE EffectInv'
  <2>1. /\ work'[m] = {} /\ next'[m] = 1 /\ pc'[m] \in {"returned", "writing"}
    BY <1>0, <1>2 DEF Begin, TypeOK, InTransaction
  <2>2. Written(m)' = {}
    BY <2>1 DEF Written
  <2>3. Effect(m)'
    BY <2>1, <2>2 DEF Effect, OneVersion, HoldsItsRows, HeldByLast, HeldFrom, HoldsKeys
  <2>4. /\ UNCHANGED <<setting, batch, table>> /\ pc[m] \notin {"returned", "threw"}
        /\ \A l \in Loads : l # m =>
              work'[l] = work[l] /\ pc'[l] = pc[l] /\ next'[l] = next[l]
    BY <1>0, <1>2 DEF Begin, TypeOK
  <2> QED
    BY <1>a, <2>1, <2>3, <2>4
<1>3. ASSUME NEW m \in Loads, BulkStatement(m) PROVE EffectInv'
  <2>1. /\ InTransaction(m) /\ UNCHANGED <<setting, batch>>
        /\ pc' = [pc EXCEPT ![m] = "writing"]
        /\ Write(m, {NewRow(m, i) : i \in Chunk(m)}) /\ Advance(m, Cardinality(Chunk(m)))
    BY <1>0, <1>3 DEF BulkStatement, Ready, Remaining, TypeOK
  <2>2. Effect(m)'
    BY <1>3, BulkEffect
  <2> QED
    BY <1>b, <2>1, <2>2
<1>4. ASSUME NEW m \in Loads, UpsertPostgres(m) PROVE EffectInv'
  <2> DEFINE found == Matching(m, Key(m))
             rows == IF found = {} THEN {NewRow(m, next[m])} ELSE Updated(m, found)
  <2>1. /\ InTransaction(m) /\ UNCHANGED <<setting, batch>> /\ setting.strategy = "Upsert"
        /\ pc' = [pc EXCEPT ![m] = "writing"] /\ Write(m, rows) /\ Advance(m, 1)
    BY <1>0, <1>4 DEF UpsertPostgres, Ready, Remaining, TypeOK
  <2>2. Effect(m)'
    <3>1. CASE found = {}
      <4>1. Key(m) # NoKey => \A s \in Visible(m) : s.key # Key(m)
        BY <3>1 DEF Matching
      <4>2. Write(m, {NewRow(m, next[m])})
        BY <2>1, <3>1
      <4> QED
        BY <1>n, <2>1, <4>1, <4>2, NewRowEffect
    <3>2. CASE found # {}
      <4>1. Write(m, Updated(m, Matching(m, Key(m))))
        BY <2>1, <3>2
      <4> QED
        BY <1>n, <2>1, <3>2, <4>1, UpdateEffect
    <3> QED
      BY <3>1, <3>2
  <2> HIDE DEF rows
  <2> QED
    BY <1>b, <2>1, <2>2
<1>5. ASSUME NEW m \in Loads, UpdateSqlServer(m) PROVE EffectInv'
  <2>1. /\ InTransaction(m) /\ UNCHANGED <<setting, batch>> /\ setting.strategy = "Upsert"
        /\ pc[m] = "writing"
    BY <1>5 DEF UpdateSqlServer, Ready, Remaining
  <2>2. CASE /\ Matching(m, Key(m)) # {} /\ Write(m, Updated(m, Matching(m, Key(m))))
             /\ Advance(m, 1) /\ UNCHANGED pc
    <3>1. pc' = [pc EXCEPT ![m] = "writing"]
      BY <1>0, <2>1, <2>2 DEF TypeOK
    <3>2. Effect(m)'
      BY <1>n, <2>1, <2>2, UpdateEffect
    <3> QED
      BY <1>b, <2>1, <2>2, <3>1, <3>2
  <2>3. CASE pc' = [pc EXCEPT ![m] = "inserting"] /\ UNCHANGED <<next, loaded, table, work>>
    <3>1. Effect(m)'
      BY <1>0, <2>1, <2>3, EffectKept
    <3>2. InTransaction(m)' /\ \A l \in Loads : l # m => pc'[l] = pc[l]
      BY <1>0, <2>3 DEF InTransaction, TypeOK
    <3> QED
      BY <1>a, <2>1, <2>3, <3>1, <3>2
  <2> QED
    BY <1>5, <2>2, <2>3 DEF UpdateSqlServer
<1>6. ASSUME NEW m \in Loads, InsertSqlServer(m) PROVE EffectInv'
  <2>1. /\ InTransaction(m) /\ UNCHANGED <<setting, batch>> /\ pc[m] = "inserting"
        /\ pc' = [pc EXCEPT ![m] = "writing"] /\ Write(m, {NewRow(m, next[m])})
        /\ Advance(m, 1) /\ ~ EntryClashes(m, Key(m))
    BY <1>6 DEF InsertSqlServer, InTransaction
  <2>2. setting.strategy = "Upsert"
    BY <2>1 DEF EffectInv, OnlyUpsertsInsert
  <2>3. Key(m) # NoKey => \A s \in Visible(m) : s.key # Key(m)
    <3>1. CASE HasUniqueIndex
      BY <2>1, <3>1 DEF EntryClashes, Clashing
    <3>2. CASE setting.alone
      BY <2>1, <2>2, <3>2 DEF KeysInv, StillMissing, Matching
    <3> QED
      BY <2>2, <3>1, <3>2 DEF Apart
  <2>4. Effect(m)'
    BY <1>n, <2>1, <2>2, <2>3, NewRowEffect
  <2> QED
    BY <1>b, <2>1, <2>4
<1>7. ASSUME NEW m \in Loads, Commit(m) PROVE EffectInv'
  <2>1. OneVersion(table)' /\ FreshIds'
    BY <1>7, CommitKeepsIds DEF OneVersion
  <2>2. /\ pc'[m] \in {"returned", "threw"}
        /\ \A l \in Loads : l # m => pc'[l] = pc[l]
        /\ UNCHANGED <<setting, batch, next>>
    BY <1>0, <1>7 DEF Commit, TypeOK
  <2>3. ASSUME NEW l \in Loads
        PROVE  IF InTransaction(l)' THEN Effect(l)' ELSE pc'[l] = "called" => next'[l] = 1
    <3>1. CASE l = m
      BY <2>2, <3>1 DEF InTransaction
    <3>2. CASE l # m
      <4>1. InTransaction(l)' = InTransaction(l) /\ pc'[l] = pc[l] /\ next'[l] = next[l]
        BY <2>2, <3>2 DEF InTransaction
      <4>2. InTransaction(l) => Effect(l)'
        BY <1>7, <3>2, CommitKeepsEffect DEF KeysInv
      <4> QED
        BY <1>0, <4>1, <4>2
    <3> QED
      BY <3>1, <3>2
  <2> QED
    BY <1>o, <2>1, <2>3 DEF EffectInv
<1>8. ASSUME NEW m \in Loads, Rejected(m) \/ DeadlockVictim(m) \/ Fail(m) PROVE EffectInv'
  <2>1. Throw(m)
    BY <1>8 DEF Rejected, DeadlockVictim, Fail
  <2>2. pc[m] \notin {"returned", "threw"}
    BY <1>8, ThrowsWhileOpen
  <2>3. /\ UNCHANGED <<setting, batch, table>> /\ pc'[m] = "threw" /\ ~ InTransaction(m)'
        /\ \A l \in Loads : l # m =>
              work'[l] = work[l] /\ pc'[l] = pc[l] /\ next'[l] = next[l]
    BY <1>0, <2>1 DEF Throw, Dispose, TypeOK, InTransaction
  <2> QED
    BY <1>a, <2>2, <2>3
<1> QED
  BY <1>1, <1>2, <1>3, <1>4, <1>5, <1>6, <1>7, <1>8 DEF Next, Progress

LEMMA InitEffect == Init => EffectInv
<1> SUFFICES ASSUME Init PROVE EffectInv
  OBVIOUS
<1>1. OneVersion(table)
  BY DestinationAssumption DEF Init, OneVersion
<1>2. FreshIds
  BY DestinationAssumption DEF Init, FreshIds
<1>3. OnlyUpsertsInsert /\ \A l \in Loads : ~ InTransaction(l) /\ next[l] = 1
  BY DEF Init, OnlyUpsertsInsert, InTransaction
<1> QED
  BY <1>1, <1>2, <1>3 DEF EffectInv

-----------------------------------------------------------------------------
(* The refinement *)

\* No records leave the table as it is.
LEMMA NothingLoaded ==
    ASSUME NEW l, NEW t
    PROVE  Serial!Loaded(l, 0, t) = t
<1>1. Serial!Inserted(l, 0, t) = t
  BY DEF Serial!Inserted
<1>2. \A x : x \in Serial!Upserted(l, 0, t) <=> x \in t
  BY UpsertedRows
<1>3. Serial!Upserted(l, 0, t) = t
  BY <1>2
<1> QED
  BY <1>1, <1>3 DEF Serial!Loaded

\* A commit makes of the table what the records of the batch do to it.
LEMMA CommitLoads ==
    ASSUME LoadInv, RowKeys, EffectInv, NEW l \in Loads, Commit(l)
    PROVE  table' = Serial!Loaded(l, Len(batch[l]), table)
<1>1. InTransaction(l) /\ table' = Visible(l)
  BY DEF Commit, InTransaction
<1>2. next[l] - 1 = Len(batch[l])
  <2>1. Len(batch[l]) \in Nat /\ next[l] \in 1 .. Len(batch[l]) + 1
    BY BatchLength DEF LoadInv, TypeOK
  <2> QED
    BY <1>1, <2>1 DEF Commit, Remaining
<1>3. CASE setting.strategy = "Upsert"
  BY <1>1, <1>2, <1>3, UpsertedIsVisible DEF Serial!Loaded
<1>4. CASE setting.strategy # "Upsert"
  BY <1>1, <1>2, <1>4, InsertedIsVisible DEF Serial!Loaded
<1> QED
  BY <1>3, <1>4

\* What the caller of a load has been told.
Outcome == [l \in Loads |-> IF pc[l] \in {"returned", "threw"} THEN pc[l] ELSE "pending"]

\* A commit, or a call with nothing to load, takes effect; an exception refuses
\* the load; everything else is hidden in the transaction.
LEMMA LoadStepIsSerial ==
    ASSUME LoadInv, RowKeys, EffectInv, [Next]_vars
    PROVE  [Serial!Next]_(Serial!serialVars)
<1>0. /\ TypeOK /\ pc \in [Loads -> {"called", "writing", "inserting", "returned", "threw"}]
      /\ Serial!serialVars = <<setting.strategy = "Upsert", batch, Outcome, table>>
      /\ Serial!serialVars' = <<setting'.strategy = "Upsert", batch', Outcome', table'>>
  BY DEF LoadInv, TypeOK, Serial!serialVars, Outcome
<1>a. ASSUME UNCHANGED <<setting, batch, table>>,
             \A l \in Loads : pc'[l] = pc[l]
                 \/ (pc[l] \notin {"returned", "threw"} /\ pc'[l] \notin {"returned", "threw"})
      PROVE  [Serial!Next]_(Serial!serialVars)
  <2>1. Outcome' = Outcome
    BY <1>a DEF Outcome
  <2> QED
    BY <1>0, <1>a, <2>1
<1>b. ASSUME NEW l \in Loads, pc[l] \notin {"returned", "threw"},
             NEW o \in {"returned", "threw"}, pc' = [pc EXCEPT ![l] = o],
             UNCHANGED <<setting, batch>>
      PROVE  Outcome[l] = "pending" /\ Outcome' = [Outcome EXCEPT ![l] = o]
  <2>1. pc'[l] = o /\ \A m \in Loads : m # l => pc'[m] = pc[m]
    BY <1>0, <1>b
  <2> QED
    BY <1>b, <2>1 DEF Outcome
<1>c. ASSUME NEW l \in Loads, pc[l] \notin {"returned", "threw"},
             NEW o \in {"returned", "threw"}, pc' = [pc EXCEPT ![l] = o],
             UNCHANGED <<setting, batch>>,
             table' = Serial!Loaded(l, Len(batch[l]), table)
      PROVE  [Serial!Next]_(Serial!serialVars)
  <2>1. Serial!TakeEffect(l)
    BY <1>b, <1>c DEF Serial!TakeEffect, Outcome
  <2> QED
    BY <2>1 DEF Serial!Next
<1>d. ASSUME NEW l \in Loads, pc[l] \notin {"returned", "threw"}, Throw(l)
      PROVE  [Serial!Next]_(Serial!serialVars)
  <2>1. Serial!Refuse(l)
    BY <1>b, <1>d DEF Throw, Serial!Refuse, Outcome
  <2> QED
    BY <2>1 DEF Serial!Next
<1>1. CASE UNCHANGED vars
  BY <1>1, <1>a DEF vars
<1>2. ASSUME NEW l \in Loads, Begin(l) PROVE [Serial!Next]_(Serial!serialVars)
  <2>1. CASE batch[l] = <<>>
    <3>1. table' = Serial!Loaded(l, Len(batch[l]), table)
      <4>1. Len(batch[l]) = 0
        BY <2>1
      <4> QED
        BY <1>2, <4>1, NothingLoaded DEF Begin
    <3> QED
      BY <1>2, <1>c, <2>1, <3>1 DEF Begin
  <2>2. CASE batch[l] # <<>>
    BY <1>0, <1>2, <1>a, <2>2 DEF Begin
  <2> QED
    BY <2>1, <2>2
<1>3. ASSUME NEW l \in Loads, BulkStatement(l) \/ UpsertPostgres(l)
      PROVE  [Serial!Next]_(Serial!serialVars)
  BY <1>3, <1>a DEF BulkStatement, UpsertPostgres, Write
<1>4. ASSUME NEW l \in Loads, UpdateSqlServer(l) PROVE [Serial!Next]_(Serial!serialVars)
  BY <1>0, <1>4, <1>a DEF UpdateSqlServer, Ready, Write
<1>5. ASSUME NEW l \in Loads, InsertSqlServer(l) PROVE [Serial!Next]_(Serial!serialVars)
  BY <1>0, <1>5, <1>a DEF InsertSqlServer, Write
<1>6. ASSUME NEW l \in Loads, Commit(l) PROVE [Serial!Next]_(Serial!serialVars)
  <2>1. /\ pc[l] \notin {"returned", "threw"} /\ UNCHANGED <<setting, batch>>
        /\ \E o \in {"returned", "threw"} : pc' = [pc EXCEPT ![l] = o]
    BY <1>6 DEF Commit
  <2> QED
    BY <1>6, <1>c, <2>1, CommitLoads
<1>7. ASSUME NEW l \in Loads, Rejected(l) \/ DeadlockVictim(l) \/ Fail(l)
      PROVE  [Serial!Next]_(Serial!serialVars)
  <2>1. Throw(l)
    BY <1>7 DEF Rejected, DeadlockVictim, Fail
  <2>2. pc[l] \notin {"returned", "threw"}
    BY <1>7, ThrowsWhileOpen
  <2> QED
    BY <1>d, <2>1, <2>2
<1> QED
  BY <1>1, <1>2, <1>3, <1>4, <1>5, <1>6, <1>7 DEF Next, Progress

\* For any loads, batches and tables, and any interleaving of their statements,
\* commits, deadlocks and failures: where rows are only added, or loads of one
\* key exclude each other, every load takes effect at its commit as if it were
\* the only one, or not at all.
THEOREM LoadsAreSerial ==
    ASSUME Exclusive
    PROVE  Spec => ImplementsSerialLoads
<1>1. Init => Serial!Init
  BY DEF Init, Serial!Init
<1>2. LoadInv /\ RowKeys /\ [Next]_vars => RowKeys'
  BY RowKeysStep
<1>3. LoadInv /\ RowKeys /\ KeysInv /\ [Next]_vars => KeysInv'
  BY KeysStep
<1>4. LoadInv => Apart
  BY DEF Exclusive, LoadInv, TypeOK, Apart, HasUniqueIndex
<1>5. LoadInv /\ RowKeys /\ KeysInv /\ EffectInv /\ [Next]_vars => EffectInv'
  BY <1>4, EffectStep
<1>6. LoadInv /\ RowKeys /\ EffectInv /\ [Next]_vars => [Serial!Next]_(Serial!serialVars)
  BY LoadStepIsSerial
<1> QED
  BY <1>1, <1>2, <1>3, <1>5, <1>6, InitLoadInv, NextLoadInv, InitKeys, InitEffect, PTL
  DEF Spec, ImplementsSerialLoads, Serial!Spec

=============================================================================

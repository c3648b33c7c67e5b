----------------------------- MODULE SerialLoads -----------------------------
(***************************************************************************)
(* What the destination table should look like to its owner: every load    *)
(* takes effect at one moment, as if it were the only one, or not at all.  *)
(* The caller of one that took effect may still be told that it failed.    *)
(*                                                                         *)
(* DestinationLoad implements this for the settings its README names.      *)
(***************************************************************************)
EXTENDS Naturals, Sequences

CONSTANTS Loads, NoKey

VARIABLES
    upsert,   \* whether rows with a key that exists are updated
    batch,    \* batch[l]: the keys of the records of load l, in order
    outcome,  \* outcome[l]: "pending", then what the caller is told
    table     \* the rows: who inserted each, its key, who wrote it last

serialVars == <<upsert, batch, outcome, table>>

\* The last record of l with key k, of the first n.
IsLast(l, n, i) == \A j \in i + 1 .. n : batch[l][j] # batch[l][i]
IsFirst(l, i) == \A j \in 1 .. i - 1 : batch[l][j] # batch[l][i]

Row(l, i, j) == [id |-> <<l, i>>, key |-> batch[l][i], by |-> <<l, j>>]

\* The table t after the first n records of l: each is a new row.
Inserted(l, n, t) == t \cup {Row(l, i, i) : i \in 1 .. n}

\* Each updates the rows of its key, or is a new row.  A record without a key
\* is always a new row.
Upserted(l, n, t) ==
    LET Same(k, i) == k = batch[l][i] /\ k # NoKey
        last == {i \in 1 .. n : IsLast(l, n, i)}
        fresh == {i \in 1 .. n : IsFirst(l, i) /\ \A r \in t : ~ Same(r.key, i)}
    IN  {r \in t : \A i \in 1 .. n : ~ Same(r.key, i)}
        \cup (UNION {{[r EXCEPT !.by = <<l, i>>] : r \in {s \in t : Same(s.key, i)}} : i \in last})
        \cup (UNION {{Row(l, i, j) : j \in {m \in last : Same(batch[l][m], i)}} : i \in fresh})
        \cup {Row(l, i, i) : i \in {m \in 1 .. n : batch[l][m] = NoKey}}

Loaded(l, n, t) == IF upsert THEN Upserted(l, n, t) ELSE Inserted(l, n, t)

Init == outcome = [l \in Loads |-> "pending"]

TakeEffect(l) ==
    /\ outcome[l] = "pending"
    /\ table' = Loaded(l, Len(batch[l]), table)
    /\ outcome' \in {[outcome EXCEPT ![l] = o] : o \in {"returned", "threw"}}
    /\ UNCHANGED <<upsert, batch>>

Refuse(l) ==
    /\ outcome[l] = "pending"
    /\ outcome' = [outcome EXCEPT ![l] = "threw"]
    /\ UNCHANGED <<upsert, batch, table>>

Next == \E l \in Loads : TakeEffect(l) \/ Refuse(l)

Spec == Init /\ [][Next]_serialVars

=============================================================================

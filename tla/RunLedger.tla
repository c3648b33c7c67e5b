------------------------------ MODULE RunLedger ------------------------------
(***************************************************************************)
(* What the EtlJob aggregate promises to someone reading the dashboard and *)
(* the History page: runs are submitted, each entry of the ledger is       *)
(* settled at most once and is never touched again, and the status shown   *)
(* is the outcome settled last, or Queued when a newer run is waiting.     *)
(*                                                                         *)
(* EtlJobLifecycle implements this when executions of a job do not         *)
(* overlap.                                                                *)
(***************************************************************************)
EXTENDS Naturals, Sequences

VARIABLES
    shown,    \* the status shown for the job
    entries   \* one entry per run, oldest first: "open" or its outcome

ledgerVars == <<shown, entries>>

Init == /\ shown = "Draft"
        /\ entries = <<>>

Submit == /\ shown' = "Queued"
          /\ entries' = Append(entries, "open")

\* An execution settles an open entry, or adds one when it knows of none.  The
\* job stays Queued only for a run submitted meanwhile, whose entry is open.
Settle(outcome) ==
    /\ \/ \E i \in DOMAIN entries :
             /\ entries[i] = "open"
             /\ entries' = [entries EXCEPT ![i] = outcome]
       \/ entries' = Append(entries, outcome)
    /\ \/ shown' = outcome
       \/ /\ shown = "Queued" /\ shown' = "Queued"
          /\ \E i \in DOMAIN entries' : entries'[i] = "open"

Next == Submit \/ \E outcome \in {"Succeeded", "Failed"} : Settle(outcome)

Spec == Init /\ [][Next]_ledgerVars

=============================================================================

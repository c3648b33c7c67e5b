------------------------------ MODULE PrefixLoad ------------------------------
(***************************************************************************)
(* What one execution of a job promises the owner of the destination: at   *)
(* any moment it has delivered exactly the good records up to some point   *)
(* of the source, each once and nothing else; and when it reports success, *)
(* that point is the end of the source.                                    *)
(*                                                                         *)
(* EtlEngine implements this.                                              *)
(***************************************************************************)
EXTENDS Naturals

CONSTANT N  \* number of records of the source

VARIABLES
    good,       \* the positions of the records that can be delivered
    delivered,  \* delivered[p]: how often record p has been delivered
    outcome     \* what the execution reported: "none" while it runs

promiseVars == <<good, delivered, outcome>>

Upto(f) == [p \in 1 .. N |-> IF p \in good /\ p <= f THEN 1 ELSE 0]

Init == /\ good \subseteq 1 .. N
        /\ delivered = Upto(0)
        /\ outcome = "none"

\* More of the source is delivered, or nothing.
Advance == /\ UNCHANGED good
           /\ \E f \in 0 .. N :
                 /\ delivered' = Upto(f)
                 /\ \A p \in 1 .. N : delivered[p] <= delivered'[p]

Deliver == /\ outcome = "none"
           /\ Advance
           /\ UNCHANGED outcome

\* The last records may become visible together with the report.
Succeed == /\ outcome = "none"
           /\ outcome' = "success"
           /\ delivered' = Upto(N)
           /\ UNCHANGED good

\* A failure may hide that the last delivery took effect.
Fail == /\ outcome = "none"
        /\ outcome' \in {"failure", "threw"}
        /\ Advance

Next == Deliver \/ Succeed \/ Fail

Spec == Init /\ [][Next]_promiseVars

=============================================================================

------------------------------- MODULE MCJobForm -------------------------------
(***************************************************************************)
(* JobForm for TLC: three rows, three types and two parameters; one node   *)
(* more than rows, for a row that left while the editor refers to it.      *)
(***************************************************************************)
EXTENDS JobForm

Interchangeable == Permutations(Nodes)

\* A bound: the table with all its rows and boxes while the editor has not been
\* asked for, and the editor over two rows, no boxes ticked.  A form saved with
\* more rows than are stored here is checked and not opened again.
TableOrEditor ==
    \/ ~ monacoEditorReady /\ currentInputTarget = NoNode /\ Len(stored) <= 2
    \/ /\ Len(rows) <= 2 /\ Len(stored) <= 1
       /\ \A i \in DOMAIN rows : ~ rows[i].isRequired
=============================================================================

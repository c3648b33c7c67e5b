------------------------------ MODULE MappingList ------------------------------
(***************************************************************************)
(* What the table of mappings does for the owner of a job: a list that can *)
(* be added to, shortened, reordered and edited one row at a time, that is *)
(* never empty, and that a save stores row by row in this order, with the  *)
(* types and parameters that are seen.  That a row is required is never    *)
(* stored, and a list with a row without transformation is never saved.    *)
(* No inputs, names or indices.                                            *)
(***************************************************************************)
EXTENDS Naturals, SequencesExt

CONSTANTS
    Types,             \* what the select of a row can have
    None,              \* its first option
    CustomExpression,  \* the type whose parameter is code
    NeedParameter,     \* the types that are refused without one
    Texts,             \* parameters, without the blanks around them that a save trims
    Blank              \* the empty parameter

VARIABLES
    list,   \* the rows as the owner sees them
    saved,  \* the mappings of the job
    page    \* "form", or "left" after a save

vars == <<list, saved, page>>

Items == [type : Types, parameter : Texts, isRequired : BOOLEAN]
BlankItem == [type |-> None, parameter |-> Blank, isRequired |-> FALSE]

\* What a POST leaves of a row.
Posted(item) == [item EXCEPT !.isRequired = FALSE]
PostedList == [i \in DOMAIN list |-> Posted(list[i])]

Opened == IF saved = <<>> THEN <<BlankItem>> ELSE saved

\* The form of a new job.
Init == list = <<BlankItem>> /\ saved = <<>> /\ page = "form"

Edited(s) == page = "form" /\ list' = s /\ UNCHANGED <<saved, page>>

AddRow == Edited(Append(list, BlankItem))

RemoveRow(i) == Edited(IF Len(list) = 1 THEN <<BlankItem>> ELSE RemoveAt(list, i))

\* Row i takes the place of row j; the others keep their order.
MoveRow(i, j) == Edited(InsertAt(RemoveAt(list, i), j, list[i]))

ChangeType(i) == \E t \in Types : Edited([list EXCEPT ![i].type = t])
ChangeParameter(i) == \E p \in Texts : Edited([list EXCEPT ![i].parameter = p])
ChangeRequired(i) == Edited([list EXCEPT ![i].isRequired = ~ list[i].isRequired])

\* Every row needs a transformation, and an expression or a date format has to be
\* written, before the job can be saved.
Save ==
    /\ page = "form"
    /\ \A i \in DOMAIN list : list[i].type # None
    /\ \A i \in DOMAIN list : list[i].type \in NeedParameter => list[i].parameter # Blank
    /\ saved' = PostedList
    /\ page' = "left"
    /\ UNCHANGED list

\* The form opened again, or reloaded with what was typed lost.
Open == page' = "form" /\ list' = Opened /\ UNCHANGED saved

\* The form comes back, with what arrived.
Refused == Edited(PostedList)

Next ==
    \/ AddRow \/ Save \/ Refused \/ Open
    \/ \E i \in DOMAIN list :
          \/ RemoveRow(i) \/ ChangeType(i) \/ ChangeParameter(i) \/ ChangeRequired(i)
          \/ \E j \in DOMAIN list : MoveRow(i, j)

Spec == Init /\ [][Next]_vars
=============================================================================

------------------------------ MODULE JobEditing ------------------------------
(***************************************************************************)
(* Editing one job: the Edit form, posted from several tabs at once, and   *)
(* the Activate and Deactivate buttons.  Every handler loads the job,      *)
(* changes its copy and saves.  A save writes the columns that differ from *)
(* the copy as loaded, deletes the mapping rows loaded and inserts new     *)
(* ones; no column is a concurrency token, but EF Core gives up a save     *)
(* when a row it deletes is no longer there.                               *)
(***************************************************************************)
EXTENDS Naturals

CONSTANTS
    Columns,    \* the columns of ETLJobs that make the definition
    Contents,   \* what a column or a mapping can hold
    Documents,  \* definitions as owners write them: columns and mappings that go together
    Edits,      \* tabs with an Edit form
    Toggles,    \* requests to Activate and Deactivate
    MaxSaves    \* bounds the saves of forms

Definition == [columns : [Columns -> Contents], mappings : SUBSET Contents]

\* The form has at least one row of mappings, the script sees to that.
ASSUME DocumentsAssumption ==
    /\ Documents \subseteq Definition
    /\ \A d \in Documents : d.mappings # {}

VARIABLES
    columns,   \* the row in ETLJobs
    rows,      \* the rows in FieldMappings, each with its id
    isActive,  \* ETLJobs.IsActive
    saves,     \* forms saved so far; the ids of the rows that one inserts are new
    pc,        \* of each tab
    form,      \* what the owner posts from it
    hidden,    \* the IsActive it was rendered with
    copy,      \* the job as the handler of the POST has loaded it
    toggle,    \* what a request to Activate or Deactivate is doing
    seen       \* for a property: values of isActive since the form was rendered

dbVars == <<columns, rows, isActive, saves>>
editVars == <<pc, form, hidden, copy>>
vars == <<dbVars, editVars, toggle, seen>>

Row == Nat \X Contents

\* Rows made of the mappings of a form by its save.
RowsOf(id, mappings) == {id} \X mappings

-----------------------------------------------------------------------------
\* After EtlJobsController.Create.
Init ==
    /\ \E d \in Documents :
          /\ columns = d.columns
          /\ rows = RowsOf(0, d.mappings)
          /\ form = [e \in Edits |-> d]
    /\ isActive = TRUE
    /\ saves = 0
    /\ pc = [e \in Edits |-> "none"]
    /\ hidden = [e \in Edits |-> TRUE]
    /\ copy = [e \in Edits |-> [columns |-> columns, rows |-> rows, isActive |-> TRUE]]
    /\ toggle = [t \in Toggles |-> [pc |-> "idle", to |-> TRUE, loaded |-> TRUE]]
    /\ seen = [e \in Edits |-> {TRUE}]

Observe == seen' = [e \in Edits |-> seen[e] \cup {isActive'}]

\* Mutant: the view has no hidden field, so the model's default is posted.
RenderDefaultActive(e) == hidden' = [hidden EXCEPT ![e] = TRUE]

RenderActive(e) == hidden' = [hidden EXCEPT ![e] = isActive]

\* GET Edit.
OpenForm(e) ==
    /\ pc[e] \in {"none", "saved", "failed"}
    /\ pc' = [pc EXCEPT ![e] = "form"]
    /\ RenderActive(e)
    /\ seen' = [seen EXCEPT ![e] = {isActive}]
    /\ UNCHANGED <<dbVars, form, copy, toggle>>

\* The owner returns to a form whose POST failed.
ReturnToForm(e) ==
    /\ pc[e] = "failed"
    /\ pc' = [pc EXCEPT ![e] = "form"]
    /\ UNCHANGED <<dbVars, form, hidden, copy, toggle, seen>>

\* POST Edit, up to the load of the job.
LoadForEdit(e) ==
    /\ pc[e] = "form"
    /\ \E d \in Documents : form' = [form EXCEPT ![e] = d]
    /\ copy' = [copy EXCEPT ![e] = [columns |-> columns, rows |-> rows, isActive |-> isActive]]
    /\ pc' = [pc EXCEPT ![e] = "loaded"]
    /\ UNCHANGED <<dbVars, hidden, toggle, seen>>

\* UpdateDefinition or FieldMapping.Create throws a DomainException: the form is
\* shown again, and what the copy was changed to is dropped.
RejectForm(e) ==
    /\ pc[e] = "loaded"
    /\ pc' = [pc EXCEPT ![e] = "form"]
    /\ UNCHANGED <<dbVars, form, hidden, copy, toggle, seen>>

\* A column that the form changes is written, the others are left alone.
Merged(e) ==
    [c \in Columns |->
        IF form[e].columns[c] # copy[e].columns[c] THEN form[e].columns[c] ELSE columns[c]]

\* UPDATE, DELETE and INSERT of one save; the answer may be lost.
Write(e, kept) ==
    /\ saves < MaxSaves
    /\ saves' = saves + 1
    /\ columns' = Merged(e)
    /\ rows' = kept \cup RowsOf(saves', form[e].mappings)
    /\ isActive' = IF hidden[e] # copy[e].isActive THEN hidden[e] ELSE isActive
    /\ \E answer \in {"saved", "failed"} : pc' = [pc EXCEPT ![e] = answer]
    /\ Observe
    /\ UNCHANGED <<form, hidden, copy, toggle>>

\* Mutant: a row that is gone is as good as deleted.
SaveOverMissing(e) == pc[e] = "loaded" /\ Write(e, rows \ copy[e].rows)

\* Mutant: mappings that the form has again stay, with their ids.
SaveDifference(e) ==
    LET unchanged == {r \in copy[e].rows : r[2] \in form[e].mappings}
    IN  /\ pc[e] = "loaded"
        /\ copy[e].rows \ unchanged \subseteq rows
        /\ Write(e, rows \ (copy[e].rows \ unchanged))

\* ReplaceFieldMappings and Activate or Deactivate on the copy, and SaveChanges:
\* every row loaded is deleted, and has to be there.
SaveEdit(e) ==
    /\ pc[e] = "loaded"
    /\ copy[e].rows \subseteq rows
    /\ Write(e, rows \ copy[e].rows)

\* A row to delete is gone (DbUpdateConcurrencyException), or the database or
\* the connection fails: the save is rolled back.
FailEdit(e) ==
    /\ pc[e] = "loaded"
    /\ pc' = [pc EXCEPT ![e] = "failed"]
    /\ UNCHANGED <<dbVars, form, hidden, copy, toggle, seen>>

\* POST Activate and POST Deactivate, up to the load of the job.
LoadToggle(t) ==
    /\ toggle[t].pc = "idle"
    /\ \E to \in BOOLEAN :
          toggle' = [toggle EXCEPT ![t] = [pc |-> "loaded", to |-> to, loaded |-> isActive]]
    /\ UNCHANGED <<dbVars, editVars, seen>>

SaveToggle(t) ==
    /\ toggle[t].pc = "loaded"
    /\ isActive' = IF toggle[t].to # toggle[t].loaded THEN toggle[t].to ELSE isActive
    /\ toggle' = [toggle EXCEPT ![t].pc = "idle"]
    /\ Observe
    /\ UNCHANGED <<columns, rows, saves, editVars>>

FailToggle(t) ==
    /\ toggle[t].pc = "loaded"
    /\ toggle' = [toggle EXCEPT ![t].pc = "idle"]
    /\ UNCHANGED <<dbVars, editVars, seen>>

EditStep(e) ==
    \/ OpenForm(e) \/ ReturnToForm(e) \/ LoadForEdit(e)
    \/ RejectForm(e) \/ SaveEdit(e) \/ FailEdit(e)
ToggleStep(t) == LoadToggle(t) \/ SaveToggle(t) \/ FailToggle(t)

Next == (\E e \in Edits : EditStep(e)) \/ (\E t \in Toggles : ToggleStep(t))

Spec == Init /\ [][Next]_vars

-----------------------------------------------------------------------------
\* The types; the rows of a save all have its id.
TypeOK ==
    /\ columns \in [Columns -> Contents]
    /\ \E m \in SUBSET Contents : rows = RowsOf(saves, m)
    /\ isActive \in BOOLEAN
    /\ saves \in Nat
    /\ pc \in [Edits -> {"none", "form", "loaded", "saved", "failed"}]
    /\ form \in [Edits -> Documents]
    /\ hidden \in [Edits -> BOOLEAN]
    /\ copy \in [Edits -> [columns : [Columns -> Contents], rows : SUBSET Row, isActive : BOOLEAN]]
    /\ toggle \in [Toggles -> [pc : {"idle", "loaded"}, to : BOOLEAN, loaded : BOOLEAN]]
    /\ seen \in [Edits -> SUBSET BOOLEAN]

\* The definition stored is one that an owner wrote as a whole: the source,
\* the destination and the mappings of two overlapping edits are never mixed.
DefinitionIsCoherent ==
    [columns |-> columns, mappings |-> {r[2] : r \in rows}] \in Documents

\* Edits apply one after the other: when one is saved, nothing of the
\* definition has changed since its handler loaded it.
EditsApplyInTurn ==
    [][\A e \in Edits :
          (pc[e] = "loaded" /\ saves' # saves /\ pc'[e] # pc[e])
          => (copy[e].columns = columns /\ copy[e].rows = rows)]_vars

\* An edit does not switch the job on or off by itself: after its save the job
\* is as it has been at some time since the form was rendered.
EditKeepsActivity ==
    [][\A e \in Edits :
          (pc[e] = "loaded" /\ saves' # saves /\ pc'[e] # pc[e])
          => isActive' \in seen[e]]_vars
=============================================================================

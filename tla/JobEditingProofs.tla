--------------------------- MODULE JobEditingProofs ---------------------------
(***************************************************************************)
(* The definition of a job stays whole under any number of overlapping     *)
(* edits.  What does it is not a concurrency token: a save deletes every   *)
(* mapping row it loaded, and the rows of each save have ids of their own, *)
(* so that a save over anything newer finds no row to delete.              *)
(***************************************************************************)
EXTENDS JobEditing, TLAPS

\* What the database holds: the rows of the last save, of a coherent form.
Stored ==
    \E d \in Documents : columns = d.columns /\ rows = RowsOf(saves, d.mappings)

\* A copy has the rows of one save; if that is the last one, the copy is what
\* is stored.
CopiesAreOfOneSave ==
    \A e \in Edits : pc[e] = "loaded" =>
        \E n \in Nat, m \in SUBSET Contents :
            /\ m # {} /\ n <= saves
            /\ copy[e].rows = RowsOf(n, m)
            /\ n = saves => copy[e].columns = columns /\ copy[e].rows = rows

\* A form was rendered with a value the job had.
FormsHaveSeen == \A e \in Edits : {hidden[e], isActive} \subseteq seen[e]

Invariant == TypeOK /\ Stored /\ CopiesAreOfOneSave /\ FormsHaveSeen

-----------------------------------------------------------------------------
\* The rows of a save tell its id and its mappings.
LEMMA RowsOfSave ==
    ASSUME NEW n, NEW m
    PROVE  /\ \A r \in RowsOf(n, m) : r[1] = n /\ r[2] \in m
           /\ {r[2] : r \in RowsOf(n, m)} = m
           /\ \A x \in m : <<n, x>> \in RowsOf(n, m)
<1>1. \A r \in RowsOf(n, m) : r[1] = n /\ r[2] \in m
    BY DEF RowsOf
<1>2. \A x \in m : <<n, x>> \in RowsOf(n, m) /\ <<n, x>>[2] = x
    BY DEF RowsOf
<1> QED
    BY <1>1, <1>2

\* A copy all of whose rows are still there is a copy of what is stored.
LEMMA SaveIsOverCurrent ==
    ASSUME Invariant, NEW e \in Edits, pc[e] = "loaded", copy[e].rows \subseteq rows
    PROVE  copy[e].columns = columns /\ copy[e].rows = rows
<1>1. PICK n \in Nat, m \in SUBSET Contents :
          /\ m # {} /\ n <= saves
          /\ copy[e].rows = RowsOf(n, m)
          /\ n = saves => copy[e].columns = columns /\ copy[e].rows = rows
    BY DEF Invariant, CopiesAreOfOneSave
<1>2. PICK d \in Documents : rows = RowsOf(saves, d.mappings)
    BY DEF Invariant, Stored
<1>3. PICK x \in m : TRUE
    BY <1>1
<1>4. <<n, x>> \in rows
    BY <1>1, <1>3, RowsOfSave
<1>5. n = saves
    <2>1. <<n, x>>[1] = saves
        BY <1>2, <1>4, RowsOfSave
    <2> QED
        BY <2>1
<1> QED
    BY <1>1, <1>5

\* What a save of a form leaves.
LEMMA SaveReplaces ==
    ASSUME Invariant, NEW e \in Edits, SaveEdit(e)
    PROVE  /\ copy[e].columns = columns /\ copy[e].rows = rows
           /\ columns' = form[e].columns
           /\ rows' = RowsOf(saves + 1, form[e].mappings)
           /\ form[e] \in Documents
<1>1. copy[e].columns = columns /\ copy[e].rows = rows
    BY SaveIsOverCurrent DEF SaveEdit
<1>2. form[e] \in Documents /\ form[e].columns \in [Columns -> Contents] /\ columns \in [Columns -> Contents]
    BY DocumentsAssumption DEF Invariant, TypeOK, Definition
<1>3. Merged(e) = form[e].columns
    <2>1. \A c \in Columns : Merged(e)[c] = form[e].columns[c]
        BY <1>1 DEF Merged
    <2>2. Merged(e) = [c \in Columns |-> Merged(e)[c]]
        BY DEF Merged
    <2>3. form[e].columns = [c \in Columns |-> form[e].columns[c]]
        BY <1>2
    <2> QED
        BY <2>1, <2>2, <2>3
<1>4. rows \ copy[e].rows = {}
    BY <1>1
<1> QED
    BY <1>1, <1>2, <1>3, <1>4 DEF SaveEdit, Write

-----------------------------------------------------------------------------
LEMMA InitInvariant == Init => Invariant
<1> SUFFICES ASSUME Init PROVE Invariant
    OBVIOUS
<1>1. PICK d \in Documents : /\ columns = d.columns
                            /\ rows = RowsOf(0, d.mappings)
                            /\ form = [e \in Edits |-> d]
    BY DEF Init
<1>2. d.columns \in [Columns -> Contents] /\ d.mappings \in SUBSET Contents
    BY DocumentsAssumption DEF Definition
<1>3. rows \in SUBSET Row
    BY <1>1, <1>2 DEF RowsOf, Row
<1>4. copy \in [Edits -> [columns : [Columns -> Contents], rows : SUBSET Row, isActive : BOOLEAN]]
    BY <1>1, <1>2, <1>3 DEF Init
<1>5. TypeOK
    BY <1>1, <1>2, <1>4 DEF Init, TypeOK
<1>6. Stored
    BY <1>1 DEF Init, Stored
<1> QED
    BY <1>5, <1>6 DEF Init, Invariant, CopiesAreOfOneSave, FormsHaveSeen

\* Steps that change neither the database nor a copy in use.
LEMMA QuietStep ==
    ASSUME Invariant, TypeOK', UNCHANGED <<columns, rows, saves>>, FormsHaveSeen',
           \A e \in Edits : pc'[e] = "loaded" => pc[e] = "loaded" /\ copy'[e] = copy[e]
    PROVE  Invariant'
<1>1. Stored'
    BY DEF Invariant, Stored
<1>2. CopiesAreOfOneSave'
    BY DEF Invariant, CopiesAreOfOneSave
<1> QED
    BY <1>1, <1>2 DEF Invariant

LEMMA OpenKeeps == ASSUME Invariant, NEW e \in Edits, OpenForm(e) PROVE Invariant'
<1>1. TypeOK'
    BY DEF Invariant, TypeOK, OpenForm, RenderActive, dbVars
<1>2. FormsHaveSeen'
    BY DEF Invariant, TypeOK, FormsHaveSeen, OpenForm, RenderActive, dbVars
<1>3. \A f \in Edits : pc'[f] = "loaded" => pc[f] = "loaded" /\ copy'[f] = copy[f]
    BY DEF Invariant, TypeOK, OpenForm
<1> QED
    BY <1>1, <1>2, <1>3, QuietStep DEF OpenForm, dbVars

\* The handler's load: the copy is what is stored.
LEMMA LoadKeeps == ASSUME Invariant, NEW e \in Edits, LoadForEdit(e) PROVE Invariant'
<1>1. PICK d \in Documents : form' = [form EXCEPT ![e] = d]
    BY DEF LoadForEdit
<1>2. PICK s \in Documents : columns = s.columns /\ rows = RowsOf(saves, s.mappings)
    BY DEF Invariant, Stored
<1>3. s.mappings \in SUBSET Contents /\ s.mappings # {}
    BY DocumentsAssumption DEF Definition
<1>4. rows \in SUBSET Row /\ saves \in Nat
    BY <1>2, <1>3 DEF Invariant, TypeOK, RowsOf, Row
<1>5. TypeOK'
    <2>1. copy' \in [Edits -> [columns : [Columns -> Contents], rows : SUBSET Row, isActive : BOOLEAN]]
        BY <1>4 DEF Invariant, TypeOK, LoadForEdit
    <2> QED
        BY <1>1, <2>1 DEF Invariant, TypeOK, LoadForEdit, dbVars
<1>6. Stored'
    BY <1>2 DEF Stored, LoadForEdit, dbVars
<1>7. CopiesAreOfOneSave'
    <2> SUFFICES ASSUME NEW f \in Edits, pc'[f] = "loaded"
                 PROVE  \E n \in Nat, m \in SUBSET Contents :
                            /\ m # {} /\ n <= saves
                            /\ copy'[f].rows = RowsOf(n, m)
                            /\ n = saves => copy'[f].columns = columns /\ copy'[f].rows = rows
        BY DEF CopiesAreOfOneSave, LoadForEdit, dbVars
    <2>1. CASE f = e
        <3>1. copy'[f].columns = columns /\ copy'[f].rows = rows
            BY <2>1 DEF Invariant, TypeOK, LoadForEdit
        <3> QED
            BY <1>2, <1>3, <1>4, <3>1
    <2>2. CASE f # e
        <3>1. pc[f] = "loaded" /\ copy'[f] = copy[f]
            BY <2>2 DEF Invariant, TypeOK, LoadForEdit
        <3> QED
            BY <3>1 DEF Invariant, CopiesAreOfOneSave
    <2> QED
        BY <2>1, <2>2
<1>8. FormsHaveSeen'
    BY DEF Invariant, FormsHaveSeen, LoadForEdit, dbVars
<1> QED
    BY <1>5, <1>6, <1>7, <1>8 DEF Invariant

\* A handler or an owner that gives up, or an owner who returns.
LEMMA TurnKeeps ==
    ASSUME Invariant, NEW e \in Edits, ReturnToForm(e) \/ RejectForm(e) \/ FailEdit(e)
    PROVE  Invariant'
<1>1. UNCHANGED <<dbVars, form, hidden, copy, toggle, seen>>
    BY DEF ReturnToForm, RejectForm, FailEdit
<1>2. \E p \in {"form", "failed"} : pc' = [pc EXCEPT ![e] = p]
    BY DEF ReturnToForm, RejectForm, FailEdit
<1>3. TypeOK'
    BY <1>1, <1>2 DEF Invariant, TypeOK, dbVars
<1>4. FormsHaveSeen'
    BY <1>1 DEF Invariant, FormsHaveSeen, dbVars
<1>5. \A f \in Edits : pc'[f] = "loaded" => pc[f] = "loaded" /\ copy'[f] = copy[f]
    BY <1>1, <1>2 DEF Invariant, TypeOK
<1> QED
    BY <1>1, <1>3, <1>4, <1>5, QuietStep DEF dbVars

\* A save: the form replaces what was stored, and older copies stay older.
LEMMA SaveKeeps == ASSUME Invariant, NEW e \in Edits, SaveEdit(e) PROVE Invariant'
<1>1. /\ columns' = form[e].columns
      /\ rows' = RowsOf(saves + 1, form[e].mappings)
      /\ form[e] \in Documents
    BY SaveReplaces
<1>2. saves' = saves + 1 /\ saves \in Nat /\ saves' \in Nat
    BY DEF Invariant, TypeOK, SaveEdit, Write
<1>3. isActive' \in BOOLEAN
    BY DEF Invariant, TypeOK, SaveEdit, Write
<1>4. PICK p \in {"saved", "failed"} : pc' = [pc EXCEPT ![e] = p]
    BY DEF SaveEdit, Write
<1>5. UNCHANGED <<form, hidden, copy, toggle>>
    BY DEF SaveEdit, Write
<1>6. seen' = [f \in Edits |-> seen[f] \cup {isActive'}]
    BY DEF SaveEdit, Write, Observe
<1>7. TypeOK'
    <2>1. form[e].columns \in [Columns -> Contents] /\ form[e].mappings \in SUBSET Contents
        BY <1>1, DocumentsAssumption DEF Definition
    <2>2. seen' \in [Edits -> SUBSET BOOLEAN]
        BY <1>3, <1>6 DEF Invariant, TypeOK
    <2>3. pc' \in [Edits -> {"none", "form", "loaded", "saved", "failed"}]
        BY <1>4 DEF Invariant, TypeOK
    <2> QED
        BY <1>1, <1>2, <1>3, <1>5, <2>1, <2>2, <2>3 DEF Invariant, TypeOK
<1>8. Stored'
    BY <1>1, <1>2 DEF Stored
<1>9. CopiesAreOfOneSave'
    <2> SUFFICES ASSUME NEW f \in Edits, pc'[f] = "loaded"
                 PROVE  \E n \in Nat, m \in SUBSET Contents :
                            /\ m # {} /\ n <= saves'
                            /\ copy'[f].rows = RowsOf(n, m)
                            /\ n = saves' => copy'[f].columns = columns' /\ copy'[f].rows = rows'
        BY DEF CopiesAreOfOneSave
    <2>1. pc[f] = "loaded" /\ copy'[f] = copy[f]
        BY <1>4, <1>5 DEF Invariant, TypeOK
    <2>2. PICK n \in Nat, m \in SUBSET Contents :
              m # {} /\ n <= saves /\ copy[f].rows = RowsOf(n, m)
        BY <2>1 DEF Invariant, CopiesAreOfOneSave
    <2>3. n <= saves' /\ n # saves'
        BY <1>2, <2>2
    <2> QED
        BY <2>1, <2>2, <2>3
<1>10. FormsHaveSeen'
    BY <1>5, <1>6 DEF Invariant, FormsHaveSeen
<1> QED
    BY <1>7, <1>8, <1>9, <1>10 DEF Invariant

\* The buttons touch nothing but isActive.
LEMMA ToggleKeeps == ASSUME Invariant, NEW t \in Toggles, ToggleStep(t) PROVE Invariant'
<1>1. CASE LoadToggle(t)
    <2>1. TypeOK'
        BY <1>1 DEF Invariant, TypeOK, LoadToggle, dbVars, editVars
    <2>2. FormsHaveSeen'
        BY <1>1 DEF Invariant, FormsHaveSeen, LoadToggle, dbVars, editVars
    <2> QED
        BY <1>1, <2>1, <2>2, QuietStep DEF LoadToggle, dbVars, editVars
<1>2. CASE SaveToggle(t)
    <2>1. isActive' \in BOOLEAN
        BY <1>2 DEF Invariant, TypeOK, SaveToggle
    <2>2. seen' \in [Edits -> SUBSET BOOLEAN]
        BY <1>2, <2>1 DEF Invariant, TypeOK, SaveToggle, Observe
    <2>3. TypeOK'
        BY <1>2, <2>1, <2>2 DEF Invariant, TypeOK, SaveToggle, editVars
    <2>4. FormsHaveSeen'
        BY <1>2 DEF Invariant, FormsHaveSeen, SaveToggle, Observe, editVars
    <2> QED
        BY <1>2, <2>3, <2>4, QuietStep DEF SaveToggle, editVars
<1>3. CASE FailToggle(t)
    <2>1. TypeOK'
        BY <1>3 DEF Invariant, TypeOK, FailToggle, dbVars, editVars
    <2>2. FormsHaveSeen'
        BY <1>3 DEF Invariant, FormsHaveSeen, FailToggle, dbVars, editVars
    <2> QED
        BY <1>3, <2>1, <2>2, QuietStep DEF FailToggle, dbVars, editVars
<1> QED
    BY <1>1, <1>2, <1>3 DEF ToggleStep

LEMMA NextKeeps == ASSUME Invariant, [Next]_vars PROVE Invariant'
<1>1. CASE \E e \in Edits : EditStep(e)
    BY <1>1, OpenKeeps, LoadKeeps, TurnKeeps, SaveKeeps DEF EditStep
<1>2. CASE \E t \in Toggles : ToggleStep(t)
    BY <1>2, ToggleKeeps
<1>3. CASE UNCHANGED vars
    <2>1. TypeOK' /\ FormsHaveSeen'
        BY <1>3 DEF Invariant, TypeOK, FormsHaveSeen, vars, dbVars, editVars
    <2> QED
        BY <1>3, <2>1, QuietStep DEF vars, dbVars, editVars
<1> QED
    BY <1>1, <1>2, <1>3 DEF Next

LEMMA InvariantHolds == Spec => []Invariant
<1> QED
    BY InitInvariant, NextKeeps, PTL DEF Spec

-----------------------------------------------------------------------------
\* The rows stored are always those of one save.
THEOREM EditingTypes == Spec => []TypeOK
<1>1. Invariant => TypeOK
    BY DEF Invariant
<1> QED
    BY <1>1, InvariantHolds, PTL

\* However many edits overlap, the definition stored is one an owner wrote.
THEOREM DefinitionCoherent == Spec => []DefinitionIsCoherent
<1>1. ASSUME Invariant PROVE DefinitionIsCoherent
    <2>1. PICK d \in Documents : columns = d.columns /\ rows = RowsOf(saves, d.mappings)
        BY <1>1 DEF Invariant, Stored
    <2>2. {r[2] : r \in rows} = d.mappings
        BY <2>1, RowsOfSave
    <2>3. d = [columns |-> d.columns, mappings |-> d.mappings]
        BY DocumentsAssumption DEF Definition
    <2> QED
        BY <2>1, <2>2, <2>3 DEF DefinitionIsCoherent
<1> QED
    BY <1>1, InvariantHolds, PTL

\* Which edit, if any, a step saves.
LEMMA WhoSaves ==
    ASSUME Invariant, [Next]_vars, NEW e \in Edits, pc[e] = "loaded", saves' # saves, pc'[e] # pc[e]
    PROVE  SaveEdit(e)
<1>1. CASE \E f \in Edits : EditStep(f)
    <2>1. PICK f \in Edits : SaveEdit(f)
        BY <1>1 DEF EditStep, OpenForm, ReturnToForm, LoadForEdit, RejectForm, FailEdit, dbVars
    <2>2. f = e
        BY <2>1 DEF SaveEdit, Write, Invariant, TypeOK
    <2> QED
        BY <2>1, <2>2
<1>2. CASE \E t \in Toggles : ToggleStep(t)
    BY <1>2 DEF ToggleStep, LoadToggle, SaveToggle, FailToggle, dbVars
<1>3. CASE UNCHANGED vars
    BY <1>3 DEF vars, dbVars
<1> QED
    BY <1>1, <1>2, <1>3 DEF Next

\* No edit is saved over a change of the definition that it has not loaded.
THEOREM EditsInTurn == Spec => EditsApplyInTurn
<1>1. ASSUME Invariant, [Next]_vars, NEW e \in Edits, pc[e] = "loaded", saves' # saves, pc'[e] # pc[e]
      PROVE  copy[e].columns = columns /\ copy[e].rows = rows
    BY <1>1, WhoSaves, SaveReplaces
<1>2. Invariant /\ [Next]_vars =>
        [\A e \in Edits : (pc[e] = "loaded" /\ saves' # saves /\ pc'[e] # pc[e])
            => (copy[e].columns = columns /\ copy[e].rows = rows)]_vars
    BY <1>1
<1> QED
    BY <1>2, InvariantHolds, PTL DEF Spec, EditsApplyInTurn

\* An edit leaves the job on or off as it was at some time since its form was
\* rendered.
THEOREM EditActivity == Spec => EditKeepsActivity
<1>1. ASSUME Invariant, [Next]_vars, NEW e \in Edits, pc[e] = "loaded", saves' # saves, pc'[e] # pc[e]
      PROVE  isActive' \in seen[e]
    BY <1>1, WhoSaves DEF SaveEdit, Write, Invariant, FormsHaveSeen
<1>2. Invariant /\ [Next]_vars =>
        [\A e \in Edits : (pc[e] = "loaded" /\ saves' # saves /\ pc'[e] # pc[e])
            => isActive' \in seen[e]]_vars
    BY <1>1
<1> QED
    BY <1>2, InvariantHolds, PTL DEF Spec, EditKeepsActivity
=============================================================================

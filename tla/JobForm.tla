-------------------------------- MODULE JobForm --------------------------------
(***************************************************************************)
(* The script of the Create and Edit pages (etl-job-form.js) in one tab:   *)
(* the rows of the mapping table, their dragging, the inputs that a submit *)
(* posts, and the code editor, which is loaded from a CDN after the script *)
(* has run.  An event handler runs to its end before another begins, so it *)
(* is one action; what a handler leaves for later (a closure, the target   *)
(* of the editor, the row that is dragged) is a variable.                  *)
(***************************************************************************)
EXTENDS Naturals, FiniteSets, SequencesExt

CONSTANTS
    Types, None, CustomExpression, NeedParameter, Texts, Blank,  \* as in MappingList
    Nodes,     \* identities of rows
    NoNode,
    NoClosure,
    NoEditor,
    MaxRows    \* bounds the rows that the owner adds

ASSUME TypesAssumption ==
    /\ {None, CustomExpression} \subseteq Types
    /\ None # CustomExpression
    /\ CustomExpression \in NeedParameter /\ None \notin NeedParameter
ASSUME BlankAssumption == Blank \in Texts
ASSUME NodesAssumption == NoNode \notin Nodes

ASSUME NothingAssumption == NoClosure \notin Texts /\ NoEditor \notin Texts

VARIABLES
    rows,                \* tr.mapping-row, in the order of the document
    help,                \* the custom expression guide is visible
    drag,                \* the browser's drag of a row: "none", "over" the page, "dropped" on a row
    dragSource,
    monacoEditorReady,
    onMonacoReady,       \* the code in the closure that the page calls when Monaco is loaded
    editorInstance,      \* its text
    currentInputTarget,
    modal,               \* the editor is shown
    asked,               \* for properties: the row whose code is in the closure, till it is called
    opened,              \* for properties: what the editor shown was opened with
    page, stored         \* the form or another page; the mappings of the job

dragVars == <<drag, dragSource>>
monacoVars == <<monacoEditorReady, onMonacoReady, editorInstance, currentInputTarget, modal, asked, opened>>
serverVars == <<page, stored>>
elsewhere == <<monacoVars, serverVars>>
vars == <<rows, help, dragVars, monacoVars, serverVars>>

\* The inputs of a row all have its index in their names; isRequired is its box.
Row == [node : Nodes, index : Nat, order : Nat, type : Types, parameter : Texts,
        isRequired : BOOLEAN, button : BOOLEAN, readOnly : BOOLEAN]
Mapping == [order : Nat, type : Types, parameter : Texts, isRequired : BOOLEAN]
Item(m) == [type |-> m.type, parameter |-> m.parameter, isRequired |-> m.isRequired]
NotOpened == [code |-> Blank, from |-> NoNode, late |-> FALSE]
BlankMapping == [order |-> 0, type |-> None, parameter |-> Blank, isRequired |-> FALSE]

-----------------------------------------------------------------------------
\* The handlers' helpers.

SetRowIndexing(s) == [i \in DOMAIN s |-> [s[i] EXCEPT !.index = i - 1, !.order = i - 1]]

IsCustom(row) == row.type = CustomExpression

\* The second half of checkCustomExpressionSelection.
SetAccess(s) ==
    [i \in DOMAIN s |-> [s[i] EXCEPT !.button = IsCustom(s[i]), !.readOnly = IsCustom(s[i])]]

CheckCustomExpressionSelection(s) ==
    /\ rows' = SetAccess(s)
    /\ help' = \E i \in DOMAIN s : IsCustom(s[i])

\* A row from the template or from the server: no button, and inputs to type in.
Fresh(node, index, mapping) ==
    [node |-> node, index |-> index, order |-> mapping.order, type |-> mapping.type,
     parameter |-> mapping.parameter, isRequired |-> mapping.isRequired,
     button |-> FALSE, readOnly |-> FALSE]

NodesOf(s) == {s[i].node : i \in DOMAIN s}

\* A row that nothing refers to any more is no node of the document again.
Unused(s) == Nodes \ (NodesOf(s) \cup {currentInputTarget})

AddMappingRow(s, node) == SetRowIndexing(Append(s, Fresh(node, Len(s), BlankMapping)))

\* Mutant: a copy of row i is put there.
InsertClone(s, i, k) == InsertAt(s, k, s[i])

\* DOM: row i leaves its place and is put before the row at k, or at the end.
InsertBefore(s, i, k) ==
    IF i < k
    THEN SubSeq(s, 1, i - 1) \o SubSeq(s, i + 1, k - 1) \o <<s[i]>> \o SubSeq(s, k, Len(s))
    ELSE SubSeq(s, 1, k - 1) \o <<s[i]>> \o SubSeq(s, k, i - 1) \o SubSeq(s, i + 1, Len(s))

-----------------------------------------------------------------------------
\* The POST: MVC binds the items 0, 1, ... up to the first index that is missing,
\* each from the first input of its name.
HasIndex(s, k) == \E i \in DOMAIN s : s[i].index = k

BoundLength(s) ==
    CHOOSE n \in 0 .. Len(s) : ~ HasIndex(s, n) /\ \A k \in 0 .. n - 1 : HasIndex(s, k)

FirstWith(s, k) ==
    CHOOSE i \in DOMAIN s : s[i].index = k /\ \A j \in DOMAIN s : s[j].index = k => i <= j

\* The inputs named IsRequired that a row posts, in the order of the document:
\* the hidden "false", and after it the box, which is only posted when ticked.
RequiredInputs(row) == IF row.isRequired THEN <<FALSE, TRUE>> ELSE <<FALSE>>

Bind(s) ==
    [k \in 1 .. BoundLength(s) |->
        LET row == s[FirstWith(s, k - 1)]
        IN  [order |-> row.order, type |-> row.type, parameter |-> row.parameter,
             isRequired |-> Head(RequiredInputs(row))]]

\* Mutant: no look at ModelState.
AnyModelState(b) == TRUE

\* The binder of an enum refuses what is no member of it, as the "0" of None is.
ModelStateIsValid(b) == \A i \in DOMAIN b : b[i].type # None

\* OrderBy(x => x.Order) of BuildDomainMappings, which is stable.
Rank(b, i) ==
    Cardinality({j \in DOMAIN b : b[j].order < b[i].order \/ (b[j].order = b[i].order /\ j <= i)})
OrderBy(b) == [p \in DOMAIN b |-> b[CHOOSE i \in DOMAIN b : Rank(b, i) = p]]

\* A step with type None is left out; ModelState has refused such a form before.
Kept(m) == IF m.type = None THEN [m EXCEPT !.parameter = Blank] ELSE m

BuildDomainMappings(b) == [i \in DOMAIN OrderBy(b) |-> Kept(OrderBy(b)[i])]

\* TransformationStep.Create.
HasItsParameter(m) == m.type \in NeedParameter => m.parameter # Blank

-----------------------------------------------------------------------------
\* A page with these mappings, or one blank row, as these nodes; its script starts.
Show(mappings, nodes) ==
    LET shown == IF mappings = <<>> THEN <<BlankMapping>> ELSE mappings
    IN  /\ CheckCustomExpressionSelection(
              SetRowIndexing([i \in DOMAIN shown |-> Fresh(nodes[i], i - 1, shown[i])]))
        /\ page' = "form"

ScriptStarts ==
    /\ drag' = "none" /\ dragSource' = NoNode
    /\ monacoEditorReady' = FALSE /\ onMonacoReady' = NoClosure
    /\ editorInstance' = NoEditor /\ currentInputTarget' = NoNode
    /\ modal' = FALSE /\ asked' = NoNode /\ opened' = NotOpened

\* GET Create.
Init ==
    /\ \E node \in Nodes : rows = <<Fresh(node, 0, BlankMapping)>>
    /\ help = FALSE
    /\ page = "form"
    /\ stored = <<>>
    /\ drag = "none" /\ dragSource = NoNode
    /\ monacoEditorReady = FALSE /\ onMonacoReady = NoClosure
    /\ editorInstance = NoEditor /\ currentInputTarget = NoNode
    /\ modal = FALSE /\ asked = NoNode /\ opened = NotOpened

\* The owner has the form at hand: the editor covers it, and a drag takes the
\* mouse and the keyboard.
AtForm == page = "form" /\ ~ modal /\ drag = "none"

\* GET Edit, or Create before the first save: after a save, or a reload.
OpenPage ==
    /\ \E nodes \in [1 .. (IF stored = <<>> THEN 1 ELSE Len(stored)) -> Nodes] :
          /\ \A i, j \in DOMAIN nodes : nodes[i] = nodes[j] => i = j
          /\ Show(stored, nodes)
    /\ ScriptStarts
    /\ UNCHANGED stored

ClickAdd ==
    /\ AtForm
    /\ Len(rows) < MaxRows
    /\ \E node \in Unused(rows) : rows' = AddMappingRow(rows, node)
    /\ UNCHANGED <<help, dragVars, elsewhere>>

\* Mutant: the names are left as they were.
ClickRemoveOnly(i) ==
    /\ AtForm
    /\ \E node \in Unused(rows) :
          CheckCustomExpressionSelection(
              IF Len(rows) = 1 THEN AddMappingRow(<<>>, node) ELSE RemoveAt(rows, i))
    /\ UNCHANGED <<dragVars, elsewhere>>

\* Mutant: like the Add button, without a look at the types that are left.
ClickRemoveUnchecked(i) ==
    /\ AtForm
    /\ \E node \in Unused(rows) :
          rows' = SetRowIndexing(
              IF Len(rows) = 1 THEN AddMappingRow(<<>>, node) ELSE RemoveAt(rows, i))
    /\ UNCHANGED <<help, dragVars, elsewhere>>

ClickRemove(i) ==
    /\ AtForm
    /\ \E node \in Unused(rows) :
          CheckCustomExpressionSelection(SetRowIndexing(
              IF Len(rows) = 1 THEN AddMappingRow(<<>>, node) ELSE RemoveAt(rows, i)))
    /\ UNCHANGED <<dragVars, elsewhere>>

\* A select fires change; so does the script's listener on the table.
ChangeType(i) ==
    /\ AtForm
    /\ \E t \in Types : CheckCustomExpressionSelection([rows EXCEPT ![i].type = t])
    /\ UNCHANGED <<dragVars, elsewhere>>

TypeParameter(i) ==
    /\ AtForm
    /\ ~ rows[i].readOnly
    /\ \E p \in Texts : rows' = [rows EXCEPT ![i].parameter = p]
    /\ UNCHANGED <<help, dragVars, elsewhere>>

TickRequired(i) ==
    /\ AtForm
    /\ rows' = [rows EXCEPT ![i].isRequired = ~ rows[i].isRequired]
    /\ UNCHANGED <<help, dragVars, elsewhere>>

DragStart(i) ==
    /\ AtForm
    /\ drag' = "over"
    /\ dragSource' = rows[i].node
    /\ UNCHANGED <<rows, help, elsewhere>>

\* Mutant: always before the row it is dropped on.
PlaceBefore(source, target) == InsertBefore(rows, source, target)

\* Below the target when it comes from above, above it otherwise.
Place(source, target) ==
    IF source < target
    THEN InsertBefore(rows, source, target + 1)
    ELSE InsertBefore(rows, source, target)

\* On row i, of a row or of something else that the owner drags.
Drop(i) ==
    /\ page = "form" /\ ~ modal /\ drag # "dropped"
    /\ IF dragSource \in {NoNode, rows[i].node}
       THEN UNCHANGED rows
       ELSE \E source \in DOMAIN rows :
               /\ rows[source].node = dragSource
               /\ rows' = SetRowIndexing(Place(source, i))
    /\ drag' = IF drag = "over" THEN "dropped" ELSE drag
    /\ UNCHANGED <<help, dragSource, elsewhere>>

\* Mutant: the script forgets to forget the row.
DragEndHolding ==
    /\ page = "form" /\ drag # "none"
    /\ drag' = "none"
    /\ rows' = SetRowIndexing(rows)
    /\ UNCHANGED <<help, dragSource, elsewhere>>

\* After a drop, or without one.
DragEnd ==
    /\ page = "form" /\ drag # "none"
    /\ drag' = "none"
    /\ dragSource' = NoNode
    /\ rows' = SetRowIndexing(rows)
    /\ UNCHANGED <<help, elsewhere>>

-----------------------------------------------------------------------------
\* The code editor.

\* Mutant: the editor of an earlier row is shown as it was left.
ShowEditorAsIs(code, node, late) ==
    /\ editorInstance' = IF editorInstance = NoEditor THEN code ELSE editorInstance
    /\ modal' = TRUE
    /\ opened' =
          IF editorInstance = NoEditor
          THEN [code |-> code, from |-> node, late |-> late]
          ELSE [code |-> editorInstance, from |-> node, late |-> late]

\* initMonacoAndShow; also setValue and show, when there is an editor.
ShowEditor(code, node, late) ==
    /\ editorInstance' = code
    /\ modal' = TRUE
    /\ opened' = [code |-> code, from |-> node, late |-> late]

\* Mutant: a click that waits already is not replaced.
KeepFirst(i) ==
    /\ onMonacoReady' = IF onMonacoReady = NoClosure THEN rows[i].parameter ELSE onMonacoReady
    /\ asked' = IF onMonacoReady = NoClosure THEN rows[i].node ELSE asked

\* The closure has the code as it is now.
KeepForMonaco(i) ==
    /\ onMonacoReady' = rows[i].parameter
    /\ asked' = rows[i].node

\* A click on { }.
OpenEditor(i) ==
    /\ AtForm
    /\ rows[i].button
    /\ currentInputTarget' = rows[i].node
    /\ IF editorInstance # NoEditor \/ monacoEditorReady
       THEN ShowEditor(rows[i].parameter, rows[i].node, FALSE) /\ UNCHANGED <<onMonacoReady, asked>>
       ELSE KeepForMonaco(i) /\ UNCHANGED <<editorInstance, modal, opened>>
    /\ UNCHANGED <<rows, help, dragVars, monacoEditorReady, serverVars>>

\* Mutant: the page only notes that Monaco is there.
MonacoLoadsQuietly ==
    /\ page = "form" /\ ~ monacoEditorReady
    /\ monacoEditorReady' = TRUE
    /\ UNCHANGED <<rows, help, dragVars, onMonacoReady, editorInstance, currentInputTarget, modal,
                   asked, opened, serverVars>>

\* The callback of require, at any time or never.
MonacoLoads ==
    /\ page = "form" /\ ~ monacoEditorReady
    /\ monacoEditorReady' = TRUE
    /\ IF onMonacoReady = NoClosure
       THEN UNCHANGED <<editorInstance, modal, opened>>
       ELSE ShowEditor(onMonacoReady, asked, TRUE)
    /\ asked' = NoNode
    /\ UNCHANGED <<rows, help, dragVars, onMonacoReady, currentInputTarget, serverVars>>

EditCode ==
    /\ modal
    /\ \E text \in Texts : editorInstance' = text
    /\ UNCHANGED <<rows, help, dragVars, monacoEditorReady, onMonacoReady, currentInputTarget, modal,
                   asked, opened, serverVars>>

CloseEditor ==
    /\ modal' = FALSE
    /\ opened' = NotOpened
    /\ UNCHANGED <<help, dragVars, monacoEditorReady, onMonacoReady, editorInstance,
                   currentInputTarget, asked, serverVars>>

\* Into the input of the row, which may have left the document.
SaveCode ==
    /\ modal
    /\ rows' = [i \in DOMAIN rows |->
                   IF rows[i].node = currentInputTarget
                   THEN [rows[i] EXCEPT !.parameter = editorInstance]
                   ELSE rows[i]]
    /\ CloseEditor

\* Cancel, the cross, Escape.
DismissEditor == modal /\ UNCHANGED rows /\ CloseEditor

-----------------------------------------------------------------------------
\* The POST of Create or Edit; submit indexes the rows once more.

Accept ==
    LET posted == Bind(SetRowIndexing(rows))
        mappings == BuildDomainMappings(posted)
    IN  /\ AtForm
        /\ ModelStateIsValid(posted)
        /\ \A i \in DOMAIN mappings : HasItsParameter(mappings[i])
        /\ stored' = mappings
        /\ page' = "left"
        /\ rows' = SetRowIndexing(rows)
        /\ ScriptStarts
        /\ UNCHANGED help

\* ModelState, or a DomainException: the page again, with what was posted.  Its
\* nodes are new; the old names do for them, now that the old page is gone.
Refuse ==
    /\ AtForm
    /\ Show(Bind(SetRowIndexing(rows)), [i \in DOMAIN rows |-> rows[i].node])
    /\ ScriptStarts
    /\ UNCHANGED stored

OnRow(i) ==
    \/ ClickRemove(i) \/ ChangeType(i) \/ TypeParameter(i) \/ TickRequired(i)
    \/ DragStart(i) \/ Drop(i) \/ OpenEditor(i)

Next ==
    \/ OpenPage \/ ClickAdd \/ DragEnd \/ MonacoLoads
    \/ EditCode \/ SaveCode \/ DismissEditor \/ Accept \/ Refuse
    \/ \E i \in DOMAIN rows : OnRow(i)

Spec == Init /\ [][Next]_vars

-----------------------------------------------------------------------------
\* The types; the rows are different nodes, and the page knows the row that is dragged.
TypeOK ==
    /\ rows \in Seq(Row)
    /\ \A i, j \in DOMAIN rows : rows[i].node = rows[j].node => i = j
    /\ help \in BOOLEAN
    /\ drag \in {"none", "over", "dropped"}
    /\ dragSource \in Nodes \cup {NoNode}
    /\ monacoEditorReady \in BOOLEAN
    /\ onMonacoReady \in Texts \cup {NoClosure}
    /\ editorInstance \in Texts \cup {NoEditor}
    /\ currentInputTarget \in Nodes \cup {NoNode}
    /\ modal \in BOOLEAN
    /\ asked \in Nodes \cup {NoNode}
    /\ opened \in [code : Texts, from : Nodes \cup {NoNode}, late : BOOLEAN]
    /\ page \in {"form", "left"}
    /\ stored \in Seq(Mapping)

Shown == [i \in DOMAIN rows |-> Item(rows[i])]

\* What a POST leaves of a row that is shown: everything but the tick of its box.
Posted(item) == [item EXCEPT !.isRequired = FALSE]

\* Whatever has been added, removed and dragged, and before any submit, what the
\* inputs would post is the rows as they are shown, none lost and none out of
\* order, each with its type and parameter.  Their Required boxes post nothing
\* that is heard, which RequiredIsStored is about.
PostedIsShown ==
    LET posted == OrderBy(Bind(rows))
    IN  [i \in DOMAIN posted |-> Item(posted[i])] = [i \in DOMAIN rows |-> Posted(Shown[i])]

\* _JobForm.cshtml:101 and 121, "Required" over a box, and PHASE4-ETL-SERVICES.md:44
\* "Validates required mapped fields": a mapping whose box is ticked when the
\* form is saved is stored as a required one.
RequiredIsStored ==
    page = "left" => \A i \in DOMAIN rows : stored[i].isRequired = rows[i].isRequired

\* The table never runs out of rows.
NeverEmpty == rows # <<>>

\* The guide is shown while there is an expression, and a row has its button and
\* its input closed to typing exactly while its own type is CustomExpression.
AccessFollowsType ==
    /\ help = (\E i \in DOMAIN rows : IsCustom(rows[i]))
    /\ \A i \in DOMAIN rows : rows[i].button = IsCustom(rows[i]) /\ rows[i].readOnly = IsCustom(rows[i])

\* A drop can only move the row that is being dragged: a file or a piece of text
\* dragged in later finds no row left over from an earlier drag.
DropsWhatIsDragged ==
    IF drag = "none"
    THEN dragSource = NoNode
    ELSE \E i \in DOMAIN rows : rows[i].node = dragSource

\* A row dropped on another takes its place, from above and from below, and the
\* row that was there makes room.
DropTakesThePlace ==
    [][\A i \in DOMAIN rows : (drag = "over" /\ Drop(i)) => rows'[i].node = dragSource]_vars

\* The code in the editor began as that of the row that Save writes to, also when
\* several buttons were clicked before Monaco was there.
EditorShowsTarget == modal => opened.from = currentInputTarget

\* A click on { } that has shown nothing yet has left a closure for Monaco.
NoClickIsLost == asked # NoNode => ~ monacoEditorReady /\ onMonacoReady # NoClosure

\* What a Save replaces is what the editor was opened with: the owner has seen it.
\* Only an editor that opened late, when Monaco was loaded, may be out of date.
SaveReplacesWhatWasSeen ==
    [][\A i \in DOMAIN rows :
          (SaveCode /\ ~ opened.late /\ rows[i].node = currentInputTarget)
          => rows[i].parameter = opened.code]_vars

\* The table is the owner's list of mappings, and a save stores it as it is seen,
\* but for the boxes; a row without transformation keeps the form from being saved.
Table == INSTANCE MappingList WITH
    list <- Shown,
    saved <- [i \in DOMAIN stored |-> Item(stored[i])]
ImplementsTable == Table!Spec
=============================================================================

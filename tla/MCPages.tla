--------------------------------- MODULE MCPages ---------------------------------
(***************************************************************************)
(* For TLC: the requests and the scripts of the pages.  Of JobEditing      *)
(* three definitions that share parts, so that a mix of two of them is     *)
(* none of the three.  The parts share no state, so each moves while the   *)
(* others rest.                                                            *)
(***************************************************************************)
EXTENDS JobEditing, ThemeToggle, ConfigHelp, CodeCompletions, OwnerRequests, TLC

CONSTANT start

VARIABLE part

Document(from, to, mappings) ==
    [columns |-> ("source" :> from @@ "destination" :> to), mappings |-> mappings]

MCDocuments == {Document("s1", "d1", {"m1"}), Document("s1", "d2", {"m1", "m2"}),
                Document("s2", "d2", {"m2"})}

Interchangeable == Permutations(Edits)

pageVars == <<part, vars, themeVars, helpVars, completionVars, ownerVars>>

PagesInit ==
    /\ part \in {"editing", "theme", "help", "completions", "owner"}
    \* A part that rests needs one of its starts; the preference and the place can
    \* change at once.
    /\ Init /\ ThemeInit /\ HelpInit /\ CompletionInit /\ OwnerInit
    /\ part # "editing" => columns["source"] = "s2"
    /\ ~ prefersDark /\ place = start

EditMoves ==
    part = "editing" /\ Next /\ UNCHANGED <<part, themeVars, helpVars, completionVars, ownerVars>>

ThemeMoves ==
    part = "theme" /\ ThemeNext /\ UNCHANGED <<part, vars, helpVars, completionVars, ownerVars>>

HelpMoves ==
    part = "help" /\ HelpNext /\ UNCHANGED <<part, vars, themeVars, completionVars, ownerVars>>

CompletionMoves ==
    part = "completions" /\ CompletionNext /\ UNCHANGED <<part, vars, themeVars, helpVars, ownerVars>>

OwnerMoves ==
    part = "owner" /\ OwnerNext /\ UNCHANGED <<part, vars, themeVars, helpVars, completionVars>>

PagesNext == EditMoves \/ ThemeMoves \/ HelpMoves \/ CompletionMoves \/ OwnerMoves

PagesSpec == PagesInit /\ [][PagesNext]_pageVars
=============================================================================

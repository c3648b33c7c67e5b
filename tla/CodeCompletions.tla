------------------------------ MODULE CodeCompletions ------------------------------
(***************************************************************************)
(* The completions of the code editor: the provider that etl-job-form.js   *)
(* registers with Monaco, and CodeEditorController behind it.  Several     *)
(* calls can be under way while the owner types on; each is a closure with *)
(* the code, the offset and the range it began with.                       *)
(***************************************************************************)
CONSTANTS
    Calls,         \* calls of the provider
    Places,        \* a code with a cursor in it
    MemberPlaces   \* those in a member access whose receiver has a type

ASSUME PlacesAssumption == MemberPlaces \subseteq Places

VARIABLES
    isCompletionRegistered,
    place,  \* the editor's code and cursor now
    call    \* each call: its phase, where it began, what the server sent, what it returned

completionVars == <<isCompletionRegistered, place, call>>

Idle(p) == [phase |-> "idle", began |-> p, body |-> {}, suggestions |-> {}]

-----------------------------------------------------------------------------
\* GetCompletions: the members of the receiver's type, or the names that every
\* expression has; nothing when the compiler throws.
Labels(p) == IF p \in MemberPlaces THEN {"members"} ELSE {"Value", "Row", "Math", "Convert"}

GetCompletions(p) == {Labels(p), {}}

\* Mutant: the range is read from the model when the answer is there.
SuggestionsNow(c, labels) == {[label |-> l, range |-> place] : l \in labels}

\* data.suggestions.map.
Suggestions(c, labels) == {[label |-> l, range |-> call[c].began] : l \in labels}

Returns(c, suggestions) ==
    /\ call' = [call EXCEPT ![c].phase = "returned", ![c].suggestions = suggestions]
    /\ UNCHANGED <<isCompletionRegistered, place>>

CompletionInit ==
    /\ isCompletionRegistered = FALSE
    /\ place \in Places
    /\ call = [c \in Calls |-> Idle(place)]

\* The first half of initMonacoAndShow.
Register ==
    /\ ~ isCompletionRegistered
    /\ isCompletionRegistered' = TRUE
    /\ UNCHANGED <<place, call>>

\* The owner types.
Type(p) == place' = p /\ UNCHANGED <<isCompletionRegistered, call>>

\* Monaco asks, after a dot or on Ctrl+Space: range, offset and code, up to the fetch.
ProvideCompletionItems(c) ==
    /\ isCompletionRegistered
    /\ call[c].phase \in {"idle", "returned"}
    /\ call' = [call EXCEPT ![c] = [Idle(place) EXCEPT !.phase = "fetching"]]
    /\ UNCHANGED <<isCompletionRegistered, place>>

\* The request is handled and its answer comes back.
Answer(c) ==
    /\ call[c].phase = "fetching"
    /\ \E labels \in GetCompletions(call[c].began) :
          call' = [call EXCEPT ![c].phase = "reading", ![c].body = labels]
    /\ UNCHANGED <<isCompletionRegistered, place>>

\* fetch rejects, or something on the way answers with an error.
FetchFails(c) == call[c].phase = "fetching" /\ Returns(c, {})

Read(c) == call[c].phase = "reading" /\ Returns(c, Suggestions(c, call[c].body))

\* response.json() rejects.
ReadFails(c) == call[c].phase = "reading" /\ Returns(c, {})

\* The browser drops the page with its calls.
LeavePage ==
    /\ isCompletionRegistered' = FALSE
    /\ call' = [c \in Calls |-> Idle(place)]
    /\ UNCHANGED place

Continues(c) == Answer(c) \/ FetchFails(c) \/ Read(c) \/ ReadFails(c)

CompletionNext ==
    \/ Register \/ LeavePage
    \/ \E p \in Places : Type(p)
    \/ \E c \in Calls : ProvideCompletionItems(c) \/ Continues(c)

-----------------------------------------------------------------------------
\* What a call returns was computed for the code it was asked about and is to be put
\* where the cursor was then, however answers overtake each other and whatever was
\* typed meanwhile; otherwise it returns nothing.
ReturnsWhatWasAsked ==
    \A c \in Calls : \A s \in call[c].suggestions :
        s.range = call[c].began /\ s.label \in Labels(call[c].began)
=============================================================================

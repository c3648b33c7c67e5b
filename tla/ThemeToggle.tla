------------------------------- MODULE ThemeToggle -------------------------------
(***************************************************************************)
(* The theme of the pages in several tabs of one browser (site.js and the  *)
(* script in the head of _Layout.cshtml): the attribute of the document,   *)
(* the icon of the toggle, and the choice in localStorage, which all tabs  *)
(* share and the browser may refuse.                                       *)
(***************************************************************************)
CONSTANTS
    Tabs,
    NoTheme   \* nothing stored, or the attribute not set

VARIABLES
    storedTheme,  \* localStorage "theme"
    prefersDark,  \* the media query
    attribute,    \* data-bs-theme of each tab's document
    icon,         \* "sun" offers light, "moon" dark
    phase,        \* "parsing" till DOMContentLoaded, then "ready"
    chosen,       \* for properties: what the last toggle that was stored has shown
    refused       \* for properties: the tab's last toggle was not stored

themeVars == <<storedTheme, prefersDark, attribute, icon, phase, chosen, refused>>

Themes == {"light", "dark"}

ASSUME NoThemeAssumption == NoTheme \notin Themes

\* getAttribute(...) || 'light'; Bootstrap shows a page without the attribute as light.
CurrentTheme(tab) == IF attribute[tab] = NoTheme THEN "light" ELSE attribute[tab]

IconFor(theme) == IF theme = "dark" THEN "sun" ELSE "moon"

Opposite(theme) == IF theme = "dark" THEN "light" ELSE "dark"

-----------------------------------------------------------------------------
\* Mutant: a dark system is followed whatever is stored.
DarkPreferred == storedTheme = "dark" \/ prefersDark

\* The condition of the script in the head.
DarkOnLoad == storedTheme = "dark" \/ (storedTheme = NoTheme /\ prefersDark)

\* The document as its head script leaves it; the server sends the moon.
Parsed(tab, dark) ==
    /\ attribute' = [attribute EXCEPT ![tab] = IF dark THEN "dark" ELSE NoTheme]
    /\ icon' = [icon EXCEPT ![tab] = "moon"]
    /\ phase' = [phase EXCEPT ![tab] = "parsing"]
    /\ refused' = [refused EXCEPT ![tab] = FALSE]
    /\ UNCHANGED <<storedTheme, prefersDark, chosen>>

Navigate(tab) == Parsed(tab, DarkOnLoad)

\* localStorage throws in the head: the script ends before setAttribute.
NavigateRefused(tab) == Parsed(tab, FALSE)

\* Mutant: the icon of the page that the server sent stays.
KeepIcon(tab) ==
    /\ phase[tab] = "parsing"
    /\ phase' = [phase EXCEPT ![tab] = "ready"]
    /\ UNCHANGED <<storedTheme, prefersDark, attribute, icon, chosen, refused>>

DOMContentLoaded(tab) ==
    /\ phase[tab] = "parsing"
    /\ phase' = [phase EXCEPT ![tab] = "ready"]
    /\ icon' = [icon EXCEPT ![tab] = IconFor(CurrentTheme(tab))]
    /\ UNCHANGED <<storedTheme, prefersDark, attribute, chosen, refused>>

Click(tab) ==
    /\ phase[tab] = "ready"
    /\ attribute' = [attribute EXCEPT ![tab] = Opposite(CurrentTheme(tab))]
    /\ UNCHANGED <<prefersDark, phase>>

Toggle(tab) ==
    LET newTheme == Opposite(CurrentTheme(tab))
    IN  /\ Click(tab)
        /\ storedTheme' = newTheme
        /\ icon' = [icon EXCEPT ![tab] = IconFor(newTheme)]
        /\ chosen' = newTheme
        /\ refused' = [refused EXCEPT ![tab] = FALSE]

\* setItem throws after setAttribute and before updateThemeIcon.
ToggleRefused(tab) ==
    /\ Click(tab)
    /\ refused' = [refused EXCEPT ![tab] = TRUE]
    /\ UNCHANGED <<storedTheme, icon, chosen>>

\* The owner's system changes, or its browser forgets the site.
SystemChanges ==
    /\ prefersDark' = ~ prefersDark
    /\ UNCHANGED <<storedTheme, attribute, icon, phase, chosen, refused>>

StorageCleared ==
    /\ storedTheme' = NoTheme
    /\ chosen' = NoTheme
    /\ UNCHANGED <<prefersDark, attribute, icon, phase, refused>>

ThemeInit ==
    /\ storedTheme = NoTheme
    /\ prefersDark \in BOOLEAN
    /\ attribute = [tab \in Tabs |-> IF DarkOnLoad THEN "dark" ELSE NoTheme]
    /\ icon = [tab \in Tabs |-> "moon"]
    /\ phase = [tab \in Tabs |-> "parsing"]
    /\ chosen = NoTheme
    /\ refused = [tab \in Tabs |-> FALSE]

ThemeNext ==
    \/ SystemChanges \/ StorageCleared
    \/ \E tab \in Tabs :
          \/ Navigate(tab) \/ NavigateRefused(tab) \/ DOMContentLoaded(tab)
          \/ Toggle(tab) \/ ToggleRefused(tab)

-----------------------------------------------------------------------------
\* A page that is ready offers the other theme than the one it shows, in every tab,
\* whatever the others did; only a toggle that localStorage refused leaves the icon behind.
IconMatchesTheme ==
    \A tab \in Tabs :
        phase[tab] = "ready" /\ ~ refused[tab] => icon[tab] = IconFor(CurrentTheme(tab))

\* A page opens in what the owner chose last, in whatever tab that was and whatever
\* the system prefers.
OpensAsChosen ==
    [][\A tab \in Tabs :
          Navigate(tab) /\ chosen # NoTheme
          => (IF attribute'[tab] = NoTheme THEN "light" ELSE attribute'[tab]) = chosen]_themeVars
=============================================================================

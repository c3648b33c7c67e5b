------------------------------- MODULE PageProofs -------------------------------
(***************************************************************************)
(* The smaller scripts of the pages and the profile of an owner, for any   *)
(* tabs, calls, requests, jobs and runs.                                   *)
(***************************************************************************)
EXTENDS ThemeToggle, ConfigHelp, CodeCompletions, OwnerRequests,
        FiniteSetTheorems, SequenceTheorems, WellFoundedInduction, TLAPS

-----------------------------------------------------------------------------
(* The theme *)

ThemeSpec == ThemeInit /\ [][ThemeNext]_themeVars

ThemeTypes ==
    /\ storedTheme \in Themes \cup {NoTheme}
    /\ attribute \in [Tabs -> Themes \cup {NoTheme}]
    /\ icon \in [Tabs -> {"sun", "moon"}]
    /\ phase \in [Tabs -> {"parsing", "ready"}]
    /\ refused \in [Tabs -> BOOLEAN]

\* What was toggled last is what is stored.
ThemeInv == ThemeTypes /\ IconMatchesTheme /\ chosen = storedTheme

LEMMA ThemeStep == ThemeInv /\ [ThemeNext]_themeVars => ThemeInv'
<1> SUFFICES ASSUME ThemeInv, [ThemeNext]_themeVars
             PROVE  ThemeInv'
    OBVIOUS
<1> USE NoThemeAssumption DEF ThemeInv, ThemeTypes, Themes
<1>1. CASE UNCHANGED themeVars
    BY <1>1 DEF themeVars, IconMatchesTheme, CurrentTheme
<1>2. CASE SystemChanges \/ StorageCleared
    BY <1>2 DEF SystemChanges, StorageCleared, IconMatchesTheme, CurrentTheme
<1>3. ASSUME NEW tab \in Tabs, NEW dark \in BOOLEAN, Parsed(tab, dark)
      PROVE  ThemeInv'
    <2>1. ThemeTypes' /\ (chosen = storedTheme)'
        BY <1>3 DEF Parsed
    <2>2. \A other \in Tabs : phase'[other] = "ready" =>
              /\ other # tab
              /\ phase[other] = "ready" /\ refused'[other] = refused[other]
              /\ icon'[other] = icon[other] /\ attribute'[other] = attribute[other]
        BY <1>3 DEF Parsed
    <2> QED
        BY <2>1, <2>2 DEF IconMatchesTheme, CurrentTheme
<1>4. ASSUME NEW tab \in Tabs, DOMContentLoaded(tab)
      PROVE  ThemeInv'
    <2>1. icon'[tab] = IconFor(CurrentTheme(tab)) /\ attribute' = attribute /\ refused' = refused
        BY <1>4 DEF DOMContentLoaded
    <2>2. \A other \in Tabs \ {tab} : icon'[other] = icon[other] /\ phase'[other] = phase[other]
        BY <1>4 DEF DOMContentLoaded
    <2>3. ThemeTypes' /\ (chosen = storedTheme)'
        BY <1>4 DEF DOMContentLoaded, IconFor
    <2> QED
        BY <2>1, <2>2, <2>3 DEF IconMatchesTheme, CurrentTheme
<1>5. ASSUME NEW tab \in Tabs, Toggle(tab)
      PROVE  ThemeInv'
    <2> DEFINE newTheme == Opposite(CurrentTheme(tab))
    <2>1. newTheme \in Themes
        BY DEF Opposite
    <2>2. /\ attribute'[tab] = newTheme /\ icon'[tab] = IconFor(newTheme)
          /\ \A other \in Tabs \ {tab} :
                /\ icon'[other] = icon[other] /\ attribute'[other] = attribute[other]
                /\ refused'[other] = refused[other] /\ phase'[other] = phase[other]
        BY <1>5 DEF Toggle, Click
    <2>3. ThemeTypes' /\ (chosen = storedTheme)'
        BY <1>5, <2>1 DEF Toggle, Click, IconFor
    <2> QED
        BY <2>1, <2>2, <2>3 DEF IconMatchesTheme, CurrentTheme
<1>6. ASSUME NEW tab \in Tabs, ToggleRefused(tab)
      PROVE  ThemeInv'
    <2>1. /\ refused'[tab] /\ phase' = phase /\ icon' = icon
          /\ \A other \in Tabs \ {tab} :
                attribute'[other] = attribute[other] /\ refused'[other] = refused[other]
        BY <1>6 DEF ToggleRefused, Click
    <2>2. ThemeTypes' /\ (chosen = storedTheme)'
        BY <1>6 DEF ToggleRefused, Click, Opposite
    <2> QED
        BY <2>1, <2>2 DEF IconMatchesTheme, CurrentTheme
<1>7. \A tab \in Tabs : Navigate(tab) => Parsed(tab, DarkOnLoad) /\ DarkOnLoad \in BOOLEAN
    BY DEF Navigate, DarkOnLoad, DarkPreferred
<1> QED
    BY <1>1, <1>2, <1>3, <1>4, <1>5, <1>6, <1>7 DEF ThemeNext, NavigateRefused

LEMMA ThemeStarts == ThemeInit => ThemeInv
BY DEF ThemeInit, ThemeInv, ThemeTypes, Themes, IconMatchesTheme

\* However tabs toggle, load and are refused the storage, a ready page that was not
\* refused offers the theme it does not show.
THEOREM IconsCorrect == ThemeSpec => []IconMatchesTheme
BY ThemeStarts, ThemeStep, PTL DEF ThemeSpec, ThemeInv

\* A page opens in the theme of the last toggle that was stored, in whatever tab.
THEOREM ThemeKept == ThemeSpec => OpensAsChosen
<1>1. ASSUME ThemeInv, NEW tab \in Tabs, Navigate(tab), chosen # NoTheme
      PROVE  (IF attribute'[tab] = NoTheme THEN "light" ELSE attribute'[tab]) = chosen
    <2>1. attribute'[tab] = IF DarkOnLoad THEN "dark" ELSE NoTheme
        BY <1>1 DEF Navigate, Parsed, ThemeInv, ThemeTypes
    <2>2. DarkOnLoad <=> chosen = "dark"
        BY <1>1 DEF DarkOnLoad, ThemeInv
    <2>3. chosen \in {"light", "dark"}
        BY <1>1 DEF ThemeInv, ThemeTypes, Themes
    <2> QED
        BY <2>1, <2>2, <2>3, NoThemeAssumption DEF Themes
<1>2. ThemeInv /\ [ThemeNext]_themeVars =>
        [\A tab \in Tabs :
            Navigate(tab) /\ chosen # NoTheme
            => (IF attribute'[tab] = NoTheme THEN "light" ELSE attribute'[tab]) = chosen]_themeVars
    BY <1>1
<1> QED
    BY <1>2, ThemeStarts, ThemeStep, PTL DEF ThemeSpec, OpensAsChosen

-----------------------------------------------------------------------------
(* The examples of the configurations *)

HelpSpec == HelpInit /\ [][HelpNext]_helpVars

ExamplesShown ==
    /\ source \in SourceTypes /\ destination \in DestinationTypes
    /\ sourceOutput = SourceExamples[source]
    /\ destinationOutput = DestinationExamples[destination]

\* A text that was copied holds what an example of that type holds.
Copied(sText, sCopied, dText, dCopied) ==
    /\ sCopied \in SourceTypes => sText = SourceExamples[sCopied]
    /\ dCopied \in DestinationTypes => dText = DestinationExamples[dCopied]

HelpInv ==
    /\ ExamplesShown
    /\ Copied(sourceText, sourceCopied, destinationText, destinationCopied)
    /\ job # NoJob =>
          /\ job.source \in SourceTypes /\ job.destination \in DestinationTypes
          /\ Copied(job.sourceText, job.sourceCopied, job.destinationText, job.destinationCopied)

LEMMA HelpStep == HelpInv /\ [HelpNext]_helpVars => HelpInv'
<1> SUFFICES ASSUME HelpInv, [HelpNext]_helpVars
             PROVE  HelpInv'
    OBVIOUS
<1> USE DEF HelpInv, ExamplesShown, Copied
<1>1. CASE UNCHANGED helpVars
    BY <1>1 DEF helpVars, exampleVars, textVars, savedVars
<1>2. ASSUME NEW s \in SourceTypes, SelectSource(s)
      PROVE  HelpInv'
    BY <1>2 DEF SelectSource, RenderExamples, textVars, savedVars
<1>3. ASSUME NEW d \in DestinationTypes, SelectDestination(d)
      PROVE  HelpInv'
    BY <1>3 DEF SelectDestination, RenderExamples, textVars, savedVars
<1>4. CASE CopySource
    BY <1>4 DEF CopySource, exampleVars, savedVars
<1>5. CASE CopyDestination
    BY <1>5 DEF CopyDestination, exampleVars, savedVars
<1>6. CASE SaveForm
    BY <1>6 DEF SaveForm, exampleVars, textVars
<1>7. CASE SaveRefused
    BY <1>7 DEF SaveRefused, FormOpens, RenderExamples
<1>8. CASE EditStored
    BY <1>8 DEF EditStored, FormOpens, RenderExamples
<1> QED
    BY <1>1, <1>2, <1>3, <1>4, <1>5, <1>6, <1>7, <1>8 DEF HelpNext

LEMMA HelpStarts == HelpInit => HelpInv
BY DEF HelpInit, HelpInv, ExamplesShown, Copied, SourceTypes, DestinationTypes

\* Every property of an example of the selected types is one that is read.
THEOREM ExamplesRead == HelpSpec => []ExampleIsRead
<1>1. HelpInv => ExampleIsRead
    BY DEF HelpInv, ExamplesShown, ExampleIsRead, SourceExamples, DestinationExamples,
           SourceReads, DestinationReads, SourceTypes, DestinationTypes
<1> QED
    BY <1>1, HelpStarts, HelpStep, PTL DEF HelpSpec

\* A job made of the examples of its types starts, whatever was selected on the way.
THEOREM ExamplesStart == HelpSpec => []CopiedExampleStarts
<1>1. ASSUME HelpInv, job # NoJob,
             job.sourceCopied = job.source, job.destinationCopied = job.destination
      PROVE  Starts
    <2>1. SourceNeeds(job.source) \subseteq job.sourceText
        <3>1. job.source \in SourceTypes /\ job.sourceText = SourceExamples[job.source]
            BY <1>1 DEF HelpInv, Copied
        <3> QED
            BY <3>1
            DEF SourceTypes, SourceExamples, SourceNeeds, CsvNeeds, ExcelNeeds, SqlServerNeeds, RestApiNeeds
    <2>2. DestinationNeeds(job.strategy) \subseteq job.destinationText
        <3>1. /\ job.destination \in DestinationTypes
              /\ job.destinationText = DestinationExamples[job.destination]
            BY <1>1 DEF HelpInv, Copied
        <3> QED
            BY <3>1
            DEF DestinationTypes, DestinationExamples, DestinationNeeds, TableNeeds, UpsertNeeds
    <2> QED
        BY <2>1, <2>2 DEF Starts
<1>2. HelpInv => CopiedExampleStarts
    BY <1>1 DEF CopiedExampleStarts
<1> QED
    BY <1>2, HelpStarts, HelpStep, PTL DEF HelpSpec

-----------------------------------------------------------------------------
(* The completions *)

CompletionSpec == CompletionInit /\ [][CompletionNext]_completionVars

Names == {"members", "Value", "Row", "Math", "Convert"}

CallRecord ==
    [phase : {"idle", "fetching", "reading", "returned"}, began : Places,
     body : SUBSET Names, suggestions : SUBSET [label : Names, range : Places]]

CompletionInv ==
    /\ place \in Places
    /\ call \in [Calls -> CallRecord]
    /\ \A c \in Calls : call[c].phase = "reading" => call[c].body \subseteq Labels(call[c].began)
    /\ ReturnsWhatWasAsked

LEMMA CompletionStep == CompletionInv /\ [CompletionNext]_completionVars => CompletionInv'
<1> SUFFICES ASSUME CompletionInv, [CompletionNext]_completionVars
             PROVE  CompletionInv'
    OBVIOUS
<1> USE DEF CompletionInv
<1>1. CASE UNCHANGED completionVars \/ Register \/ \E p \in Places : Type(p)
    BY <1>1 DEF completionVars, Register, Type, ReturnsWhatWasAsked
<1>2. Idle(place) \in CallRecord /\ [Idle(place) EXCEPT !.phase = "fetching"] \in CallRecord
    BY DEF Idle, CallRecord
<1>3. CASE LeavePage
    BY <1>2, <1>3 DEF LeavePage, Idle, ReturnsWhatWasAsked
<1>4. ASSUME NEW c \in Calls, NEW fresh \in CallRecord,
             call' = [call EXCEPT ![c] = fresh], place' = place,
             fresh.phase = "reading" => fresh.body \subseteq Labels(fresh.began),
             \A s \in fresh.suggestions : s.range = fresh.began /\ s.label \in Labels(fresh.began)
      PROVE  CompletionInv'
    <2>1. call' \in [Calls -> CallRecord] /\ call'[c] = fresh
        BY <1>4
    <2>2. \A other \in Calls \ {c} : call'[other] = call[other]
        BY <1>4
    <2> QED
        BY <1>4, <2>1, <2>2 DEF ReturnsWhatWasAsked
<1>5. ASSUME NEW c \in Calls, ProvideCompletionItems(c)
      PROVE  CompletionInv'
    BY <1>2, <1>4, <1>5 DEF ProvideCompletionItems, Idle
<1>6. ASSUME NEW c \in Calls, Answer(c)
      PROVE  CompletionInv'
    <2>1. PICK labels \in GetCompletions(call[c].began) :
              call' = [call EXCEPT ![c].phase = "reading", ![c].body = labels]
        BY <1>6 DEF Answer
    <2> DEFINE fresh == [call[c] EXCEPT !.phase = "reading", !.body = labels]
    <2>2. labels \subseteq Labels(call[c].began) /\ labels \subseteq Names
        <3>1. Labels(call[c].began) \subseteq Names
            BY DEF Labels, Names
        <3>2. labels = Labels(call[c].began) \/ labels = {}
            BY DEF GetCompletions
        <3> QED
            BY <3>1, <3>2
    <2>3. fresh \in CallRecord /\ fresh.body = labels /\ fresh.began = call[c].began
                /\ fresh.suggestions = call[c].suggestions
        BY <2>2 DEF CallRecord
    <2>4. call' = [call EXCEPT ![c] = fresh]
        BY <2>1 DEF CallRecord
    <2> HIDE DEF fresh
    <2> QED
        BY <1>4, <1>6, <2>2, <2>3, <2>4 DEF Answer, ReturnsWhatWasAsked
<1>7. ASSUME NEW c \in Calls, NEW suggestions \in SUBSET [label : Names, range : Places],
             Returns(c, suggestions),
             \A s \in suggestions : s.range = call[c].began /\ s.label \in Labels(call[c].began)
      PROVE  CompletionInv'
    <2> DEFINE fresh == [call[c] EXCEPT !.phase = "returned", !.suggestions = suggestions]
    <2>1. fresh \in CallRecord /\ fresh.phase = "returned" /\ fresh.began = call[c].began
                /\ fresh.suggestions = suggestions
        BY DEF CallRecord
    <2>2. call' = [call EXCEPT ![c] = fresh] /\ place' = place
        BY <1>7 DEF Returns, CallRecord
    <2> HIDE DEF fresh
    <2> QED
        BY <1>4, <1>7, <2>1, <2>2
<1>8. ASSUME NEW c \in Calls, FetchFails(c) \/ ReadFails(c)
      PROVE  CompletionInv'
    BY <1>7, <1>8 DEF FetchFails, ReadFails
<1>9. ASSUME NEW c \in Calls, Read(c)
      PROVE  CompletionInv'
    <2> DEFINE suggestions == Suggestions(c, call[c].body)
    <2>1. call[c].body \subseteq Labels(call[c].began) /\ call[c].body \subseteq Names
              /\ call[c].began \in Places
        BY <1>9 DEF Read, CallRecord
    <2>2. /\ suggestions \subseteq [label : Names, range : Places]
          /\ \A s \in suggestions : s.range = call[c].began /\ s.label \in Labels(call[c].began)
        BY <2>1 DEF Suggestions
    <2> QED
        BY <1>7, <1>9, <2>2 DEF Read
<1> QED
    BY <1>1, <1>3, <1>5, <1>6, <1>8, <1>9 DEF CompletionNext, Continues

LEMMA CompletionStarts == CompletionInit => CompletionInv
BY DEF CompletionInit, CompletionInv, Idle, CallRecord, ReturnsWhatWasAsked

\* For any number of calls, in whatever order they are answered.
THEOREM CompletionsCorrect == CompletionSpec => []ReturnsWhatWasAsked
BY CompletionStarts, CompletionStep, PTL DEF CompletionSpec, CompletionInv

-----------------------------------------------------------------------------
(* The profile and the dashboard *)

OwnerSpec == OwnerInit /\ [][OwnerNext]_ownerVars

Queries == {"total", "active", "succeeded", "failed", "recent"}
Phases == {"free", "arrived", "insert", "job", "page", "error"} \cup Queries

RequestRecords ==
    /\ DOMAIN request = Requests
    /\ \A r \in Requests :
          /\ DOMAIN request[r] = {"page", "phase", "owner", "shown", "jobsBefore", "hadProfile"}
          /\ DOMAIN request[r].shown = Queries
          /\ request[r].phase \in Phases

\* The unique index: one profile, once there is one.
OneProfile == profiles \in {<<>>, <<1>>}

\* A request that saw a profile does not insert one.
ProfileIsThere ==
    \A r \in Requests :
        /\ request[r].hadProfile => profiles # <<>>
        /\ request[r].hadProfile => request[r].phase \notin {"insert", "error"}

\* Every job is the profile's, and so is every request that is past the profile.
OneOwner ==
    /\ jobs \in Seq([owner : {1}, active : BOOLEAN])
    /\ \A r \in Requests : request[r].phase \in Queries \cup {"job"} => request[r].owner = 1

\* The jobs there were when a request began are there still, and are counted first.
JobsCounted ==
    \A r \in Requests :
        /\ request[r].jobsBefore \in 0 .. Len(jobs)
        /\ request[r].phase = "job" => request[r].page # "dashboard"
        /\ request[r].page = "dashboard"
              /\ request[r].phase \in {"active", "succeeded", "failed", "recent", "page"}
           => request[r].shown.total \in Nat /\ request[r].shown.total >= request[r].jobsBefore

OwnerInv == RequestRecords /\ OneProfile /\ ProfileIsThere /\ OneOwner /\ JobsCounted

\* One request changes, and keeps what the invariant says of each.
KeepsRequest(q) ==
    /\ DOMAIN q = {"page", "phase", "owner", "shown", "jobsBefore", "hadProfile"}
    /\ DOMAIN q.shown = Queries
    /\ q.phase \in Phases
    /\ q.hadProfile => profiles' # <<>>
    /\ q.hadProfile => q.phase \notin {"insert", "error"}
    /\ q.phase \in Queries \cup {"job"} => q.owner = 1
    /\ q.jobsBefore \in 0 .. Len(jobs')
    /\ q.phase = "job" => q.page # "dashboard"
    /\ q.page = "dashboard" /\ q.phase \in {"active", "succeeded", "failed", "recent", "page"}
       => q.shown.total \in Nat /\ q.shown.total >= q.jobsBefore

\* Profiles and jobs are only added.
OnlyMore ==
    /\ profiles' \in {<<>>, <<1>>} /\ (profiles # <<>> => profiles' # <<>>)
    /\ jobs' \in Seq([owner : {1}, active : BOOLEAN]) /\ Len(jobs') >= Len(jobs)

LEMMA OneRequest ==
    ASSUME OwnerInv, OnlyMore, NEW r \in Requests, DOMAIN request' = Requests,
           \A other \in Requests \ {r} : request'[other] = request[other],
           KeepsRequest(request'[r])
    PROVE  OwnerInv'
<1>1. Len(jobs) \in Nat /\ Len(jobs') \in Nat
    BY DEF OwnerInv, OneOwner, OnlyMore
<1>2. \A other \in Requests \ {r} : KeepsRequest(request'[other])
    BY <1>1 DEF OwnerInv, RequestRecords, ProfileIsThere, OneOwner, JobsCounted, OnlyMore, KeepsRequest
<1>3. \A other \in Requests : KeepsRequest(request'[other])
    BY <1>2
<1>4. RequestRecords' /\ ProfileIsThere'
    BY <1>3 DEF RequestRecords, ProfileIsThere, KeepsRequest
<1>5. OneProfile' /\ OneOwner'
    BY <1>3 DEF OneProfile, OneOwner, OnlyMore, KeepsRequest
<1>6. JobsCounted'
    BY <1>3 DEF JobsCounted, KeepsRequest
<1> QED
    BY <1>4, <1>5, <1>6 DEF OwnerInv

LEMMA BeginKeeps ==
    ASSUME OwnerInv, NEW r \in Requests, NEW p \in Pages, Begin(r, p)
    PROVE  OwnerInv'
<1> DEFINE q == [Free EXCEPT !.page = p, !.phase = "arrived", !.jobsBefore = Len(jobs),
                             !.hadProfile = profiles # <<>>]
<1>1. request' = [request EXCEPT ![r] = q] /\ UNCHANGED <<profiles, jobs>>
    BY DEF Begin
<1>2. OnlyMore
    BY <1>1 DEF OnlyMore, OwnerInv, OneProfile, OneOwner
<1>3. Len(jobs) \in Nat
    BY DEF OwnerInv, OneOwner
<1>4. KeepsRequest(q)
    <2>1. /\ DOMAIN q = {"page", "phase", "owner", "shown", "jobsBefore", "hadProfile"}
          /\ q.phase = "arrived" /\ q.shown = Unread /\ q.jobsBefore = Len(jobs)
        BY DEF Free
    <2>2. q.hadProfile <=> profiles # <<>>
        BY DEF Free
    <2>3. DOMAIN Unread = Queries
        BY DEF Unread, Queries
    <2>4. "arrived" \in Phases /\ "arrived" \notin Queries
        BY DEF Phases, Queries
    <2> HIDE DEF q
    <2> QED
        BY <1>1, <1>3, <2>1, <2>2, <2>3, <2>4 DEF KeepsRequest
<1> QED
    <2>1. DOMAIN request' = Requests /\ request'[r] = q
            /\ \A other \in Requests \ {r} : request'[other] = request[other]
        BY <1>1 DEF OwnerInv, RequestRecords
    <2> HIDE DEF q
    <2> QED
        BY <1>2, <1>4, <2>1, OneRequest

\* A request takes its next step with all else of it as it was, or with its owner.
LEMMA RequestMoves ==
    ASSUME OwnerInv, OnlyMore, NEW r \in Requests, NEW next \in Phases, NEW owner,
           request' = [request EXCEPT ![r].owner = owner, ![r].phase = next],
           request[r].hadProfile => next \notin {"insert", "error"},
           next \in Queries \cup {"job"} => owner = 1,
           request[r].page = "dashboard" => next \notin {"job", "active", "succeeded", "failed", "recent", "page"}
    PROVE  OwnerInv'
<1> DEFINE q == request'[r]
<1>1. /\ DOMAIN q = DOMAIN request[r] /\ q.phase = next /\ q.owner = owner
      /\ q.page = request[r].page /\ q.shown = request[r].shown
      /\ q.jobsBefore = request[r].jobsBefore /\ q.hadProfile = request[r].hadProfile
      /\ DOMAIN request' = Requests
      /\ \A other \in Requests \ {r} : request'[other] = request[other]
    BY DEF OwnerInv, RequestRecords
<1>2. Len(jobs) \in Nat /\ Len(jobs') \in Nat /\ Len(jobs') >= Len(jobs)
    BY DEF OwnerInv, OneOwner, OnlyMore
<1> HIDE DEF q
<1>3. KeepsRequest(q)
    BY <1>1, <1>2 DEF KeepsRequest, OwnerInv, RequestRecords, ProfileIsThere, JobsCounted, OnlyMore
<1> QED
    BY <1>1, <1>3, OneRequest DEF q

LEMMA RequestAdvances ==
    ASSUME OwnerInv, NEW r \in Requests, NEW next \in Phases \ Queries,
           Advances(r, next), UNCHANGED <<profiles, jobs>>,
           request[r].hadProfile => next \notin {"insert", "error"},
           next # "job", next # "page" \/ request[r].page # "dashboard"
    PROVE  OwnerInv'
<1> DEFINE q == request'[r]
<1>1. /\ DOMAIN q = DOMAIN request[r] /\ q.phase = next
      /\ q.page = request[r].page /\ q.shown = request[r].shown
      /\ q.jobsBefore = request[r].jobsBefore /\ q.hadProfile = request[r].hadProfile
      /\ DOMAIN request' = Requests
      /\ \A other \in Requests \ {r} : request'[other] = request[other]
    BY DEF OwnerInv, RequestRecords, Advances
<1>2. OnlyMore
    BY DEF OnlyMore, OwnerInv, OneProfile, OneOwner
<1> HIDE DEF q
<1>3. KeepsRequest(q)
    BY <1>1 DEF KeepsRequest, OwnerInv, RequestRecords, ProfileIsThere, JobsCounted, Queries
<1> QED
    BY <1>1, <1>2, <1>3, OneRequest DEF q

\* A query of the dashboard, after which the total still covers the jobs there were.
LEMMA RequestReads ==
    ASSUME OwnerInv, NEW r \in Requests, NEW query \in Queries, NEW value,
           NEW next \in Queries \cup {"page"}, request[r].phase \in Queries,
           Reads(r, query, value, next),
           LET total == IF query = "total" THEN value ELSE request[r].shown.total
           IN  request[r].page = "dashboard" /\ next # "total"
               => total \in Nat /\ total >= request[r].jobsBefore
    PROVE  OwnerInv'
<1> DEFINE q == request'[r]
<1>1. /\ DOMAIN q = DOMAIN request[r] /\ q.phase = next /\ q.owner = request[r].owner
      /\ q.page = request[r].page
      /\ q.jobsBefore = request[r].jobsBefore /\ q.hadProfile = request[r].hadProfile
      /\ DOMAIN request' = Requests
      /\ \A other \in Requests \ {r} : request'[other] = request[other]
    BY DEF OwnerInv, RequestRecords, Reads
<1>2. /\ DOMAIN q.shown = Queries
      /\ q.shown.total = IF query = "total" THEN value ELSE request[r].shown.total
    BY DEF OwnerInv, RequestRecords, Reads, Queries
<1>3. OnlyMore /\ UNCHANGED <<profiles, jobs>>
    BY DEF OnlyMore, OwnerInv, OneProfile, OneOwner, Reads
<1> HIDE DEF q
<1>4. KeepsRequest(q)
    BY <1>1, <1>2, <1>3 DEF KeepsRequest, OwnerInv, RequestRecords, ProfileIsThere, OneOwner,
                            JobsCounted, Queries, Phases
<1> QED
    BY <1>1, <1>3, <1>4, OneRequest DEF q

\* With one owner the count of its jobs is the count of all.
LEMMA TotalIsAll ==
    ASSUME OwnerInv
    PROVE  Cardinality(JobsOf(1)) = Len(jobs)
<1>1. Len(jobs) \in Nat /\ DOMAIN jobs = 1 .. Len(jobs) /\ \A j \in DOMAIN jobs : jobs[j].owner = 1
    <2>1. jobs \in Seq([owner : {1}, active : BOOLEAN])
        BY DEF OwnerInv, OneOwner
    <2>2. \A j \in 1 .. Len(jobs) : jobs[j] \in [owner : {1}, active : BOOLEAN]
        BY <2>1, ElementOfSeq
    <2> QED
        BY <2>1, <2>2
<1>2. JobsOf(1) = 1 .. Len(jobs)
    BY <1>1 DEF JobsOf
<1> QED
    BY <1>1, <1>2, FS_Interval

LEMMA OwnerStep == OwnerInv /\ [OwnerNext]_ownerVars => OwnerInv'
<1> SUFFICES ASSUME OwnerInv, [OwnerNext]_ownerVars
             PROVE  OwnerInv'
    OBVIOUS
<1>1. CASE UNCHANGED ownerVars
    BY <1>1 DEF ownerVars, OwnerInv, RequestRecords, OneProfile, ProfileIsThere, OneOwner, JobsCounted
<1>2. ASSUME request' = request, UNCHANGED profiles, jobs' \in Seq([owner : {1}, active : BOOLEAN]),
             Len(jobs') = Len(jobs)
      PROVE  OwnerInv'
    BY <1>2 DEF OwnerInv, RequestRecords, OneProfile, ProfileIsThere, OneOwner, JobsCounted
<1>3. ASSUME NEW j \in DOMAIN jobs, Switch(j)
      PROVE  OwnerInv'
    <2>1. jobs' = [jobs EXCEPT ![j] = [jobs[j] EXCEPT !.active = ~ jobs[j].active]]
        BY <1>3 DEF Switch
    <2>2. jobs \in Seq([owner : {1}, active : BOOLEAN]) /\ jobs[j] \in [owner : {1}, active : BOOLEAN]
        <3>1. jobs \in Seq([owner : {1}, active : BOOLEAN])
            BY DEF OwnerInv, OneOwner
        <3>2. j \in 1 .. Len(jobs)
            BY <1>3, <3>1
        <3> QED
            BY <3>1, <3>2, ElementOfSeq
    <2>3. [jobs[j] EXCEPT !.active = ~ jobs[j].active] \in [owner : {1}, active : BOOLEAN]
        BY <2>2
    <2> QED
        BY <1>2, <1>3, <2>1, <2>2, <2>3 DEF Switch
<1>4. ASSUME \/ \E j \in DOMAIN jobs : MarkQueued(j)
             \/ \E h \in DOMAIN history, outcome \in {"Succeeded", "Failed"} : Complete(h, outcome)
      PROVE  OwnerInv'
    BY <1>2, <1>4 DEF MarkQueued, Complete, OwnerInv, OneOwner
<1>5. ASSUME NEW r \in Requests, GetUserByIdentityId(r)
      PROVE  OwnerInv'
    <2>1. CASE FindsNone(r)
        BY <1>5, <2>1, RequestAdvances
           DEF GetUserByIdentityId, FindsNone, Phases, Queries, OwnerInv, ProfileIsThere
    <2>2. CASE FindsProfile(r)
        <3>1. profiles[1] = 1 /\ OnlyMore
            BY <1>5, <2>2 DEF GetUserByIdentityId, FindsProfile, OwnerInv, OneProfile, OneOwner, OnlyMore
        <3>2. /\ AfterOwner(r) \in Phases \ {"insert", "error", "active", "succeeded", "failed", "recent", "page"}
              /\ AfterOwner(r) = "job" => request[r].page # "dashboard"
              /\ request' = [request EXCEPT ![r].owner = profiles[1], ![r].phase = AfterOwner(r)]
            BY <2>2 DEF AfterOwner, FindsProfile, Phases, Queries
        <3> QED
            BY <3>1, <3>2, RequestMoves
    <2> QED
        BY <1>5, <2>1, <2>2 DEF GetUserByIdentityId
<1>6. ASSUME NEW r \in Requests, AddUser(r)
      PROVE  OwnerInv'
    <2>1. ~ request[r].hadProfile
        BY <1>6 DEF AddUser, OwnerInv, ProfileIsThere
    <2>2. CASE profiles = <<>>
        <3>1. /\ AfterOwner(r) \in Phases \ {"active", "succeeded", "failed", "recent", "page"}
              /\ AfterOwner(r) = "job" => request[r].page # "dashboard"
              /\ request' = [request EXCEPT ![r].owner = 1, ![r].phase = AfterOwner(r)]
              /\ profiles' = <<1>> /\ jobs' = jobs
            BY <1>6, <2>2 DEF AddUser, AfterOwner, Phases, Queries
        <3>2. OnlyMore
            BY <3>1 DEF OwnerInv, OneOwner, OnlyMore
        <3> QED
            BY <2>1, <3>1, <3>2, RequestMoves
    <2>3. CASE profiles # <<>>
        BY <1>6, <2>1, <2>3, RequestAdvances DEF AddUser, Phases, Queries
    <2> QED
        BY <2>2, <2>3
<1>7. ASSUME NEW r \in Requests, AddJob(r)
      PROVE  OwnerInv'
    <2> DEFINE q == request'[r]
               new == [owner |-> request[r].owner, active |-> TRUE]
    <2>1. /\ DOMAIN q = DOMAIN request[r] /\ q.phase = "page"
          /\ q.page = request[r].page /\ q.shown = request[r].shown
          /\ q.jobsBefore = request[r].jobsBefore /\ q.hadProfile = request[r].hadProfile
          /\ DOMAIN request' = Requests
          /\ \A other \in Requests \ {r} : request'[other] = request[other]
        BY <1>7 DEF OwnerInv, RequestRecords, AddJob, Advances
    <2>2. new \in [owner : {1}, active : BOOLEAN]
        BY <1>7 DEF AddJob, OwnerInv, OneOwner
    <2>3. /\ jobs' \in Seq([owner : {1}, active : BOOLEAN])
          /\ Len(jobs') = Len(jobs) + 1 /\ Len(jobs) \in Nat
        BY <1>7, <2>2 DEF AddJob, OwnerInv, OneOwner
    <2>4. OnlyMore /\ profiles' = profiles
        BY <1>7, <2>3 DEF AddJob, OnlyMore, OwnerInv, OneProfile
    <2> HIDE DEF q, new
    <2>5. KeepsRequest(q)
        BY <1>7, <2>1, <2>3, <2>4
           DEF KeepsRequest, AddJob, OwnerInv, RequestRecords, ProfileIsThere, JobsCounted, Phases, Queries
    <2> QED
        BY <2>1, <2>4, <2>5, OneRequest DEF q
<1>8. ASSUME NEW r \in Requests, GetTotalJobsCount(r)
      PROVE  OwnerInv'
    <2>1. Cardinality(JobsOf(request[r].owner)) = Len(jobs)
        BY <1>8, TotalIsAll DEF GetTotalJobsCount, OwnerInv, OneOwner, Queries
    <2>2. Len(jobs) \in Nat /\ Len(jobs) >= request[r].jobsBefore
        BY DEF OwnerInv, OneOwner, JobsCounted
    <2> QED
        BY <1>8, <2>1, <2>2, RequestReads DEF GetTotalJobsCount, Queries
<1>9. ASSUME NEW r \in Requests,
             \/ GetActiveJobsCount(r) \/ GetSuccessfulRunsCount(r)
             \/ GetFailedRunsCount(r) \/ GetRecentJobRuns(r)
      PROVE  OwnerInv'
    <2>1. request[r].phase \in {"active", "succeeded", "failed", "recent"}
        BY <1>9 DEF GetActiveJobsCount, GetSuccessfulRunsCount, GetFailedRunsCount, GetRecentJobRuns
    <2>2. request[r].page = "dashboard" =>
              request[r].shown.total \in Nat /\ request[r].shown.total >= request[r].jobsBefore
        BY <2>1 DEF OwnerInv, JobsCounted
    <2>3. ASSUME NEW query \in {"active", "succeeded", "failed", "recent"}, NEW value,
                 NEW next \in {"succeeded", "failed", "recent", "page"},
                 Reads(r, query, value, next)
          PROVE  OwnerInv'
        BY <2>1, <2>2, <2>3, RequestReads DEF Queries
    <2> QED
        BY <1>9, <2>3
           DEF GetActiveJobsCount, GetSuccessfulRunsCount, GetFailedRunsCount, GetRecentJobRuns
<1>10. ASSUME NEW r \in Requests, RequestFails(r)
       PROVE  OwnerInv'
    <2>1. /\ DOMAIN Free = {"page", "phase", "owner", "shown", "jobsBefore", "hadProfile"}
          /\ DOMAIN Free.shown = Queries /\ Free.phase = "free" /\ ~ Free.hadProfile /\ Free.jobsBefore = 0
        BY DEF Free, Unread, Queries
    <2>2. Len(jobs) \in Nat /\ UNCHANGED <<profiles, jobs>> /\ OnlyMore
        BY <1>10 DEF RequestFails, OnlyMore, OwnerInv, OneProfile, OneOwner
    <2>3. KeepsRequest(Free)
        BY <2>1, <2>2 DEF KeepsRequest, Phases, Queries
    <2>4. DOMAIN request' = Requests /\ request'[r] = Free
            /\ \A other \in Requests \ {r} : request'[other] = request[other]
        BY <1>10 DEF RequestFails, OwnerInv, RequestRecords
    <2> QED
        BY <2>2, <2>3, <2>4, OneRequest
<1> QED
    BY <1>1, <1>3, <1>4, <1>5, <1>6, <1>7, <1>8, <1>9, <1>10, BeginKeeps DEF OwnerNext, Serves

LEMMA OwnerStarts == OwnerInit => OwnerInv
<1> SUFFICES ASSUME OwnerInit PROVE OwnerInv
    OBVIOUS
<1>1. /\ DOMAIN Free = {"page", "phase", "owner", "shown", "jobsBefore", "hadProfile"}
      /\ DOMAIN Free.shown = Queries /\ Free.phase = "free" /\ ~ Free.hadProfile /\ Free.jobsBefore = 0
    BY DEF Free, Unread, Queries
<1> QED
    BY <1>1 DEF OwnerInit, OwnerInv, RequestRecords, OneProfile, ProfileIsThere, OneOwner,
                JobsCounted, Phases, Queries

\* For any requests that cross: a dashboard counts at least the jobs there were when it
\* was asked for.
THEOREM JobsAreCounted == OwnerSpec => []DashboardCountsEveryJob
<1>1. OwnerInv => DashboardCountsEveryJob
    BY DEF OwnerInv, JobsCounted, DashboardCountsEveryJob, Dashboards
<1> QED
    BY <1>1, OwnerStarts, OwnerStep, PTL DEF OwnerSpec

\* For any requests that cross: one that begins when there is a profile does not fail on it.
THEOREM ProfileIsFound == OwnerSpec => []LaterRequestsHaveTheProfile
<1>1. OwnerInv => LaterRequestsHaveTheProfile
    BY DEF OwnerInv, ProfileIsThere, LaterRequestsHaveTheProfile
<1> QED
    BY <1>1, OwnerStarts, OwnerStep, PTL DEF OwnerSpec

-----------------------------------------------------------------------------
(* The recent runs and the counts above them *)

Ended == {"Succeeded", "Failed"}
Entries == [job : Nat, status : {"Queued"} \cup Ended]

\* The entries that ended so; with executions that do not overlap they stay there.
RunsWith(status) == {h \in DOMAIN history : history[h].status = status}

\* Every run is of a job there is, and a job keeps its owner.
RunsHaveJobs ==
    /\ history \in Seq(Entries)
    /\ \A h \in DOMAIN history : history[h].job \in DOMAIN jobs

\* The counts a dashboard has read are not more than the runs there are now; the list
\* it reads last covers them, or is full.
CountsAreBehind(q) ==
    /\ q.phase \in {"failed", "recent", "page"} =>
          q.shown.succeeded \in Nat
    /\ q.phase \in {"recent", "page"} =>
          q.shown.failed \in Nat
    /\ q.phase \in {"failed", "recent"} =>
          q.shown.succeeded <= Cardinality(RunsWith("Succeeded"))
    /\ q.phase = "recent" =>
          q.shown.failed <= Cardinality(RunsWith("Failed"))
    /\ q.phase = "page" /\ Cardinality(DOMAIN q.shown.recent) < RecentCount =>
          /\ CountByStatus(q.shown.recent, "Succeeded") >= q.shown.succeeded
          /\ CountByStatus(q.shown.recent, "Failed") >= q.shown.failed

RunsInv ==
    /\ RunsHaveJobs
    /\ \A r \in Requests : request[r].page = "dashboard" => CountsAreBehind(request[r])

LEMMA GreatestNumber ==
    ASSUME NEW n \in Nat, NEW S \in SUBSET (1 .. n), S # {}
    PROVE  \E k \in S : \A m \in S : m <= k
<1> DEFINE Gaps == {g \in Nat : n - g \in S}
<1>1. \A m \in S : m \in Nat /\ m <= n /\ n - m \in Nat /\ n - (n - m) = m
    OBVIOUS
<1>2. \A m \in S : n - m \in Gaps
    BY <1>1
<1>3. Gaps \subseteq Nat /\ Gaps # {}
    BY <1>2
<1>4. PICK g \in Gaps : \A m \in Gaps : ~ (<<m, g>> \in OpToRel(<, Nat))
    BY <1>3, NatLessThanWellFounded, WFMin, Zenon
<1>5. \A m \in Gaps : ~ (m < g)
    BY <1>3, <1>4 DEF OpToRel
<1>6. n - g \in S /\ g \in Nat
    BY <1>4
<1>7. \A m \in S : ~ (n - m < g)
    BY <1>2, <1>5
<1>8. \A m \in S : m <= n - g
    BY <1>1, <1>6, <1>7
<1> QED
    BY <1>6, <1>8

\* A list of recent runs that is not full leaves none out: the latest run left out has
\* as many after it as fill the list.
LEMMA ShortListIsWhole ==
    ASSUME NEW n \in Nat, NEW runs, DOMAIN runs \subseteq 1 .. n,
           Cardinality(DOMAIN RecentRuns(runs)) < RecentCount
    PROVE  DOMAIN RecentRuns(runs) = DOMAIN runs
<1> DEFINE After(h) == {later \in DOMAIN runs : later > h}
           Shown == {h \in DOMAIN runs : Cardinality(After(h)) < RecentCount}
<1>1. DOMAIN RecentRuns(runs) = Shown
    BY DEF RecentRuns, RestrictDomain, Restrict
<1>2. SUFFICES ASSUME DOMAIN runs \ Shown # {}
               PROVE  FALSE
    BY <1>1
<1>3. PICK h \in DOMAIN runs \ Shown : \A m \in DOMAIN runs \ Shown : m <= h
    BY <1>2, GreatestNumber
<1>4. After(h) \subseteq Shown
    BY <1>3
<1>5. IsFiniteSet(Shown) /\ Cardinality(Shown) \in Nat
    <2>1. Shown \in SUBSET (1 .. n) /\ IsFiniteSet(1 .. n)
        BY FS_Interval
    <2> QED
        BY <2>1, FS_Subset, FS_CardinalityType
<1>6. Cardinality(After(h)) <= Cardinality(Shown) /\ Cardinality(After(h)) \in Nat
    BY <1>4, <1>5, FS_Subset, FS_CardinalityType
<1>7. ~ (Cardinality(After(h)) < RecentCount)
    BY <1>3
<1> QED
    BY <1>1, <1>5, <1>6, <1>7, RecentAssumption

\* The runs of the one owner are the whole history.
LEMMA RunsAreAll ==
    ASSUME OwnerInv, RunsHaveJobs
    PROVE  /\ RunsOf(1) = [h \in DOMAIN history |-> history[h]]
           /\ \A status : CountByStatus(RunsOf(1), status) = Cardinality(RunsWith(status))
<1>1. \A h \in DOMAIN history : jobs[history[h].job].owner = 1
    <2>1. jobs \in Seq([owner : {1}, active : BOOLEAN])
        BY DEF OwnerInv, OneOwner
    <2>2. DOMAIN jobs = 1 .. Len(jobs)
        BY <2>1, LenProperties
    <2>3. \A j \in DOMAIN jobs : jobs[j] \in [owner : {1}, active : BOOLEAN]
        BY <2>1, <2>2, ElementOfSeq
    <2> QED
        BY <2>3 DEF RunsHaveJobs
<1>2. RunsOf(1) = [h \in DOMAIN history |-> history[h]]
    BY <1>1 DEF RunsOf, RestrictValues, Restrict
<1>3. \A status : {h \in DOMAIN RunsOf(1) : RunsOf(1)[h].status = status} = RunsWith(status)
    BY <1>2 DEF RunsWith
<1> QED
    BY <1>2, <1>3 DEF CountByStatus

LEMMA RunsFinite ==
    ASSUME RunsHaveJobs, NEW status
    PROVE  IsFiniteSet(RunsWith(status)) /\ Cardinality(RunsWith(status)) \in Nat
<1>1. DOMAIN history = 1 .. Len(history) /\ Len(history) \in Nat
    BY LenProperties DEF RunsHaveJobs
<1>2. RunsWith(status) \subseteq 1 .. Len(history) /\ IsFiniteSet(1 .. Len(history))
    BY <1>1, FS_Interval DEF RunsWith
<1> QED
    BY <1>2, FS_Subset, FS_CardinalityType

\* Runs that ended stay as they ended, so neither count goes down.
LEMMA RunsStay ==
    ASSUME RunsHaveJobs, RunsHaveJobs', NEW status \in Ended,
           RunsWith(status) \subseteq RunsWith(status)'
    PROVE  /\ Cardinality(RunsWith(status)) \in Nat
           /\ Cardinality(RunsWith(status))' \in Nat
           /\ Cardinality(RunsWith(status)) <= Cardinality(RunsWith(status))'
<1>1. DOMAIN history' = 1 .. Len(history') /\ Len(history') \in Nat
    BY LenProperties DEF RunsHaveJobs
<1>2. RunsWith(status)' \subseteq 1 .. Len(history') /\ IsFiniteSet(1 .. Len(history'))
    BY <1>1, FS_Interval DEF RunsWith
<1>3. IsFiniteSet(RunsWith(status)')
    BY <1>2, FS_Subset
<1> QED
    BY <1>3, FS_Subset, FS_CardinalityType

\* What one step does to the runs: none, one more that is queued, or one that ends.
LEMMA RunsStep ==
    ASSUME OwnerInv, RunsHaveJobs, [OwnerNext]_ownerVars
    PROVE  /\ RunsHaveJobs'
           /\ \A status \in Ended : RunsWith(status) \subseteq RunsWith(status)'
<1>1. /\ history \in Seq(Entries) /\ DOMAIN history = 1 .. Len(history) /\ Len(history) \in Nat
      /\ \A h \in DOMAIN history : history[h] \in Entries /\ history[h].job \in DOMAIN jobs
    <2>1. history \in Seq(Entries)
        BY DEF RunsHaveJobs
    <2> QED
        BY <2>1, LenProperties, ElementOfSeq DEF RunsHaveJobs
<1>2. /\ jobs \in Seq([owner : {1}, active : BOOLEAN])
      /\ DOMAIN jobs = 1 .. Len(jobs) /\ Len(jobs) \in Nat
    BY LenProperties DEF OwnerInv, OneOwner
<1>3. ASSUME history' = history, DOMAIN jobs \subseteq DOMAIN jobs'
      PROVE  /\ RunsHaveJobs'
             /\ \A status \in Ended : RunsWith(status) \subseteq RunsWith(status)'
    BY <1>3 DEF RunsHaveJobs, RunsWith
<1>4. CASE UNCHANGED ownerVars
    BY <1>3, <1>4 DEF ownerVars
<1>5. ASSUME NEW r \in Requests,
             \/ \E p \in Pages : Begin(r, p)
             \/ GetUserByIdentityId(r) \/ AddUser(r) \/ RequestFails(r)
             \/ GetTotalJobsCount(r) \/ GetActiveJobsCount(r) \/ GetSuccessfulRunsCount(r)
             \/ GetFailedRunsCount(r) \/ GetRecentJobRuns(r)
      PROVE  history' = history /\ jobs' = jobs
    BY <1>5 DEF Begin, GetUserByIdentityId, AddUser, RequestFails, GetTotalJobsCount,
           GetActiveJobsCount, GetSuccessfulRunsCount, GetFailedRunsCount, GetRecentJobRuns, Reads
<1>6. ASSUME NEW r \in Requests, AddJob(r)
      PROVE  history' = history /\ DOMAIN jobs \subseteq DOMAIN jobs'
    <2>1. request[r].owner = 1
        BY <1>6 DEF AddJob, OwnerInv, OneOwner
    <2>2. [owner |-> request[r].owner, active |-> TRUE] \in [owner : {1}, active : BOOLEAN]
        BY <2>1
    <2>3. Len(jobs') = Len(jobs) + 1 /\ DOMAIN jobs' = 1 .. Len(jobs')
        BY <1>2, <1>6, <2>2, LenProperties DEF AddJob
    <2> QED
        BY <1>2, <1>6, <2>3 DEF AddJob
<1>7. ASSUME NEW j \in DOMAIN jobs, Switch(j)
      PROVE  history' = history /\ DOMAIN jobs \subseteq DOMAIN jobs'
    BY <1>7 DEF Switch
<1>8. ASSUME NEW j \in DOMAIN jobs, MarkQueued(j)
      PROVE  /\ RunsHaveJobs'
             /\ \A status \in Ended : RunsWith(status) \subseteq RunsWith(status)'
    <2> DEFINE new == [job |-> j, status |-> "Queued"]
    <2>1. new \in Entries /\ new.job = j
        BY <1>2 DEF Entries
    <2>2. jobs' = jobs /\ history' = Append(history, new)
        BY <1>8 DEF MarkQueued
    <2> HIDE DEF new
    <2>3. /\ history' \in Seq(Entries) /\ Len(history') = Len(history) + 1
          /\ DOMAIN history' = 1 .. Len(history) + 1
          /\ \A h \in 1 .. Len(history) : history'[h] = history[h]
          /\ history'[Len(history) + 1] = new
        BY <1>1, <2>1, <2>2, AppendProperties
    <2> QED
        BY <1>1, <2>1, <2>2, <2>3 DEF RunsHaveJobs, RunsWith
<1>9. ASSUME NEW h \in DOMAIN history, NEW outcome \in Ended, Complete(h, outcome)
      PROVE  /\ RunsHaveJobs'
             /\ \A status \in Ended : RunsWith(status) \subseteq RunsWith(status)'
    <2> DEFINE new == [history[h] EXCEPT !.status = outcome]
    <2>1. new \in Entries /\ new.job = history[h].job
        BY <1>1 DEF Entries
    <2>2. jobs' = jobs /\ history' = [history EXCEPT ![h] = new] /\ history[h].status = "Queued"
        BY <1>9 DEF Complete
    <2> HIDE DEF new
    <2>3. /\ history' \in Seq(Entries) /\ DOMAIN history' = DOMAIN history
          /\ \A k \in DOMAIN history : history'[k] = IF k = h THEN new ELSE history[k]
        BY <1>1, <2>1, <2>2, ExceptSeq
    <2> QED
        BY <1>1, <2>1, <2>2, <2>3 DEF RunsHaveJobs, RunsWith, Ended
<1> QED
    BY <1>3, <1>4, <1>5, <1>6, <1>7, <1>8, <1>9 DEF OwnerNext, Serves, Ended

\* What a request has read stays behind the runs, and what it reads is what there is.
LEMMA CountsStep ==
    ASSUME OwnerInv, RunsInv, [OwnerNext]_ownerVars,
           NEW r \in Requests, request'[r].page = "dashboard"
    PROVE  CountsAreBehind(request[r])'
<1>1. RunsHaveJobs /\ RunsHaveJobs'
    BY RunsStep DEF RunsInv
<1>2. /\ Cardinality(RunsWith("Succeeded")) \in Nat /\ Cardinality(RunsWith("Failed")) \in Nat
      /\ Cardinality(RunsWith("Succeeded"))' \in Nat /\ Cardinality(RunsWith("Failed"))' \in Nat
      /\ Cardinality(RunsWith("Succeeded")) <= Cardinality(RunsWith("Succeeded"))'
      /\ Cardinality(RunsWith("Failed")) <= Cardinality(RunsWith("Failed"))'
    BY <1>1, RunsStep, RunsStay DEF Ended, RunsInv
<1>3. ASSUME request'[r] = request[r]
      PROVE  CountsAreBehind(request[r])'
    <2>1. CountsAreBehind(request[r])
        BY <1>3 DEF RunsInv
    <2> QED
        BY <1>2, <1>3, <2>1 DEF CountsAreBehind
<1>4. ASSUME request'[r].phase \notin {"failed", "recent", "page"}
      PROVE  CountsAreBehind(request[r])'
    BY <1>4 DEF CountsAreBehind
<1>5. DOMAIN request = Requests
    BY DEF OwnerInv, RequestRecords
<1>6. ASSUME NEW q \in Requests, NEW fresh, request' = [request EXCEPT ![q] = fresh],
             q # r \/ fresh.phase \notin {"failed", "recent", "page"}
      PROVE  CountsAreBehind(request[r])'
    BY <1>3, <1>4, <1>5, <1>6
<1>7. ASSUME NEW q \in Requests, NEW next, Advances(q, next),
             q # r \/ next \notin {"failed", "recent", "page"}
      PROVE  CountsAreBehind(request[r])'
    <2>1. DOMAIN request[q] = {"page", "phase", "owner", "shown", "jobsBefore", "hadProfile"}
        BY DEF OwnerInv, RequestRecords
    <2> QED
        BY <1>3, <1>4, <1>5, <1>7, <2>1 DEF Advances
<1>8. ASSUME NEW q \in Requests, NEW owner, NEW next,
             request' = [request EXCEPT ![q].owner = owner, ![q].phase = next],
             next \notin {"failed", "recent", "page"}
      PROVE  CountsAreBehind(request[r])'
    <2>1. DOMAIN request[q] = {"page", "phase", "owner", "shown", "jobsBefore", "hadProfile"}
        BY DEF OwnerInv, RequestRecords
    <2> QED
        BY <1>3, <1>4, <1>5, <1>8, <2>1
<1>9. ASSUME NEW q \in Requests, NEW query \in Queries, NEW value, NEW next,
             Reads(q, query, value, next)
      PROVE  /\ q # r => request'[r] = request[r]
             /\ request'[q].page = request[q].page
             /\ request'[q].phase = next
             /\ request'[q].shown[query] = value
             /\ \A other \in Queries \ {query} :
                   request'[q].shown[other] = request[q].shown[other]
    <2>1. /\ DOMAIN request[q] = {"page", "phase", "owner", "shown", "jobsBefore", "hadProfile"}
          /\ DOMAIN request[q].shown = Queries
        BY DEF OwnerInv, RequestRecords
    <2> QED
        BY <1>5, <1>9, <2>1 DEF Reads
<1>10. ASSUME NEW q \in Requests, request[q].phase \in Queries
       PROVE  request[q].owner = 1
    BY <1>10 DEF OwnerInv, OneOwner
<1>11. CASE UNCHANGED ownerVars
    BY <1>3, <1>11 DEF ownerVars
<1>12. ASSUME NEW q \in Requests, \E p \in Pages : Begin(q, p)
       PROVE  CountsAreBehind(request[r])'
    <2>1. PICK p \in Pages : Begin(q, p)
        BY <1>12
    <2> DEFINE fresh == [Free EXCEPT !.page = p, !.phase = "arrived", !.jobsBefore = Len(jobs),
                                     !.hadProfile = profiles # <<>>]
    <2>2. fresh.phase = "arrived" /\ request' = [request EXCEPT ![q] = fresh]
        BY <2>1 DEF Begin, Free
    <2> HIDE DEF fresh
    <2> QED
        BY <1>6, <2>2
<1>13. ASSUME NEW q \in Requests, GetUserByIdentityId(q) \/ AddUser(q)
       PROVE  CountsAreBehind(request[r])'
    <2>1. AfterOwner(q) \notin {"failed", "recent", "page"}
        BY DEF AfterOwner
    <2> QED
        BY <1>7, <1>8, <1>13, <2>1 DEF GetUserByIdentityId, FindsProfile, FindsNone, AddUser
<1>14. ASSUME NEW q \in Requests, AddJob(q)
       PROVE  CountsAreBehind(request[r])'
    <2>1. request[q].page # "dashboard"
        BY <1>14 DEF AddJob, OwnerInv, JobsCounted
    <2>2. request'[q].page = request[q].page
        BY <1>5, <1>14 DEF AddJob, Advances, OwnerInv, RequestRecords
    <2> QED
        BY <1>7, <1>14, <2>1, <2>2 DEF AddJob
<1>15. ASSUME NEW q \in Requests, RequestFails(q)
       PROVE  CountsAreBehind(request[r])'
    BY <1>6, <1>15 DEF RequestFails, Free
<1>16. ASSUME NEW q \in Requests, GetTotalJobsCount(q) \/ GetActiveJobsCount(q)
       PROVE  CountsAreBehind(request[r])'
    <2>1. ASSUME NEW query \in {"total", "active"}, NEW value, NEW next \in {"active", "succeeded"},
                 Reads(q, query, value, next)
          PROVE  CountsAreBehind(request[r])'
        BY <1>3, <1>4, <1>9, <2>1 DEF Queries
    <2> QED
        BY <1>16, <2>1 DEF GetTotalJobsCount, GetActiveJobsCount
<1>17. ASSUME NEW q \in Requests, GetSuccessfulRunsCount(q)
       PROVE  CountsAreBehind(request[r])'
    <2>1. /\ Reads(q, "succeeded", Cardinality(RunsWith("Succeeded")), "failed")
          /\ history' = history
        BY <1>1, <1>10, <1>17, RunsAreAll DEF GetSuccessfulRunsCount, Queries, Reads
    <2>2. RunsWith("Succeeded")' = RunsWith("Succeeded")
        BY <2>1 DEF RunsWith
    <2>3. ASSUME q = r
          PROVE  request'[r].phase = "failed"
                   /\ request'[r].shown.succeeded = Cardinality(RunsWith("Succeeded"))
        BY <1>9, <2>1, <2>3 DEF Queries
    <2> QED
        BY <1>2, <1>3, <1>9, <2>1, <2>2, <2>3 DEF CountsAreBehind, Queries
<1>18. ASSUME NEW q \in Requests, GetFailedRunsCount(q)
       PROVE  CountsAreBehind(request[r])'
    <2>1. /\ Reads(q, "failed", Cardinality(RunsWith("Failed")), "recent")
          /\ history' = history /\ request[q].phase = "failed"
        BY <1>1, <1>10, <1>18, RunsAreAll DEF GetFailedRunsCount, Queries, Reads
    <2>2. /\ RunsWith("Failed")' = RunsWith("Failed")
          /\ RunsWith("Succeeded")' = RunsWith("Succeeded")
        BY <2>1 DEF RunsWith
    <2>3. ASSUME q = r
          PROVE  /\ request'[r].phase = "recent" /\ request[r].page = "dashboard"
                 /\ request'[r].shown.failed = Cardinality(RunsWith("Failed"))
                 /\ request'[r].shown.succeeded = request[r].shown.succeeded
        BY <1>9, <2>1, <2>3 DEF Queries
    <2>4. ASSUME q = r
          PROVE  /\ request[r].shown.succeeded \in Nat
                 /\ request[r].shown.succeeded <= Cardinality(RunsWith("Succeeded"))
        BY <2>1, <2>3, <2>4 DEF RunsInv, CountsAreBehind
    <2> QED
        BY <1>2, <1>3, <1>9, <2>1, <2>2, <2>3, <2>4 DEF CountsAreBehind, Queries
<1>19. ASSUME NEW q \in Requests, GetRecentJobRuns(q)
       PROVE  CountsAreBehind(request[r])'
    <2> DEFINE recent == RecentRuns(RunsOf(1))
    <2>1. Reads(q, "recent", recent, "page") /\ request[q].phase = "recent"
        BY <1>10, <1>19 DEF GetRecentJobRuns, Queries
    <2>2. ASSUME q = r
          PROVE  /\ request'[r].phase = "page" /\ request[r].page = "dashboard"
                 /\ request'[r].shown.recent = recent
                 /\ request'[r].shown.succeeded = request[r].shown.succeeded
                 /\ request'[r].shown.failed = request[r].shown.failed
        BY <1>9, <2>1, <2>2 DEF Queries
    <2>3. ASSUME q = r
          PROVE  /\ request[r].shown.succeeded \in Nat /\ request[r].shown.failed \in Nat
                 /\ request[r].shown.succeeded <= Cardinality(RunsWith("Succeeded"))
                 /\ request[r].shown.failed <= Cardinality(RunsWith("Failed"))
        BY <2>1, <2>2, <2>3 DEF RunsInv, CountsAreBehind
    <2>4. ASSUME Cardinality(DOMAIN recent) < RecentCount, NEW status
          PROVE  CountByStatus(recent, status) = Cardinality(RunsWith(status))
        <3>1. RunsOf(1) = [h \in DOMAIN history |-> history[h]]
            BY <1>1, RunsAreAll
        <3>2. Len(history) \in Nat /\ DOMAIN RunsOf(1) \subseteq 1 .. Len(history)
            BY <1>1, <3>1, LenProperties DEF RunsHaveJobs
        <3>3. DOMAIN recent = DOMAIN history
            BY <2>4, <3>1, <3>2, ShortListIsWhole
        <3>4. \A h \in DOMAIN recent : recent[h] = history[h]
            BY <3>1, <3>3 DEF RecentRuns, RestrictDomain, Restrict
        <3> HIDE DEF recent
        <3>5. {h \in DOMAIN recent : recent[h].status = status} = RunsWith(status)
            BY <3>3, <3>4 DEF RunsWith
        <3> QED
            BY <3>5 DEF CountByStatus
    <2> HIDE DEF recent
    <2>5. CASE q # r
        BY <1>3, <1>9, <2>1, <2>5 DEF Queries
    <2>6. CASE q = r
        BY <1>2, <2>2, <2>3, <2>4, <2>6 DEF CountsAreBehind, CountByStatus
    <2> QED
        BY <2>5, <2>6
<1>20. ASSUME request' = request
       PROVE  CountsAreBehind(request[r])'
    BY <1>3, <1>20
<1> QED
    BY <1>11, <1>12, <1>13, <1>14, <1>15, <1>16, <1>17, <1>18, <1>19, <1>20
       DEF OwnerNext, Serves, Switch, MarkQueued, Complete

LEMMA RunsInvStep == OwnerInv /\ RunsInv /\ [OwnerNext]_ownerVars => RunsInv'
<1> SUFFICES ASSUME OwnerInv, RunsInv, [OwnerNext]_ownerVars
             PROVE  RunsInv'
    OBVIOUS
<1>1. RunsHaveJobs'
    BY RunsStep DEF RunsInv
<1>2. \A r \in Requests : request'[r].page = "dashboard" => CountsAreBehind(request[r])'
    BY CountsStep
<1> QED
    BY <1>1, <1>2 DEF RunsInv, CountsAreBehind, RunsWith

LEMMA RunsStart == OwnerInit => RunsInv
BY DEF OwnerInit, RunsInv, RunsHaveJobs, CountsAreBehind, Free

\* Whatever ends between the queries of a dashboard: a list of recent runs that is not
\* full shows at least the ended runs that were counted above it.
THEOREM RecentRunsCover == OwnerSpec => []RecentRunsCoverTheCounts
<1>1. RunsInv => RecentRunsCoverTheCounts
    BY DEF RunsInv, CountsAreBehind, RecentRunsCoverTheCounts, Dashboards
<1> QED
    BY <1>1, OwnerStarts, OwnerStep, RunsStart, RunsInvStep, PTL DEF OwnerSpec
=============================================================================

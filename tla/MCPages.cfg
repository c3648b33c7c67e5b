CONSTANTS
    Columns = {"source", "destination"}
    Contents = {"s1", "s2", "d1", "d2", "m1", "m2"}
    Documents <- MCDocuments
    Edits = {e1, e2}
    Toggles = {t1}
    MaxSaves = 3
    Tabs = {tab1, tab2}
    NoTheme = NoTheme
    NoJob = NoJob
    Calls = {call1, call2}
    start = start
    Places = {start, member}
    MemberPlaces = {member}
    Requests = {request1, request2}
    RecentCount = 2
    MaxJobs = 1
    MaxHistory = 2
SPECIFICATION PagesSpec
SYMMETRY Interchangeable
INVARIANTS
    TypeOK
    DefinitionIsCoherent
    IconMatchesTheme
    CopiedExampleStarts
    ReturnsWhatWasAsked
    DashboardCountsEveryJob
    RecentRunsCoverTheCounts
PROPERTIES
    EditsApplyInTurn
    EditKeepsActivity
    OpensAsChosen

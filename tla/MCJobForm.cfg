CONSTANTS
    None = "None"
    CustomExpression = "CustomExpression"
    Types = {"None", "CustomExpression", "Trim"}
    NeedParameter = {"CustomExpression"}
    Blank = ""
    Texts = {"", "code"}
    Nodes = {n1, n2, n3, n4}
    NoNode = NoNode
    NoClosure = NoClosure
    NoEditor = NoEditor
    MaxRows = 3
SPECIFICATION Spec
SYMMETRY Interchangeable
CONSTRAINT TableOrEditor
INVARIANTS
    TypeOK
    PostedIsShown
    AccessFollowsType
    DropsWhatIsDragged
    EditorShowsTarget
    NoClickIsLost
PROPERTIES
    DropTakesThePlace
    SaveReplacesWhatWasSeen
    ImplementsTable

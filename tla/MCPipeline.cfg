CONSTANTS
    Fields = {"a", "b"}
    Columns = {"x", "y"}
    Parameters = {"iso", "weekday", "blanking", "malformed"}
    MappingLists <- MCMappingLists
    Rows <- MCRows
    Scripts <- MCScripts
    Written <- MCWritten
SPECIFICATION Spec
INVARIANTS
    TypeOK
    SameColumns
    RequiredIsPresent
    EndsAsExpected
CHECK_DEADLOCK FALSE

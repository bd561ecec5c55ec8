SPECIFICATION QuerySpec
CONSTANTS
    Paths = {"a"}
    Contents <- MCContents
    Queries <- MCQueries
    Null = Null
    AnyComp = "any"
INVARIANT LeavesOutOnlyKnownCases
CHECK_DEADLOCK FALSE

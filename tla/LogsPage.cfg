SPECIFICATION Spec
CONSTANTS
    Row = {3, 4}
    PageSize = 1
    MaxGen = 3
    NoQuery = NoQuery
    Keys = {"k"}
    Methods = {"call"}
    Tools = {"t"}
    MINUTE = 2
    Start = 4
    Late = {3}
    MaxNow = 5
    PERIODS <- MCPERIODS
    CallOf <- MCCallOf
    Query <- LogQueries
    Matches <- LogMatches
    NewestFirst <- MCNewestFirst
INVARIANTS TypeOK RowsAreOneRun ControlAgrees CountsDescribeTable OneFacetWalk
PROPERTIES FacetsSettle QuerySettles
CHECK_DEADLOCK FALSE

\* Nobody changes the repository while the request runs or is cancelled.
SPECIFICATION FindSpec
CONSTANTS
    q = q
    r = r
    Absent = Absent
    Files = {1, 2, 3}
    Sources = {1, 2}
    Contents <- MCContents
    Rank <- MCRank
    Scopes <- MCScopes
    NoMatch = 6
    QueryLists <- MCQueryLists
    Requests <- MCRequests
    MaxChanges = 0
INVARIANT
    CancelledIsTold
CHECK_DEADLOCK FALSE

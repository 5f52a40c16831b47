\* One change by another process and a cancellation, anywhere in the request.
SPECIFICATION FindSpec
CONSTANTS
    q = q
    r = r
    Absent = Absent
    Files = {1, 2, 3}
    Sources = {1, 2}
    Contents <- MCContents
    Rank <- MCRank
    Scopes <- MCScopes
    NoMatch = 6
    QueryLists <- MCQueryLists
    Requests <- MCRequests
    MaxChanges = 1
INVARIANTS
    FindTypeOK
    FindFaithful
    QuietFind
CHECK_DEADLOCK FALSE

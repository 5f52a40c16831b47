\* Two files: one of up to three lines, one of one; and one change while the command runs.
SPECIFICATION QuerySpec
CONSTANTS
    Files = {1, 2}
    Text = {1, 2, 3}
    Contents <- MCContents
    MaxEdits = 1
    Returns = {"line", "context", "scope"}
    Limits = {0, 1}
    Context = 1
    Scopes <- MCScopes
INVARIANTS
    QueryTypeOK
    ResultsInsideSource
    ChangedLinesExact
    AnswerIsPrefix
CHECK_DEADLOCK FALSE

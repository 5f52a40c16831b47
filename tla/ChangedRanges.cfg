SPECIFICATION Spec
CONSTANTS
    MaxLine = 5
    MaxExpanded = 4
    Contexts = {0, 1, 2}
INVARIANTS
    TypeOK
    LinesInsideSource
    SpansExact
    ReadersAgree
CHECK_DEADLOCK FALSE

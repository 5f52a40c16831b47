\* Any step may fail, the ones that undo included, and runs die and are repeated.
SPECIFICATION Spec
CONSTANTS
    N = 3
    MaxRuns = 3
INVARIANTS
    TypeOK
    OriginalKept
    SuccessIsClean
PROPERTY AllOrNothing
CHECK_DEADLOCK FALSE

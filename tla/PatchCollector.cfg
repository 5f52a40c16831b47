SPECIFICATION Spec
CONSTANTS
    MaxLines = 3
    MaxBytes = 5
    BlankStart = TRUE
    MaxUntracked = 1
INVARIANTS
    TypeOK
    MemoryBounded
    PatchFaithful
CHECK_DEADLOCK FALSE

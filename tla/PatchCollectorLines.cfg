SPECIFICATION Spec
CONSTANTS
    MaxLines = 3
    MaxBytes = 9
    BlankStart = FALSE
    MaxUntracked = 1
INVARIANT PatchLinesBounded
CHECK_DEADLOCK FALSE

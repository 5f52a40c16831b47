\* Two changes by other processes anywhere in the read.
SPECIFICATION Spec
CONSTANTS
    Inodes = {1, 2, 3, 4}
    Names = {"a", "b"}
    Values = {x, y}
    Beginnings <- MCBeginnings
    Path <- MCPath
    MaxSize = 2
    Limits = {1, 2}
    MaxChanges = 2
INVARIANTS
    TypeOK
    ReadIsSnapshot
    ReadOfPath
    LimitKept
PROPERTIES
    NeverThroughLink
CHECK_DEADLOCK FALSE

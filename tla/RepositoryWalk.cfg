\* Files called a and b are sources, directories called c are excluded.
SPECIFICATION Spec
CONSTANTS
    Inodes = {1, 2, 3, 4}
    Names = {"a", "b", "c"}
    Values = {x}
    Beginnings <- MCBeginnings
    Sources = {"a", "b"}
    Excluded = {"c"}
    MaxSize = 1
    MaxChanges = 2
    MaxEntries = 4
    MaxDepth = 1
    MaxFileSize = 1
    MaxTreeSize = 1
    Before <- MCBefore
INVARIANTS
    TypeOK
    WalkExact
    QuietWalk
CHECK_DEADLOCK FALSE

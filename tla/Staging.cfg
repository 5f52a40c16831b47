\* Three runs at once or one after the other, and two changes by others.
SPECIFICATION Spec
SYMMETRY MCSymmetry
CONSTANTS
    Nobody = Nobody
    Runs = {r1, r2, r3}
    Names = {config, worktree}
    Values = {x, y}
    Config = config
    Expected = x
    MaxChanges = 2
INVARIANTS
    TypeOK
    TargetWhole
    RunsAgree
    ReportHolds
CHECK_DEADLOCK FALSE

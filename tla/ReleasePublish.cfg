\* Two runs for the same tag and an administrator.
SPECIFICATION FairSpec
CONSTANTS
    p1 = p1
    p2 = p2
    Admin = Admin
    Publishers = {p1, p2}
    Names = {"archive", "checksums"}
    MaxReleases = 3
    MaxOther = 2
    PageSize = 1
    MaxPages = 2
    MaxAdmin = 1
INVARIANTS
    TypeOK
    SuccessIsComplete
    ArtifactsOfOneRun
    DraftIsReported
    RerunCreatesNothing
PROPERTY
    RunEnds
CHECK_DEADLOCK FALSE

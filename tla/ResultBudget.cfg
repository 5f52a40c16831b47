SPECIFICATION Spec
CONSTANTS
    MaxInt = 1000
    Limits <- MCLimits
    MaxSelectors = 3
    MaxResults = 4
INVARIANTS
    TypeOK
    TotalWithinLimit
    ResponsesTruthful
    SelectorsServed
CHECK_DEADLOCK FALSE

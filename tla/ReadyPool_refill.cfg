SPECIFICATION PoolFairSpec
CONSTANTS
    Ids = {i1, i2, i3, i4, i5, i6, i7}
    Torn = Torn
    NoFile = NoFile
    Target = 2
    MaxClaims = 3
    MaxFailures = 1
    MaxRestarts = 1
INVARIANTS
    HandedOutOnce
    RestoreConsistent
PROPERTY PoolRefills
CHECK_DEADLOCK FALSE

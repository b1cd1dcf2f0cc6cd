SPECIFICATION FairSpec
CONSTANTS
    Snaps = {1, 2, 3}
    Foreign = {4}
    Stamps = {1, 2}
    MaxLimit = 2
    MaxUses = 1
INVARIANTS
    PagesComplete
    PagesOrdered
PROPERTY ListingEnds
CHECK_DEADLOCK FALSE

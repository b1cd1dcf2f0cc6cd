SPECIFICATION StoreSpec
CONSTANTS
    Snaps = {s1, s2}
    Artifacts = {"memory", "rootfs"}
    Fails = TRUE
    CleanupFails = TRUE
    Drops = TRUE
    Crashes = TRUE
SYMMETRY Symmetry
INVARIANTS
    FinalIsWhole
PROPERTY ImplementsPublication
CHECK_DEADLOCK FALSE

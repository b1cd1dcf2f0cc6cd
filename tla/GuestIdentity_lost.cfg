SPECIFICATION IdentityFairSpec
CONSTANTS
    Vms = {v1, v2, v3}
    Snaps = {s1, s2}
    Cold = {v1}
    None = None
    MaxTries = 3
INVARIANTS
    IdentityMatchesRecord
    CapturedTokenRetired
    NeverRefused
PROPERTY LaunchEnds
CHECK_DEADLOCK FALSE

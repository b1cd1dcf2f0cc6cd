SPECIFICATION FairSpec
CONSTANTS
    u1 = u1  u2 = u2
    Uploads = {u1, u2}
    Size <- MCSize
    Modes <- MCModes
    Chunk = 1
    MaxLimit = 2
    NoFile = NoFile
INVARIANTS
    UploadIsWhole
    DownloadIsWhole
    DeleteLeavesNothingOld
PROPERTY DownloadEnds
CHECK_DEADLOCK FALSE

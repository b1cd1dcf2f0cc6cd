SPECIFICATION RtSpec
CONSTANTS
    Tasks = {t1, t2}
    Ids = {i1, i2, i3}
    Snaps = {s1}
    NoVm = NoVm
    NoTask = NoTask
    NoSnap = NoSnap
    MaxClones = 2
    Faults = {"launch", "reject", "timeout", "guest", "stage", "publish", "corrupt", "rekey", "cleanup", "purge"}
SYMMETRY Symmetry
INVARIANTS
    SafetyInv
    NoDeadlock
    NoOrphanVm
    OneDriverPerVm
    TornDownUnreachable
    SnapshotInUseIntact
    RollbackKeepsSource
PROPERTIES
    OnlyDeleteUnmaps
    NoSilentLie

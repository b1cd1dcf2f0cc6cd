SPECIFICATION LeavingSpec
CONSTANTS
    c1 = c1  i1 = i1  i2 = i2
    Clients = {c1}
    Ids = {i1, i2}
    Tasks <- MCTasks
    Snaps = {s1}
    NoVm = NoVm
    NoTask = NoTask
    NoSnap = NoSnap
    MaxClones = 1
    Faults = {}
    AuditFails = FALSE
PROPERTY ExpiredVmTerminated
CHECK_DEADLOCK FALSE

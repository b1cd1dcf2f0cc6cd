SPECIFICATION FairSpec
CONSTANTS
    c1 = c1  i1 = i1  i2 = i2
    Clients = {c1}
    Ids = {i1, i2}
    Tasks <- MCTasks
    Snaps = {s1}
    NoVm = NoVm
    NoTask = NoTask
    NoSnap = NoSnap
    MaxClones = 1
    Faults = {"launch", "reject", "guest", "cleanup", "rekey"}
    AuditFails = TRUE
INVARIANTS
    EveryVmReclaimable
PROPERTIES
    ImplementsLifetime
    ExpiredVmTerminated
CHECK_DEADLOCK FALSE

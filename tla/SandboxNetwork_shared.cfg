SPECIFICATION FairSpec
CONSTANTS
    b1 = b1  b2 = b2
    u1 = u1  t1 = t1
    n1 = n1
    Boxes = {b1, b2}
    Relays = {b1, b2}
    Stamp <- MCStamp
    Fails = {b2}
    MaxKept = 1
    Udp = {u1}
    Tcp = {t1}
    Guest <- MCGuest
    MaxInFlight = 1
    MaxQueries = 1
    Etc <- MCEtc
    Run <- MCRun
    Fallback = Fallback
INVARIANTS
    LeaseIntactUnshared
    NothingLeftBehind
    OneUserPerAddress
PROPERTIES
    ServfailExhausts
    QueryAnswered
    GatewayFreed
CHECK_DEADLOCK FALSE

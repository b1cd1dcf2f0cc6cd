SPECIFICATION NetSpec
CONSTANTS
    b1 = b1  b2 = b2
    Boxes = {b1, b2}
    Stamp <- MCSameWindow
    Fails = {}
    MaxKept = 0
INVARIANT LeaseIntact
CHECK_DEADLOCK FALSE

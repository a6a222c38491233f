SPECIFICATION FairSpec
CONSTANTS
    Client = {c1, c2}
    None = None
    MaxPackets = 2
    MaxQueue = 3
INVARIANTS
    ClientComplete
    NoHandshake
    FirstClientServed
PROPERTY SignalEnds
CHECK_DEADLOCK FALSE

SPECIFICATION FairSpec
CONSTANTS
    Client = {c1, c2}
    None = None
    MaxPackets = 2
    MaxQueue = 3
INVARIANT OnlyClientRead
CHECK_DEADLOCK FALSE

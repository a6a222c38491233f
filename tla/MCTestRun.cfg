SPECIFICATION Spec
CONSTANTS
    Runs = {r1, r2}
    Connections <- MCConnections
    MaxSignals = 2
INVARIANTS
    DiskWhole
    StopsWhatItStarted
PROPERTY EndsTogether
CHECK_DEADLOCK FALSE

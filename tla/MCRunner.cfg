SPECIFICATION FairSpec
CONSTANTS
    Signals = {"TERM", "INT", "KILL"}
    MaxSignals = 2
    MaxFd = 6
INVARIANTS
    TypeOK
    RightEnds
    OneOwner
    OutlivesChildren
PROPERTIES
    StopsUnlessMissed
    EndsWithCommand
    NoOrphanHelper
CHECK_DEADLOCK FALSE

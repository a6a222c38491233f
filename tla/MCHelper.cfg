SPECIFICATION FairSpec
CONSTANTS
    Launches <- MCLaunches
    MaxSignals = 2
    MaxEvents = 2
INVARIANTS
    TypeOK
    CleanStop
    ExitStatus
    NetworkSound
    Unprivileged
PROPERTIES
    NoHalfCable
    SignalTerminates
CHECK_DEADLOCK FALSE

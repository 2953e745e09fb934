SPECIFICATION FairSpec
CONSTANTS
    Writers = {w}
    w = w
    MaxSignals = 2
    MaxRequests = 1
INVARIANTS
    TypeOK
    ShutdownIsOrderly
PROPERTIES
    SignalIsAnswered
    ShutdownEnds
CHECK_DEADLOCK FALSE

SPECIFICATION Spec
CONSTANTS
    car = car
    walk = walk
    public = public
    own = own
    driving = driving
    Tracks <- BothTracks
    Sendable <- BothTracks
    Servers <- BothServers
    Configured <- public
    Costings <- OneCosting
    None = None
    Positions = 2
    Actions = 3
CHECK_DEADLOCK FALSE
INVARIANTS
    TypeOK
    RowsTellWhatRuns
PROPERTIES
    HiddenTracksStayParked
    QueuedRunsStart

SPECIFICATION Spec
CONSTANTS
    Recordings <- TwoRecordings
    Logs <- TwoLogs
    Overlaps <- Together
    Requests = 2
    Drops <- SmallDrops
    Familiar <- TheFirst
    Renames = 1
CHECK_DEADLOCK FALSE
INVARIANTS
    BatchesOutliveTheirArrivals
    OnlyRenamesLoseAnchors
PROPERTIES
    LogsAreJudgedByWhatArrivedWithThem
    PendingLogsAreDecided

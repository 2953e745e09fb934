SPECIFICATION MergeSpec
CONSTANTS
    Recordings <- ShortAndDriven
    ChunkPoints = 4
    Overlap = 2
    Interval = 1
    Matches <- WithFlags
    NoData = NoData
CHECK_DEADLOCK FALSE
INVARIANTS
    PointsAreTheAnsweredFixes
    SegmentsAreTheUnbrokenRoads

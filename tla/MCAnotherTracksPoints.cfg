SPECIFICATION Spec
CONSTANTS
    morning = morning
    evening = evening
    night = night
    Tracks <- SameDay
    LastDay = 1
    Spans <- SameDaySpans
    Windows <- SameDaySpans
    Positions = 2
    Revisions = 1
PROPERTY DrawnPointsAreTheTracksOwn

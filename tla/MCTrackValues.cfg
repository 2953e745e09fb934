SPECIFICATION Spec
CONSTANTS
    morning = morning
    evening = evening
    night = night
    Tracks <- OverMidnight
    LastDay = 2
    Spans <- MidnightSpans
    Windows <- Both
    Positions = 2
    Revisions = 3
PROPERTIES
    DrawnPeaksFollowRevisions
    DeletedDaysLeaveTheDrawing

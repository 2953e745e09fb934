SPECIFICATION Spec
CONSTANTS
    LastDay = 2
    NoDay = NoDay
    Recordings <- SharedDay
    Sources <- BothSources
    AutoPruneAge = 2
    Requests = 3
    Rejections <- MayShutDown
CHECK_DEADLOCK FALSE
INVARIANTS
    TypeOK
    OneFetchAtATime
    OnlyCrossedDaysGoStale
PROPERTIES
    OnlyHostsAndBackfillsStrand
    EverythingSettles

SPECIFICATION FairSpec
CONSTANTS
    t1 = t1
    t2 = t2
    t3 = t3
    None = None
    Threads = {t1, t2, t3}
    Kinds = {"Archive"}
    RecentlyFinishedKept = 2
    MaxRegistrations = 4
INVARIANTS
    TypeOK
    LiveGuardsAreTheRegistry
PROPERTIES
    ParkedWaitReturns
    ImplementsDrain

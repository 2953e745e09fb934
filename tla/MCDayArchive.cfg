SPECIFICATION Spec
CONSTANTS
    Days <- ThreeDays
    RowCounts <- OneOrTwoRows
    MaxFetches = 3
    Replaces = TRUE
    Missing = Missing
INVARIANTS
    TypeOK
    EntriesNameTheirOwnRows
    OpenPutsTheArchiveRight
PROPERTY ImplementsDayStore
CONSTRAINT WhileSurvived

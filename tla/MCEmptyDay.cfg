SPECIFICATION Spec
CONSTANTS
    Days <- ThreeDays
    RowCounts <- NoneOrOneRow
    MaxFetches = 4
    Replaces = TRUE
    Missing = Missing
INVARIANT UninterruptedDeleteSettles
CONSTRAINT WhileNothingStops

SPECIFICATION LockSpec
CONSTANTS
    a = a
    b = b
    c = c
    Processes = {a, b, c}
    Nobody = Nobody
    Absent = Absent
    Half = Half
    MaxFailingProcesses = 1
SYMMETRY Symmetry
INVARIANTS
    LockTypeOK
    OwnerIsTheLockHolder
    StatusIsNeverHalf
    StatusOutlivesOnlyTheKilled
    StatusTellsTheHolder
CHECK_DEADLOCK FALSE

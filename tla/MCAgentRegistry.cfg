SPECIFICATION Spec
CONSTANTS
    r1 = r1
    r2 = r2
    r3 = r3
    r4 = r4
    i1 = i1
    i2 = i2
    k = k
    v1 = v1
    v2 = v2
    Absent = Absent
    Requests <- MCRequests
    Ids <- MCIds
    Keys <- MCKeys
    Values <- MCValues
SYMMETRY Symmetry
CHECK_DEADLOCK FALSE
INVARIANTS
    SnapshotsTruthful
    UpdateLosesNothing
    RollbackSound

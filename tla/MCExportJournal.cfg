SPECIFICATION Spec
CONSTANTS
    v1 = v1
    v2 = v2
    Absent = Absent
    Keys <- MCKeys
    Values <- MCValues
    Expiry <- MCExpiry
    MaxForward = 1
    ConfirmSpan = 1
    MinConfirmations = 2
    MaxEntries = 2
    Retention = 1
    MaintenanceInterval = 1
    MaxTime = 3
    MaxSeq = 4
    MaxConfirmations = 2
    MaxGen = 1
SYMMETRY MCSymmetry
INVARIANTS TypeOK BootstrapExact FollowerExact DurableStateValid
CHECK_DEADLOCK FALSE

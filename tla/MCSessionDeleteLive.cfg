CONSTANTS
    a = a
    b = b
    c = c
    m1 = m1
    m2 = m2
    Threads = {a, b, c}
    Parent <- MCParent
    Monitors = {m1}
    MaxPending = 2
    MaxEvents = 2
    MaxOps = 2
    MaxRestores = 1
SPECIFICATION FairSpec
INVARIANTS  DeletedMeansGone
PROPERTIES ReceiptsResolve
CHECK_DEADLOCK FALSE

CONSTANTS
    a = a
    b = b
    c = c
    m1 = m1
    m2 = m2
    Threads = {a, b, c}
    Parent <- MCParent
    Monitors = {m1, m2}
    MaxPending = 2
    MaxEvents = 3
    MaxOps = 2
    MaxRestores = 0
SPECIFICATION Spec
SYMMETRY MCSymmetry
CHECK_DEADLOCK FALSE
INVARIANTS UsageRetained OutcomesStorable VerificationPossible

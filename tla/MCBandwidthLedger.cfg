SPECIFICATION Spec
CONSTANTS
    s1 = s1
    Sources = {s1}
    Window = 2
    Minute = 2
    Soft = 2
    Hard = 3
    Requests = {2}
    MinGrant = 1
    ProbeBytes = 1
    MaxPerSource = 2
    MaxEntries = 2
    MaxTime = 3
    MaxAttempts = 3
INVARIANTS LedgerValid LedgerCovers WindowBounded ResumeIsFirst

SPECIFICATION Spec
CONSTANTS
    Bindings = {A, B}
    None = None
    Absent = 0
    Keys <- MCOneKey
    Values <- MCOneVersion
    Expiry <- MCExpiry
    Rank <- MCRank
    Scans <- MCPartialScans
    HistGens <- MCFewHistGens
    JournalGens <- MCFewJournalGens
    MaxSeq = 2
    MaxWrites = 1
    MaxForward = 1
    ConfirmSpan = 1
    MinConfirmations = 2
    MaxEntries = 1
    Retention = 1
    MaintenanceInterval = 1
    MaxHistory = 3
    SweepLimit = 2
INVARIANTS ReferencesHold
 
SYMMETRY MCSymmetry

SPECIFICATION FairSpec
CONSTANTS
    Bindings = {A}
    None = None
    Absent = 0
    Keys <- MCKeys
    Values <- MCVersions
    Expiry <- MCExpiry
    Rank <- MCRank
    Scans <- MCFullScans
    HistGens <- MCHistGens
    JournalGens <- MCJournalGens
    MaxSeq = 20
    MaxWrites = 2
    MaxForward = 1
    ConfirmSpan = 1
    MinConfirmations = 2
    MaxEntries = 2
    Retention = 1
    MaintenanceInterval = 1
    MaxHistory = 3
    SweepLimit = 2
INVARIANTS TypeOK VisibleExact
PROPERTIES NeverRegresses Converges GarbageGoes

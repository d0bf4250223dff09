SPECIFICATION FairSpec
CONSTANTS
    f1 = f1
    None = None
    MaxVersion = 3
    Files = {f1}
INVARIANTS TypeOK ReferencesIntact EntryIsLauncher
PROPERTIES UserFileKept 
CHECK_DEADLOCK FALSE

CONSTANTS
    o1 = o1
    o2 = o2
    Unused = Unused
    MaxVersion = 3
    Options = {o1, o2}
SPECIFICATION FairSpec
INVARIANTS TypeOK LegacyFenced
PROPERTIES  IntentKept ImplementsUpgrade UpgradeFinishes

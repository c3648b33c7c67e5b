CONSTANTS
    Loads = {l1, l2}
    k1 = k1
    k2 = k2
    Keys = {k1, k2}
    NoKey = NoKey
    Before = Before
    Batches <- MCBatches
    Settings <- SerialSettings
    OldRows <- MCOldRows
SPECIFICATION FairSpec
INVARIANTS
    TypeOK
    StatementFits
    CountIsBatch
PROPERTIES
    UpsertKeepsKeysUnique
    ImplementsSerialLoads
    EveryLoadEnds
CHECK_DEADLOCK FALSE

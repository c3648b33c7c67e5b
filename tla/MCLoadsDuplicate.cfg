CONSTANTS
    Loads = {l1, l2}
    k1 = k1
    k2 = k2
    Keys = {k1, k2}
    NoKey = NoKey
    Before = Before
    Batches <- MCBatches
    Settings <- UnindexedUpserts
    OldRows <- MCOldRows
SPECIFICATION Spec
PROPERTIES
    UpsertKeepsKeysUnique
CHECK_DEADLOCK FALSE

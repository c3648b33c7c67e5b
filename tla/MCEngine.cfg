CONSTANTS
    N = 5
    RequestBatchSize = 2
    DefaultBatchSize = 3
SPECIFICATION Spec
INVARIANTS
    TypeOK
    CountersAddUp
    LoadedIsDelivered
PROPERTY
    KeepsPromise
CHECK_DEADLOCK FALSE

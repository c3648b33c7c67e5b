CONSTANTS
    Requests = {r1, r2, r3}
    Workers = {w1}
    MaxAttempts = 1
    MaxFaults = 1
    NoRun = NoRun
SPECIFICATION Spec
INVARIANTS
    SucceededHasNoError
    OpenRunsAreOwed
PROPERTY
    ImplementsLedger

CONSTANTS
    Requests = {r1, r2}
    Workers = {w1, w2}
    MaxAttempts = 1
    MaxFaults = 1
    NoRun = NoRun
SPECIFICATION FairSpec
PROPERTY
    QueuedIsExecuted

CONSTANTS
    Requests = {r1, r2}
    Workers = {w1, w2}
    MaxAttempts = 1
    MaxFaults = 0
    NoRun = NoRun
SPECIFICATION Spec
PROPERTY
    AcceptedOnlyWhenSettled

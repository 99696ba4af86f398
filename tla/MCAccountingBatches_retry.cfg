\* A failed batch is retried for ever.
CONSTANTS
    Closers = {c1, c2}
    Due <- MCDue
    MaxFaults = 1

SPECIFICATION FairBatchesSpec
CHECK_DEADLOCK FALSE

PROPERTY FailedIsRetried

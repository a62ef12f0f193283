CONSTANTS
    Conns = {"c1"}
    Workers = {"w1"}
    Oneshot = {"c1"}
    HdrSize = 2
    Stream <- MCStream
    MaxBulkSize = 4
    MaxAttempts = 2
    BulkCredits = 1
    MaxConnects = 2
    SplitHeaders = TRUE
SPECIFICATION Spec
INVARIANT Framing
CHECK_DEADLOCK FALSE

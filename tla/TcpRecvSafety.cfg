CONSTANTS
    Conns = {"c1", "c2"}
    Workers = {"w1", "w2"}
    Oneshot = {"c1"}
    HdrSize = 1
    Stream <- MCStream
    MaxBulkSize = 3
    MaxAttempts = 2
    BulkCredits = 1
    MaxConnects = 2
    SplitHeaders = FALSE
SPECIFICATION FairSpec
INVARIANTS Framing BuffersExact
PROPERTIES StreamServed
CHECK_DEADLOCK FALSE

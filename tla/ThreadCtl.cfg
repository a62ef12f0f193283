\* ThreadCtl.cfg: a worker next to the watchdog and the utility thread.
SPECIFICATION ThreadSpec
CONSTANTS
    Wd = Wd
    Ut = Ut
    Workers = {w1}
    MaxLives = 1
    MaxStalls = 1
    MAX_UT_EPOLL_HANDLES = 2
INVARIANTS
    WatchedIsAlive
    AcceptedIsPolled
PROPERTIES
    HaltJoins
    StallsCounted
CHECK_DEADLOCK FALSE

\* TcpConnReinit.cfg: a handle is initialised while the epoll manager has it queued.
SPECIFICATION Spec
CONSTANTS
    Conns = {"c1"}
    Incoming = {"i1"}
    Threads = {"t1"}
    Fds = {"f1", "f2"}
    IncomingCredits = 1
    MaxCalls = 2
    MaxAccepts = 1
INVARIANT HandleIsOurs
CHECK_DEADLOCK FALSE

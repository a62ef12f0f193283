\* TcpConnSafety.cfg: two connections, two threads that send and close, the application's own
\* callbacks in the epoll thread, and a peer that connects.
SPECIFICATION FairSpec
CONSTANTS
    Conns = {"c1", "c2"}
    Incoming = {"i1"}
    Threads = {"t1", "t2"}
    Fds = {"f1", "f2"}
    IncomingCredits = 1
    MaxCalls = 2
    MaxAccepts = 1
INVARIANTS ClaimAccounted ConnectedIsHeard SocketsAccounted
PROPERTIES ClaimReleased
CHECK_DEADLOCK FALSE

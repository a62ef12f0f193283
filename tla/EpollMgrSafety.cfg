\* EpollMgrSafety.cfg: a handle with a ref_cb and one without, two threads.
SPECIFICATION FairSpec
CONSTANTS
    Mgr = Mgr
    Users = {u1, u2}
    Owner = u1
    Handles = {h1, h2}
    RefHandles = {h1}
    WakeHandle = WakeHandle
    None = None
    PeerDel = FALSE
    HasTimeout = FALSE
    CloseRaces = FALSE
    epollMgrNumEvents = 128
    MaxOps = 5
    MaxSetups = 1
INVARIANTS
    HandlesExact
    CtxCbSafe
    NothingOwed
PROPERTIES
    CallsComplete
CHECK_DEADLOCK FALSE

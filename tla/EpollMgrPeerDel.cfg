\* EpollMgrPeerDel.cfg: an event callback deletes another handle.
SPECIFICATION Spec
CONSTANTS
    Mgr = Mgr
    Users = {u1}
    Owner = u1
    Handles = {h1, h2}
    RefHandles = {h1, h2}
    WakeHandle = WakeHandle
    None = None
    PeerDel = TRUE
    HasTimeout = FALSE
    CloseRaces = FALSE
    epollMgrNumEvents = 128
    MaxOps = 4
    MaxSetups = 1
SYMMETRY Symmetry
INVARIANTS
    NoRefLeak
CHECK_DEADLOCK FALSE

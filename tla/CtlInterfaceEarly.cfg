\* CtlInterfaceEarly.cfg: clients write while the process starts.
SPECIFICATION CtlSpec
CONSTANTS
    Names = {"a", "b"}
    InitFiles <- MCInitFiles
    Contents = {"o1", "EBADMSG"}
    Leftover <- MCLeftover
    OPS = 2
    MaxWrites = 2
    MaxEvents = 2
    MaxRescans = 0
    Uuid = FALSE
INVARIANT
    BufferIsOurs
CHECK_DEADLOCK FALSE

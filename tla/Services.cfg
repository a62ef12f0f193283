\* Services.cfg: two clients' files, a ring of two and one more scan of init/; a pipe with fewer bytes than writers.
SPECIFICATION ServicesSpec
CONSTANTS
    Names = {"a", "b"}
    InitFiles <- MCInitFiles
    Contents = {"o1", "EBADMSG"}
    Leftover <- MCLeftover
    OPS = 2
    MaxWrites = 2
    MaxEvents = 2
    MaxRescans = 1
    Uuid = FALSE
    Writers = {p1, p2}
    Capacity = 1
    DrainSize = 1
    MaxItems = 3
INVARIANTS
    
    AnswersPublished
    NoLostWakeup
PROPERTIES
    EveryRequestServed
    AllConsumed
CHECK_DEADLOCK FALSE

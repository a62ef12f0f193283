SPECIFICATION FairSpec
CONSTANTS
    r = r
    a = a
    b = b
    i = i
    None = None
    Root = r
    Nodes = {a, b, i}
    ParentOf <- MCParentOf
    Inlined = {i}
    Static = {a, b}
    MayFail = {i}
    Awaited = {b}
    QuietHandover = TRUE
    Threads = {t1, t2}
INVARIANTS
    EventsServed
    TreeSound
\* The process may end, and nobody is obliged to call the registry.
CHECK_DEADLOCK FALSE
PROPERTIES
    RequestsServed

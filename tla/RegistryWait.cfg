SPECIFICATION Spec
CONSTANTS
    r = r
    a = a
    b = b
    i = i
    None = None
    Root = r
    Nodes = {a}
    ParentOf <- MCParentOf
    Inlined = {}
    Static = {}
    MayFail = {}
    Awaited = {a}
    QuietHandover = TRUE
    Threads = {t1}
INVARIANT
    WaitedIsDone
CHECK_DEADLOCK FALSE

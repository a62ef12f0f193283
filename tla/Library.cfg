\* Library.cfg: every unit of the library on all its small inputs.
SPECIFICATION LibrarySpec
CONSTANTS
    MAX_VALUE_DEPTH = 3
    MAX_SIBLING_CNT = 20
    NoFilter = NoFilter
    PathTexts <- MCPathTexts
    Requests <- MCRequests
    Tokens <- MCTokens
    ValueBufSize = 4
    MaxItems = 2
    Documents <- MCDocuments
    WordBits = 3
    NWords = 2
    BitmapSizes = {3, 5}
    Widths = {1, 2, 3}
    VbaBits = 5
    Regions <- MCRegions
    AllocSizes = {1, 3, 6, 11, 40}
    IoVecs <- MCIoVecs
    Counts = {0, 1, 2, 3, 4, 5, 6, 7}
    Interrupts = 2
    MaxAttempts = 2
    HistShapes <- MCHistShapes
    HistValues = {0, 1, 2, 3, 4, 7, 8, 15, 16, 100}
    MaxAdded = 2
    SvcDirs <- MCSvcDirs
    SvcUuids = {1, 2}
    MaxPeers = 2
    HOST_NAME_MAX = 3
    MaxHeld = 1
    MaxScans = 2
    SizeMod = 64
    NBufs = {0, 1, 2, 3}
    BufSizes = {0, 1, 4, 8}
    PrologueSizes = {0, 1, 2, 4}
    RegionSizes = {0, 1, 5, 8, 12, 24, 32, 36}
    Bases = {0, 2, 8}
    Alignments = {0, 3, 4}
    RegionAligned = TRUE
    NoWrap = TRUE
    BufUsers = {u1, u2}
    Items = {i1, i2}
    Nobody = Nobody
    Usages = {{}, {"give_back"}, {"over_reserve", "give_back", "give_back_late"}}
    MaxInits = 2
    Threads = {t1, t2}
    Keys = {1, 2}
    Elems = {e1, e2, e3}
    Refs = {r1, r2, r3}
    None = None
    InitialRefCnt = 2
    MaxBirths = 3
    FaultUsers = {1, 2}
    FaultSites <- MCFaultSites
    FaultTable <- MCFaultTable
    CoreSet = "core"
    MaxSets = 2
    CounterSpan = 3
    MaxFaultOps = 3
    MaxSeconds = 3
INVARIANTS
    PathParsed
    GetSelects
    WhereApplies
    LinesDelivered
    BitmapExact
    VbaSound
    VectorsAreStrings
    TransferExact
    HistRanges
    NodesFromFiles
    StoresOwned
    LayoutSound
    Conservation
    RevokedLast
    RefCntExact
    FaultsExact
PROPERTIES
    PromiseKept
CHECK_DEADLOCK FALSE

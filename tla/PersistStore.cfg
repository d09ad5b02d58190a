\* Two handlers and the loop; failing writes, roll-backs, kills, shutdown.
CONSTANTS
    h1 = h1
    h2 = h2
    Loop = Loop
    NoOne = NoOne
    Handlers <- TwoHandlers
    MaxVersion = 2
    DiskMayFail = TRUE
    MayCrash = TRUE
    MayUndo = TRUE
SPECIFICATION FairSpec
INVARIANTS NoLostUpdate AckedIsDurable
PROPERTIES FileFollowsMemory EveryChangeSaved
CHECK_DEADLOCK FALSE

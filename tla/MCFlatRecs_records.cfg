\* Records are added to a table of two blocks; calls fail, processes die.
CONSTANTS
    p1 = p1
    p2 = p2
    NoProc = NoProc
    Proc <- Processes
    Word = 65536
    ChunkSize = 4096
    RecSize = 1499
    InitialHead <- TwoBlocks
    InitialFirst <- TwoFirsts
    InitialSize <- TwoChunks
    Garbage <- StackBytes
    Asked <- Requests
    MaxRecno = 6
    FileLimit = 20480
    FailingCalls = {"next", "append", "link", "reread", "write", "restore"}
SPECIFICATION FairSpec
INVARIANTS
    IInv
    StartNeverPasses
    CountsCapacities
PROPERTIES
    ExtendsOnlyBeyond
    TurnsAdvance
    ChainKept
    ImplementsRecNumbers
    LoopEnds

\* Records are added to a table of two blocks; nothing fails.
CONSTANTS
    p1 = p1
    p2 = p2
    NoProc = NoProc
    Proc <- Processes
    Word = 65536
    ChunkSize = 4096
    RecSize = 1499
    InitialHead <- TwoBlocks
    InitialFirst <- TwoFirsts
    InitialSize <- TwoChunks
    Garbage <- StackBytes
    Asked <- Requests
    MaxRecno = 6
    FileLimit = 24576
    FailingCalls = {}
SPECIFICATION Spec
INVARIANT
    RecordsApart

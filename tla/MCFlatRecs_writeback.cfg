\* Records are added to a table of one block; nothing fails.
CONSTANTS
    p1 = p1
    p2 = p2
    NoProc = NoProc
    Proc <- Processes
    Word = 65536
    ChunkSize = 4096
    RecSize = 1499
    InitialHead <- OneBlock
    InitialFirst <- OneFirst
    InitialSize <- OneChunk
    Garbage <- StackBytes
    Asked <- Requests
    MaxRecno = 6
    FileLimit = 24576
    FailingCalls = {}
SPECIFICATION Spec
PROPERTY
    ChainKept

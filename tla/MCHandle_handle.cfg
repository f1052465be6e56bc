SPECIFICATION Spec
CONSTANTS
    p1 = p1
    p2 = p2
    p3 = p3
    Proc <- Processes
    Creators = {p1}
    Word = 65536
    ChunkSizes = {0, 64, 4096}
    RecSizes = {0, 100}
    FailingCalls = {"fopen", "block", "head", "fread", "flush"}
SYMMETRY Symmetric
INVARIANTS
    IInv
    StreamsAccounted
    UserGetsDatabase
    CreationKept

SPECIFICATION Spec
CONSTANTS
    Proc = {p1, p2}
    NoProc = NoProc
    Roots <- TwoChains
    InitialSize = 8192
    ChunkSize = 4096
    Sizes <- WholeChunks
    ChildTypes = {"DATA"}
    FailingCalls <- NoFailure
    MaxFile = 16384
INVARIANTS
    BlocksDisjoint

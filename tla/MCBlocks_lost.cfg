SPECIFICATION Spec
CONSTANTS
    Proc = {p1, p2}
    NoProc = NoProc
    Roots <- OneChain
    InitialSize = 4096
    ChunkSize = 4096
    Sizes <- WholeChunks
    ChildTypes = {"DATA"}
    FailingCalls <- Calls
    MaxFile = 16384
SYMMETRY Symmetry
INVARIANTS
    LostInv
    BlocksDisjoint
PROPERTIES
    LinksPersist

SPECIFICATION ExclusiveSpec
CONSTANTS
    Proc = {p1, p2}
    NoProc = NoProc
    Roots <- TwoChains
    InitialSize = 8192
    ChunkSize = 4096
    Sizes <- ZeroOrOneChunk
    ChildTypes = {"DATA"}
    FailingCalls <- CheckedCalls
    MaxFile = 20480
SYMMETRY Symmetry
INVARIANTS
    TypeOK
    IInv
    LinksFormLists
    LinkTargetsReady
    BlocksAligned
    AddedIsLinked
    ShortReadsAtEnd
PROPERTIES
    LinksPersist
    ChangedByLockHolder

SPECIFICATION FairSpec
CONSTANTS
    Proc = {p1, p2}
    NoProc = NoProc
    Roots <- OneChain
    InitialSize = 4096
    ChunkSize = 4096
    Sizes <- ZeroToTwoChunks
    ChildTypes = {"DATA"}
    FailingCalls <- CheckedCalls
    MaxFile = 12288
PROPERTIES
    ImplementsChains
    Termination

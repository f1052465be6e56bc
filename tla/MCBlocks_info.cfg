SPECIFICATION Spec
CONSTANTS
    Proc = {p1, p2}
    NoProc = NoProc
    Roots <- OneChain
    InitialSize = 4096
    ChunkSize = 4096
    Sizes <- WholeChunks
    ChildTypes = {"DATA"}
    FailingCalls <- NoFailure
    MaxFile = 12288
INVARIANTS
    InfoKept

SPECIFICATION FairSpec
CONSTANTS
    Proc = {p1, p2}
    NoProc = NoProc
    Cells = {1, 2, 3}
    AreaSet <- TwoAreas
    Updates = {u1, u2}
    NoUpdate = NoUpdate
    Rereads <- Rereading
    FailingCalls <- CheckedCalls
INVARIANTS
    IInv
    LocksHeld
    FreshBuffer
    UpdatesKept
PROPERTIES
    ImplementsAreas
    LocksReleased

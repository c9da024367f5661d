SPECIFICATION DataSpec
CONSTANTS
    Methods <- MCMethods
    Path <- MCPath
    Signals <- MCSignals
    Skeletons <- MCSkeletons
    Exceptions <- MCExceptions
    Expected <- MCExpected
    Samples <- MCSamples
    Items <- MCItems
    Messages = {m1, m2}
    Anys = {a1, a2}
    Objects = {v1, v2}
    MaxFd = 3
    Local = Local
    Empty = Empty
    NoFd = NoFd
    NoMessage = NoMessage
SYMMETRY Symmetry
INVARIANTS
    RoundTrip
    NothingInvented
    Described
    ErrorsTold
    MessagesHeld
    ClosedOnce

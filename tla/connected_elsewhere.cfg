SPECIFICATION Spec
CONSTANTS
    n1 = n1
    n2 = n2
    p1 = p1
    p2 = p2
    NoOwner = NoOwner
    Stubs = {a, b}
    Names = {n1, n2}
    Paths = {p1, p2}
    Owners = {o1}
    Addresses <- SamePath
    MaxChanges = 2
INVARIANT StubsFollow
CHECK_DEADLOCK FALSE

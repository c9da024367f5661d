SPECIFICATION FairSpec
CONSTANTS
    n1 = n1
    n2 = n2
    p1 = p1
    p2 = p2
    NoOwner = NoOwner
    Stubs = {a, b}
    Names = {n1, n2}
    Paths = {p1, p2}
    Owners = {o1, o2}
    Addresses <- OwnPaths
    MaxChanges = 2
INVARIANTS TypeOK BusnamesFollow StubsFollow CallbackInformed
PROPERTIES ConnectionSettles
CHECK_DEADLOCK FALSE

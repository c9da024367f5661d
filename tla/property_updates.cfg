SPECIFICATION FairSpec
CONSTANTS
    p = p
    q = q
    Clients = {c1}
    Properties = {p, q}
    Values = {0, 1}
    Default = 0
    Notifying <- McNotifying
    ReadWrite <- McReadWrite
    Always = {}
    OnRead <- McOnRead
    OnWrite <- McReadWrite
    NoProperty = NoProperty
    MaxChanges = 2
    MaxCalls = 2
INVARIANTS TypeOK Converges
PROPERTIES ToldInOrder ToldBeforeSetCallback EventuallyUpToDate
CHECK_DEADLOCK FALSE

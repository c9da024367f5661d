CONSTANTS
    Calls = {c1, c2}
    NoCall = NoCall
    Liberties = {"nested", "throw"}
SPECIFICATION FairSpec
INVARIANTS
    TypeOK
    TimeoutUsedOnce
    
PROPERTIES
    OneResult
    EveryCallEnds
CHECK_DEADLOCK FALSE

CONSTANTS
    Requests = {r1, r2, r3}
    Slots = {s1, s2}
    NoRequest = NoRequest
    Liberties = {"overwrite_deferred", "throw_in_getall"}
    InterfaceList <- McInterfaces
    Methods <- McMethods
    Properties <- McProperties
    Messages <- McMessages
SPECIFICATION FairSpec
INVARIANTS
    TypeOK
    AnsweredOnce
    ReferencesExact
    SoleOwner
    RequestorMatches
PROPERTIES
    NoneLost
    KeepsContract
    EveryRequestSettles
CHECK_DEADLOCK FALSE

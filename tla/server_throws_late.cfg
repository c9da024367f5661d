CONSTANTS
    Requests = {r1, r2}
    Slots = {s1}
    Liberties = {"throw_late"}
    NoRequest = NoRequest
    InterfaceList <- McInterfaces
    Methods <- McMethods
    Properties <- McProperties
    Messages <- McMethodMessages
SPECIFICATION Spec
INVARIANT AnsweredOnce
CHECK_DEADLOCK FALSE

CONSTANTS
    Objects = {"o", "t"}
    MayThrow = {}
    MaxInFlight = 2
    MaxCrashes = 0
    MaxTimeouts = 0
    Interfaces <- McInterfaces
    Properties <- McProperties
SPECIFICATION Spec
INVARIANT
    AsIntrospected

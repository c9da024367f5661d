CONSTANTS
    Objects = {"o", "t"}
    MayThrow = {"t"}
    MaxInFlight = 4
    MaxCrashes = 1
    MaxTimeouts = 1
    Interfaces <- McInterfaces
    Properties <- McProperties
SPECIFICATION FairSpec
INVARIANTS
    ViewConverges
PROPERTIES
    KnownInTheEnd

SPECIFICATION Spec
CONSTANTS
    a = a
    b = b
    c = c
    Stubs = {a, b, c}
    Signals = {g}
    Properties = {p, q}
    PropertiesChanged = PropertiesChanged
    busname <- McBusname
    iface <- McIface
    objectpath <- McObjectpath
    Failures = {"AddMatch", "RemoveMatch"}
    MaxStale = 1
INVARIANTS TypeOK MatchesCounted RulesExact
CHECK_DEADLOCK FALSE

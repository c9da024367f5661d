SPECIFICATION Spec
CONSTANTS
    a = a
    b = b
    c = c
    Stubs = {a, b, c}
    Signals = {g}
    Properties = {p, q}
    PropertiesChanged = PropertiesChanged
    busname <- McBusname
    iface <- McIface
    objectpath <- McObjectpath
    Failures = {}
    MaxStale = 1
INVARIANTS OnlyOwnSignals
CHECK_DEADLOCK FALSE

SPECIFICATION FairSpec
CONSTANTS
    Timeouts = {t1, t2}
    Timers = {f1, f2}
    Socket = socket
    NoTimeout = NoTimeout
    Signal = Signal
    MaxSignals = 1
    MaxRuns = 2
INVARIANTS TypeOK TablesAgree
PROPERTIES OnlyExpired TimersServed EverythingDispatched StopEnds
CHECK_DEADLOCK FALSE

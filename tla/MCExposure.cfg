SPECIFICATION Spec
CONSTANTS
    Instruments = {a, b, c}
    Crypto = {a, b}
    a = a
    b = b
    c = c
    Notional = 10
    StartEquity = 20
    Equities = {0, 19, 20}
    MaxEntries = 2
    MaxLost = 1
    MaxCrash = 1
INVARIANTS ShutdownOnce LimitBites
PROPERTIES NoEntryAfterShutdown EntryWithinGross EntryWithinCluster
SYMMETRY Interchangeable

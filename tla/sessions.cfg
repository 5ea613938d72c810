SPECIFICATION Spec
CONSTANTS
    a = a
    b = b
    a1 = a1
    a2 = a2
    b1 = b1
    Tabs = {a, b}
    Calls = {a1, b1}
    TabOf <- OneEach
    MaxPairs = 3
    MaxSessions = 1
    MaxFaults = 1
INVARIANTS
    TypeOK
    OverStaysOver
    OneHeir
    RefusedForACause
CHECK_DEADLOCK FALSE

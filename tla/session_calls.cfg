SPECIFICATION FairSpec
CONSTANTS
    a = a
    b = b
    a1 = a1
    a2 = a2
    b1 = b1
    Tabs = {a}
    Calls = {a1, a2}
    TabOf <- OneTab
    MaxPairs = 3
    MaxSessions = 1
    MaxFaults = 1
INVARIANTS
    QueuedHaveLeader
PROPERTY EveryCallSettles
CHECK_DEADLOCK FALSE

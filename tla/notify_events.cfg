SPECIFICATION FairSpec
CONSTANTS
    None = None
    Workers = {w1}
    Dashboards = {d1}
    Keys = {k1}
    MetricKeys = {k1}
    Channels = {c1}
    Severity <- AllCritical
    Settings <- AllSettings
    MaxAttempts = 2
    Faults = {}
    MaxEvents = 4
    MaxChanges = 2
    MaxOps = 0
    MaxFaults = 0
PROPERTIES
    EventsFollow
    AlertsReachOutbox
    AllClearFollows

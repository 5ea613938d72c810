SPECIFICATION FairSpec
CONSTANTS
    None = None
    Workers = {w1, w2}
    Dashboards = {}
    Keys = {k1}
    MetricKeys = {k1}
    Channels = {c1}
    Severity <- AllCritical
    Settings <- LoudOrMuted
    MaxAttempts = 2
    Faults = {"abort", "refused", "noReply"}
    MaxEvents = 1
    MaxChanges = 1
    MaxOps = 1
    MaxFaults = 2
INVARIANTS
    TypeOK
    RepeatsNeedFailures
PROPERTIES
    ImplementsAlerts
    SteadyAllClearIsTrue
    PendingSettles

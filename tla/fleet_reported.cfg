SPECIFICATION Spec
CONSTANTS
    None = None
    c1 = c1
    c2 = c2
    v1 = v1
    v2 = v2
    Agents = {a1}
    Fleets = {f1}
    Configs = {c1, c2, c3}
    Globals = {g1}
    Versions = {v1, v2}
    SemVer = {v1, v2}
    Shown <- PlainShown
    Accepts <- NewNeedsV2
    Blocked = {c3}
    ServerVerdict <- AllValid
    WithCerts = {c1, c2}
    Installers = {a1}
    InitVersion = v1
    Faults = {"certWrite", "validate", "install", "crash", "loseReport", "lateReport"}
    MaxGen = 2
    MaxOps = 1
    MaxFaults = 2
INVARIANTS
    DiskIsPublished
    ReportsNeverAhead
    SyncedMeansOnDisk
    HealthyIsRunning
CHECK_DEADLOCK FALSE

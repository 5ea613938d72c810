SPECIFICATION FairSpec
CONSTANTS
    None = None
    c1 = c1
    c2 = c2
    v1 = v1
    v2 = v2
    Agents = {a1}
    Fleets = {f1}
    Configs = {c1, c2}
    Globals = {g1, g2}
    Versions = {v1, v2}
    SemVer = {v1, v2}
    Shown <- PlainShown
    Accepts <- NewNeedsV2
    Blocked = {}
    ServerVerdict <- AllValid
    WithCerts = {c1, c2}
    Installers = {a1}
    InitVersion = v1
    Faults = {"certWrite", "preSwap", "reload", "install", "crash",
              "loseReport", "lateReport"}
    MaxGen = 2
    MaxOps = 2
    MaxFaults = 1
PROPERTIES
    DiskConverges
    VersionConverges
    ReportConverges

SPECIFICATION Spec
CONSTANTS
    None = None
    Dialogs = {d1, d2}
    Locals = {h1}
    Agents = {a1}
    Configs = {c1, c2, c3, c4}
    First = c1
    Blocked = {c3}
    Bad = {c4}
    MaxEdits = 1
    MaxDeploys = 2
    MaxMoves = 0
    MaxFaults = 0
PROPERTIES
    DeployAdvances
CHECK_DEADLOCK FALSE

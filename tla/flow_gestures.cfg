SPECIFICATION FairSpec
CONSTANTS
    pg = pg
    qg = qg
    p1 = p1
    p2 = p2
    q1 = q1
    a = a
    s = s
    u = u
    r = r
    k = k
    Pages = {pg}
    Ops = {p1, p2}
    PageOf <- OnePage
    Sources = {a}
    Stages = {s, u}
    Routes = {}
    Sinks = {k}
    Existing = {a, s, k}
    Wired <- Pipeline
    MaxGestures = 2
    MaxFaults = 1
INVARIANTS
    TypeOK
    FreshCanvas
    CyclesNeedBlindWrites
PROPERTIES
    EditsStick
    SpliceKeepsFlow
    CanvasComesBack
CHECK_DEADLOCK FALSE

SPECIFICATION Spec
CONSTANTS
    pg = pg
    a = a
    k = k
    qg = qg
    p1 = p1
    p2 = p2
    q1 = q1
    s = s
    u = u
    r = r
    Pages = {pg, qg}
    Ops = {p1, q1}
    PageOf <- TwoPages
    Sources = {}
    Stages = {s, u}
    Routes = {r}
    Sinks = {}
    Existing = {s, u, r}
    Wired <- Routed
    MaxGestures = 1
    MaxFaults = 1
INVARIANT
    DanglingHasCause
CHECK_DEADLOCK FALSE

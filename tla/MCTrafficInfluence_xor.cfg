CONSTANTS
    t1 = t1
    t2 = t2
    t3 = t3
    t4 = t4
    a1 = a1
    a2 = a2
    i1 = i1
    i2 = i2
    i3 = i3
    p1 = p1
    p2 = p2
    c1 = c1
    c2 = c2
    None = None
    Tasks = {t1, t2}
    Afs = {a1}
    Ids = {i1, i2}
    Locations = {i1, i2}
    Pcfs = {p1}
    HostPcf = p1
    Ctxs = {c1}
    Bodies <- Every
    BsfKnown = FALSE
    UuidRepeat = FALSE
    Ops = {"create"}
    Faults = {}
SPECIFICATION Spec
INVARIANTS
    OnlyOneOfEach
CHECK_DEADLOCK FALSE

CONSTANTS
    t1 = t1
    t2 = t2
    t3 = t3
    t4 = t4
    a1 = a1
    a2 = a2
    i1 = i1
    i2 = i2
    i3 = i3
    i4 = i4
    p1 = p1
    p2 = p2
    c1 = c1
    c2 = c2
    c3 = c3
    None = None
    Tasks = {t1, t2, t3}
    Afs = {a1, a2}
    Ids = {i1, i2, i3}
    Locations = {i1, i2, i3}
    Pcfs = {p1, p2}
    HostPcf = p1
    Ctxs = {c1, c2}
    BsfKnown = TRUE
    UuidRepeat = TRUE
    Ops = {"create", "delete", "qdelete", "get", "list", "qget", "update", "clean"}
    Faults = {"timeout", "pcf", "db", "crash", "body"}
SPECIFICATION Spec
SYMMETRY Symmetry
INVARIANTS
    OneRecordPerSession
CHECK_DEADLOCK FALSE

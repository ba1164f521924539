CONSTANTS
    q1 = q1
    q2 = q2
    q3 = q3
    s1 = s1
    s2 = s2
    s3 = s3
    m1 = m1
    a1 = a1
    i1 = i1
    i2 = i2
    j1 = j1
    j2 = j2
    p1 = p1
    c1 = c1
    c2 = c2
    None = None
    Coroutine = Coroutine
    QosTasks = {q1, q2}
    TiTasks = {s1, s2, s3}
    MonTasks = {m1}
    Afs = {a1}
    QosIds = {i1, i2}
    TiIds = {j1}
    HostPcf = p1
    Ctxs = {c1, c2}
    TiBodies <- Few
    MonBodies <- Edges
    Faults = {"timeout", "pcf", "db", "crash"}
    MaxRequests = 3
SPECIFICATION Spec
SYMMETRY Symmetry
INVARIANTS
    OneRecordPerSession
    DeleteIsFinal
    CalmCoherence
    MonitoringRules
    MonitoringAnswers
PROPERTIES
    RemovedByRight
    SessionsEndedByRight
CHECK_DEADLOCK FALSE

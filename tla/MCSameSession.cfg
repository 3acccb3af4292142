SPECIFICATION Spec
CONSTANTS
    s1 = s1  s2 = s2  a1 = a1  a2 = a2  o1 = o1  o2 = o2
    g1 = g1  g2 = g2  r1 = r1  r2 = r2  p1 = p1  p2 = p2  k1 = k1  k2 = k2  q1 = q1  q2 = q2
    Nodes = {1}
    Chunks = {1, 2}
    Sessions = {s1}
    Lineages = {a1}
    Objects = {o1, o2}
    Layouts = {1, 2}
    GcRuns = {g1}
    ReplicationRuns = {}
    Pushers = {p1, p2}
    Collectors = {k1, k2}
    Repairers = {}
    AdminNodes = {}
    Score <- MCScore
    SessionLineage <- MCSessionLineage
    SessionLayouts <- MCSessionLayouts
    LayoutObject <- MCLayoutObject
    LayoutChunks <- MCLayoutChunks
    PusherSession <- MCSameSession
    CollectorRun <- MCSameRun
    RepairerRun <- MCRepairerRun
    RF = 1
    RepairRF = 1
    BatchSize = 2
    PageSize = 1
    MaxStops = 0
    MaxLosses = 0
    NoVersion = NoVersion
    NoLayout = NoLayout
SYMMETRY MCSameCommand
CHECK_DEADLOCK FALSE
INVARIANTS OperationBarrier FinalizeAgreement

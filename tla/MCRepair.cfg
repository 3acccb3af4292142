SPECIFICATION Spec
CONSTANTS
    s1 = s1  s2 = s2  a1 = a1  a2 = a2  o1 = o1  o2 = o2
    g1 = g1  g2 = g2  r1 = r1  r2 = r2  p1 = p1  p2 = p2  k1 = k1  k2 = k2  q1 = q1  q2 = q2
    Nodes = {1, 2}
    Chunks = {1}
    Sessions = {s1}
    Lineages = {a1}
    Objects = {o1}
    Layouts = {1}
    GcRuns = {g1}
    ReplicationRuns = {r1}
    Pushers = {p1}
    Collectors = {k1}
    Repairers = {q1, q2}
    AdminNodes = {2}
    Score <- MCScore
    SessionLineage <- MCSessionLineage
    SessionLayouts <- MCSessionLayouts
    LayoutObject <- MCLayoutObject
    LayoutChunks <- MCLayoutChunks
    PusherSession <- MCPusherSession
    CollectorRun <- MCCollectorRun
    RepairerRun <- MCSameRepairRun
    RF = 1
    RepairRF = 2
    BatchSize = 2
    PageSize = 1
    MaxStops = 1
    MaxLosses = 1
    NoVersion = NoVersion
    NoLayout = NoLayout
SYMMETRY MCSameRepair
CHECK_DEADLOCK FALSE
INVARIANTS TypeOK OperationBarrier LiveVersionRestorable
PROPERTIES RepairRestores

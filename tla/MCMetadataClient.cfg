SPECIFICATION Spec
CONSTANTS
    s1 = s1  g1 = g1  r1 = r1  st1 = st1  st2 = st2
    c1 = c1  c2 = c2  nobody = nobody
    Nodes = {1}
    Chunks = {1}
    Sessions = {s1}
    Lineages = {"lineage"}
    Objects = {"object"}
    Layouts = {1}
    GcRuns = {g1}
    ReplicationRuns = {r1}
    Score <- MCScore
    SessionLineage <- MCSessionLineage
    SessionLayouts <- MCSessionLayouts
    LayoutObject <- MCLayoutObject
    LayoutChunks <- MCLayoutChunks
    RF = 1
    RepairRF = 1
    NoVersion = NoVersion
    NoLayout = NoLayout
    Clients = {c1}
    Nobody = nobody
    Stats = {st1, st2}
    Calls <- MCCalls
    MaxLate = 1
CHECK_DEADLOCK FALSE
SYMMETRY MCSymmetry
INVARIANTS ServiceTypeOK AnswersAccepted GrantsKept CompletionsAgree RetriesGranted

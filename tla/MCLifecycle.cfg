SPECIFICATION Spec
CONSTANTS
    s1 = s1  s2 = s2  s3 = s3  a1 = a1  a2 = a2  o1 = o1  o2 = o2
    art = art  generic = generic  model = model  pol1 = pol1  pol2 = pol2  m1 = m1  tag1 = tag1
    Nodes = {1}
    Chunks = {1}
    Sessions = {s1, s2, s3}
    Lineages = {a1, a2}
    Objects = {o1, o2}
    Layouts = {1, 2}
    GcRuns = {}
    ReplicationRuns = {}
    Score <- MCScore
    SessionLineage <- MCSessionLineage
    SessionLayouts <- MCSessionLayouts
    LayoutObject <- MCLayoutObject
    LayoutChunks <- MCLayoutChunks
    RF = 1
    RepairRF = 1
    NoVersion = NoVersion
    NoLayout = NoLayout
    ArtifactKinds = {generic, model}
    LineageArtifact <- MCLineageArtifact
    LineageKind <- MCLineageKind
    VersionOrder <- MCVersionOrder
    TagKeys <- MCNoTagKeys
    ManifestVersions <- MCNoManifests
    Policies = {pol1, pol2}
    KeepLastN <- MCKeepLastN
    MaxAge <- MCMaxAge
    NoAge = NoAge
    LifecycleRuns = {r1, r2}
    NoRun = NoRun
    MaxTime = 1
CHECK_DEADLOCK FALSE
INVARIANTS LifecycleTypeOK RetirementsExplained
PROPERTIES RetentionPromise

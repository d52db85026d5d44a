CONSTANTS
    s1 = s1
    e1 = e1
    e2 = e2
    a1 = a1
    a2 = a2
    p1 = p1
    p2 = p2
    g1 = g1
    NoSession = NoSession
    NoGroup = NoGroup
    Sessions = {s1}
    ExternalEvents <- MCThreeEvents
    JoinedText <- MCJoinedText
    EnabledSources <- MCSources
    Artifacts = {a1, a2}
    ArtifactSessions <- MCArtifactSessions
    ArtifactRoot <- MCArtifactRoot
    MissingRoots = {2}
    Processes = {}
    ProcessSessions <- MCProcessSessions
    ProcessGroup <- MCProcessGroup
    Owned = {}
    DedupeTtl = 1
    Grace = 2
    SnapshotLags = TRUE
    MaxBatch = 1
    StartTime = 2
    MaxTime = 4
    QuietTime = 4
    MaxFaults = 0
SPECIFICATION HSpec
INVARIANTS
    GraceRespected
PROPERTY ProcessedMeansClean
CHECK_DEADLOCK FALSE

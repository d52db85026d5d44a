CONSTANTS
    s1 = s1
    e1 = e1
    e2 = e2
    a1 = a1
    a2 = a2
    p1 = p1
    p2 = p2
    g1 = g1
    NoSession = NoSession
    NoGroup = NoGroup
    Sessions = {s1}
    ExternalEvents <- MCCollidingEvents
    JoinedText <- MCJoinedText
    EnabledSources <- MCSources
    Artifacts = {a1}
    ArtifactSessions <- MCArtifactSessions
    ArtifactRoot <- MCArtifactRoot
    MissingRoots = {}
    Processes = {p1}
    ProcessSessions <- MCProcessSessions
    ProcessGroup <- MCProcessGroup
    Owned = {p1}
    DedupeTtl = 1
    Grace = 1
    SnapshotLags = FALSE
    MaxBatch = 2
    StartTime = 2
    MaxTime = 5
    QuietTime = 3
    MaxFaults = 1
SPECIFICATION HFairSpec
INVARIANTS
    DedupeIInv
    DedupeWindow
    OpenWorkRemembered
PROPERTIES
    StorageComesClean
    ImplementsLedger
CHECK_DEADLOCK FALSE

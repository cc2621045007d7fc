SPECIFICATION Spec
CONSTANTS
    SnapIDs = {s1, s2}
    p1 = p1
    p2 = p2
    ManifestPath = mf
    c1 = c1
    c2 = c2
    Paths = {p1, p2, mf}
    Contents = {c1, c2}
    Torn = Torn
    NoDir = NoDir
    NoPath = NoPath
    Unreadable = Unreadable
    ArtifactSets <- MCArtifactSets
    InitialTarget <- MCInitialTarget
    MaxFaults = 2
SYMMETRY Symmetry
INVARIANTS SnapshotsDurable TargetNeverMixed
PROPERTIES RestoreExact MergeExact

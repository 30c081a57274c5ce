\* Every operation in any order; IRIS may fail or cover an edge by two sets.
CONSTANTS
    a = a
    b = b
    c = c
    Confs = {a, b, c}
    Invalid = {c}
    Problems <- MCProblems
    ConfLists <- MCConfLists
    SegmentLists <- MCSegmentLists
    Shapes <- MCShapes
    MaxRegions = 2
    MaxVertices = 1
    IrisMayFail = TRUE
SPECIFICATION Spec
INVARIANTS
    SoundUntilDisturbed
    VertexConfsAligned
    SnapshotCovered

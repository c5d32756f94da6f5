SPECIFICATION Spec
CONSTANTS
    Mutations = {m1, k1, h1}
    Keyed = {k1}
    Oversized = {h1}
    Fragment = Fragment
    Snapshotters = {w1, w2}
    Faults = {"write", "torn", "snapshot"}
    CallersSerialize = TRUE
    MaxSeq = 3
    MaxFrames = 3
SYMMETRY Symmetric

INVARIANT CatalogContiguous
INVARIANT RefusalExplained
INVARIANT TruncationCovered
INVARIANT WritableWhenOpen

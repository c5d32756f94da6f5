SPECIFICATION Spec
CONSTANTS
    Mutations = {m1, k1, h1}
    Keyed = {k1}
    Oversized = {h1}
    Fragment = Fragment
    Snapshotters = {w1}
    Faults = {"write", "torn", "sync", "snapshot", "compact"}
    CallersSerialize = TRUE
    MaxSeq = 3
    MaxFrames = 4

INVARIANT AckedNeverLost
INVARIANT IInv
INVARIANT KeyedOnce
PROPERTY ImplementsDurableLog

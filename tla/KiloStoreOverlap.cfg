SPECIFICATION Spec
CONSTANTS
    Mutations = {m1, k1}
    Keyed = {k1}
    Oversized = {}
    Fragment = Fragment
    Snapshotters = {w1}
    Faults = {}
    CallersSerialize = FALSE
    MaxSeq = 3
    MaxFrames = 3

INVARIANT AckedNeverLost

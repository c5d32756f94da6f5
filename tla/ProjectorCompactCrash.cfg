SPECIFICATION Spec
CONSTANTS
    Names = {p, q}
    CompactAtomic = FALSE
    MaxSeq = 2

INVARIANT CheckpointCovers

SPECIFICATION FairSpec
CONSTANTS
    Names = {p, q}
    CompactAtomic = TRUE
    MaxSeq = 3

INVARIANT CheckpointCovers
INVARIANT CaughtUpIsHealthy
INVARIANT TailMissesNothing
PROPERTY CompactionWaits
PROPERTY ImplementsFeed
PROPERTY CatchesUp
PROPERTY CloseReturns

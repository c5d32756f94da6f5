SPECIFICATION Spec
CONSTANTS
    Nodes = {x, y}
    Searches = {s}
    Persistent = TRUE
    MaxSeq = 3
SYMMETRY Symmetric

INVARIANT IndexCovers
INVARIANT SearchCovers
INVARIANT DirectSound

SPECIFICATION Spec
CONSTANTS
    a = a
    b = b
    c = c
    p = p
    q = q
    Handles = {a, b, c}
    Processes = {p, q}
    ProcessOf <- TwoProcesses
    None = None
    CallersWait = TRUE
    MaxTerm = 3

INVARIANT OwnerInv
INVARIANT OwnersExclude
INVARIANT NothingLeaks
PROPERTY NewestOwnerWrites

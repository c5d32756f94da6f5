SPECIFICATION FairSpec
CONSTANTS
    Callers = {a, b}
    Timeout = 1
    MaxDelay = 1
    MaxClock = 2
    MaxSeq = 1
CHECK_DEADLOCK FALSE

INVARIANT NoMissedProgress
INVARIANT ParkedHasWaker
PROPERTY WaitEnds

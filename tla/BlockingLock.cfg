SPECIFICATION Spec
CONSTANTS
    MaxPid = 4
    Pids = {1, 2, 3, 4}
    KillBound = 2
INVARIANTS
    NoLostWakeup
PROPERTIES
    ImplementsLock

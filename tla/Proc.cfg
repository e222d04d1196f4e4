SPECIFICATION Spec
CONSTANTS
    NPROC = 3
    CPUs = {c1, c2}
    Chans = {10}
    MaxPid = 3
INVARIANTS
    OneCpuEach
    PidsUnique
    ParentAlive
    WaiterNotForgotten
PROPERTIES
    InitReapsZombies

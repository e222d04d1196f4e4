SPECIFICATION Spec
CONSTANTS
    NPROC = 3
    PGSIZE = 2
    end = 1
    MID = 12
    PHYSTOP = 35
    KERNBASE = 6
    NPTENTRIES = 3
    NKPT = 1
    UINT = 64
    Programs <- MCPrograms
    Grows <- MCGrows
    MaxCalls = 5
    Regions = {1}
INVARIANTS
    FreePagesUnused
CHECK_DEADLOCK FALSE

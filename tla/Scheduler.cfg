SPECIFICATION Spec
CONSTANTS
    NPROC = 3
    CPUs = {c0}
    cpu0 = c0
    AGING_THRS = 1
    MAX_RANK = 1
    creation_time <- MCCreation
    first_rank <- MCRank
    Queues = {1, 2, 3, 4}
    ChangeBound = 1
    ExecCap = 1
PROPERTIES
    
    NoStarvation

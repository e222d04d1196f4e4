SPECIFICATION Spec
CONSTANTS
    Procs = {p1, p2}
    Blocks = {b1, b2, b3}
    Values = {0, 1}
    MAXOPBLOCKS = 1
    LOGSIZE = 3
    nlog = 3
INVARIANTS
    QuiescentDurable
    Reservation
PROPERTIES
    
    BeginOpWakes

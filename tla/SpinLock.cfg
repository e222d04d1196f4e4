SPECIFICATION Spec
CONSTANTS
    CPUs = {c0, c1}
    cpu0 = c0
    Procs = {p1, p2}
    Paths <- MCPaths
    MaxDepth = 3
SYMMETRY ProcSymmetry
INVARIANTS
    InterruptsMatch
    NcliCounts
    
    OnlyPtableFirstDeadlocks
CHECK_DEADLOCK FALSE

SPECIFICATION Spec
CONSTANTS
    Readers = {p1, p2}
    Keys <- MCKeys
    INPUT_BUF = 2
    Wrap = 4
    MaxCount = 2
INVARIANTS
    SleepsOnEmpty
    NoStuckModifier
    
PROPERTIES
    ImplementsLines
CHECK_DEADLOCK FALSE
SYMMETRY Symmetry

SPECIFICATION SafeSpec
CONSTANTS
    Readers = {r1, r2}
    Writers = {w1, w2}
    Bytes = {0, 1}
    PIPESIZE = 2
    Wrap = 4
    MaxCount = 2
    MAXARGS = 3
    WordChars = {"a"}
    MaxLine = 4
    MaxNest = 2
SYMMETRY MCSymmetry
INVARIANTS
    SleepersWait
    FreedIsUnused
    LineParsed
    LineWired
PROPERTIES
    ImplementsFifo
CHECK_DEADLOCK FALSE

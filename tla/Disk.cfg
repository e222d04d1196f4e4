SPECIFICATION Spec
CONSTANTS
    Procs = {p1, p2}
    Blocks = {1, 2, 3, 4}
    Stores <- MCStores
    NBUF = 3
    MaxDirty = 1

    
    
PROPERTY
    RequestServed

SPECIFICATION Spec
CONSTANTS
    t1 = t1
    t2 = t2
    t3 = t3
    x1 = x1
    x2 = x2
    NoItem = NoItem
    NoThread = NoThread
    Threads <- MCThreads
    Items <- MCItems
    MaxSize = 2
SYMMETRY Symmetry
INVARIANTS
    TypeOK
    NobodySleepsOverItem
PROPERTIES
    ImplementsFifo

SPECIFICATION Spec
CONSTANTS
    f1 = f1
    f2 = f2
    Files <- TwoFiles
    P = 3
    B = 7
    Lengths <- MCLengths
    MaxOpens = 2
SYMMETRY Symmetry
INVARIANTS
    TypeOK
    StoredExactly
    ShortComesBack
\* The users may stop.
CHECK_DEADLOCK FALSE

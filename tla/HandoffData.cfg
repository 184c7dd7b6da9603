SPECIFICATION Spec
CONSTANTS
    p1 = p1
    p2 = p2
    fa = fa
    fb = fb
    oa = oa
    ob = ob
    n1 = n1
    NoName = NoName
    Empty = Empty
    Secret = Secret
    Zeros = Zeros
    Unsized = Unsized
    None = None
    Base <- MCBase
    ShmNames <- MCShmNames
    Original <- MCOriginal
    Procs <- TwoProcs
    Wanted <- AnyFile
    Files <- TwoFiles
    News <- OneNew
    ShmFails = TRUE
    MaxMsgs = 1
    MaxOpens = 2
SYMMETRY Symmetry
INVARIANTS
    BackupIsOwn
\* The processes open files a bounded number of times.
CHECK_DEADLOCK FALSE

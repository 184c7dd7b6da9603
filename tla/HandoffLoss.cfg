SPECIFICATION Spec
CONSTANTS
    p1 = p1
    p2 = p2
    fa = fa
    fb = fb
    oa = oa
    ob = ob
    n1 = n1
    NoName = NoName
    Empty = Empty
    Secret = Secret
    Zeros = Zeros
    Unsized = Unsized
    None = None
    Base <- MCBase
    ShmNames <- MCShmNames
    Original <- MCOriginal
    Procs <- OneProc
    Wanted <- AnyFile
    Files <- OneFile
    News <- NoNews
    ShmFails = FALSE
    MaxMsgs = 2
    MaxOpens = 1
INVARIANTS
    OriginalKept
\* The processes open files a bounded number of times.
CHECK_DEADLOCK FALSE

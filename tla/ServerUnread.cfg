SPECIFICATION Spec
CONSTANTS
    w1 = w1
    w2 = w2
    b1 = b1
    b2 = b2
    p1 = p1
    fa = fa
    sa = sa
    v1 = v1
    NoFd = NoFd
    None = None
    File = File
    Junk = Junk
    Absent = Absent
    Rest = Rest
    Transf <- MCTransf
    Back <- MCBack
    Files <- MCFiles
    Vals <- MCVals
    TagLen = 3
    RecvLen = 4
    Workers <- OneWorker
    BlockConns <- TwoBlocks
    AskConns <- NoConns
    Fds <- TwoFds
    NBlocks = 1
    MaxAsks = 0
    Capacity = 2
INVARIANTS
    NothingUnreadClosed
CHECK_DEADLOCK FALSE

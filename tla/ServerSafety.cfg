SPECIFICATION Spec
CONSTANTS
    w1 = w1
    w2 = w2
    b1 = b1
    b2 = b2
    p1 = p1
    fa = fa
    sa = sa
    v1 = v1
    NoFd = NoFd
    None = None
    File = File
    Junk = Junk
    Absent = Absent
    Rest = Rest
    Transf <- MCTransf
    Back <- MCBack
    Files <- MCFiles
    Vals <- MCVals
    TagLen = 3
    RecvLen = 4
    Workers <- TwoWorkers
    BlockConns <- TwoBlocks
    AskConns <- OneAsk
    Fds <- TwoFds
    NBlocks = 2
    MaxAsks = 1
    Capacity = 2
SYMMETRY Symmetry
INVARIANTS
    TypeOK
    MonitorExclusive
    AppendHasRoom
    StoreSound
\* The server is quiet once it has exited.
CHECK_DEADLOCK FALSE

SPECIFICATION FairSpec
CONSTANTS
    p1 = p1
    Heart = Heart
    Recv = Recv
    Procs <- OneProc
    Offline = 3
    MaxConns = 2
    MaxStarts = 2
INVARIANTS
    TypeOK
    FlagUsedOnce
    NoStaleOffline
PROPERTIES
    OfflineMeansNoReset
    SilenceNoticed
    CloseNoticed
\* The client may end.
CHECK_DEADLOCK FALSE

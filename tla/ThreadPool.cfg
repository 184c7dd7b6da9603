SPECIFICATION FairSpec
CONSTANTS
    w1 = w1
    w2 = w2
    a1 = a1
    a2 = a2
    r1 = r1
    r2 = r2
    Null = Null
    NoThread = NoThread
    Workers <- MCWorkers
    Requests <- MCRequests
    Callers <- MCCallers
    MaxRequests = 1
    MaxInterrupts = 1
INVARIANTS
    TypeOK
    NoStrandedRequest
    QueueBound
PROPERTIES
    ImplementsTaskPool
    QueuedIsServed
\* The pool is quiet once construction has failed or it has been deleted.
CHECK_DEADLOCK FALSE

SPECIFICATION FairSpec
CONSTANTS
    w1 = w1
    w2 = w2
    w3 = w3
    c1 = c1
    t1 = t1
    t2 = t2
    t3 = t3
    Workers <- ThreeWorkers
    Callers <- OneCaller
    Tasks <- ThreeTasks
    NoTask = NoTask
    NoThread = NoThread
INVARIANTS
    TypeOK
    TaskHasTaker
PROPERTIES
    PoolSpec
    TaskTaken
    JoinReturns
\* The destructor may wait for a sleeping worker.
CHECK_DEADLOCK FALSE

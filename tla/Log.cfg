SPECIFICATION FairSpec
CONSTANTS
    w1 = w1
    w2 = w2
    NoLine = NoLine
    NoFile = NoFile
    Writers <- MCWriters
    Modes <- BothModes
    QueueSize = 1
    SplitLines = 2
    MonthLen = 2
    OpenFails = TRUE
    MaxDay = 2
    MaxCalls = 2
INVARIANTS
    TypeOK
    ReturnedLineKept
    FileLinesBounded
PROPERTIES
    QueuedIsWritten
\* The writers make a bounded number of calls.
CHECK_DEADLOCK FALSE

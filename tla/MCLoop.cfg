CONSTANTS
    t1 = t1
    t2 = t2
    e1 = e1
    e2 = e2
    e3 = e3
    LoopThread = loop
    NoThread = none
    Threads <- MCThreads2
    Events <- MCEvents3
    Statuses <- MCStatuses
    PipeCapacity = 2
    MaxExits = 2
    HasTimeout = TRUE
SPECIFICATION LiveSpec
\* The program may wedge on a full pipe: FullPipeWedges says how.
CHECK_DEADLOCK FALSE
INVARIANTS
    Inv
    NoLostWakeup
PROPERTIES
    ReturnsLatestStatus
    StoppedForGood
    FullPipeWedges
    ImplementsExecutor
    LoopProgress

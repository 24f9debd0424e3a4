CONSTANTS
    Movers = {m1, m2}
    Callers = {c1, c2}
    MaxTasks = 2
    MaxSpurious = 1
SPECIFICATION FairSpec
CHECK_DEADLOCK FALSE
INVARIANTS TypeOK InOnePlace WorkIsSeen
PROPERTIES WaitAllIsABarrier StopIsFinal EveryTaskRuns

CONSTANTS
    Movers = {m1, m2}
    Callers = {c1, c2}
    MaxTasks = 1
    MaxSpurious = 0
SPECIFICATION FairLocksSpec
CHECK_DEADLOCK FALSE
PROPERTY CallsReturn

\* Two tasks; their ids may be of different windows.
SPECIFICATION TasksSpec
CONSTANTS
    t1 = t1  t2 = t2  t3 = t3  f1 = f1  f2 = f2  None = None
    Tasks <- TwoTasks
    Files <- TwoFiles
    MaxConcurrentTasks = 2
    MaxPushes = 1
    MaxWindow = 2
INVARIANTS AppliedIsCommitted
CHECK_DEADLOCK FALSE

\* Three tasks share two slots, a file and, their ids being alike, a branch.
SPECIFICATION TasksFairSpec
CONSTANTS
    t1 = t1  t2 = t2  t3 = t3  f1 = f1  f2 = f2  None = None
    Tasks <- ThreeTasks
    Files <- OneFile
    MaxConcurrentTasks = 2
    MaxPushes = 1
    MaxWindow = 1
INVARIANTS SlotsMatchTasks
PROPERTIES TaskIsAnswered CommitsUndoNothing
CHECK_DEADLOCK FALSE

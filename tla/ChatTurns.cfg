SPECIFICATION Spec
CONSTANTS
    MaxTasks = 3
    Retries = 1
    MaxCrashes = 1
    Inputs = {"review", "retry", "restart", "cancel", "crash"}
INVARIANTS
    HistorySound
    AnsweredOnce
PROPERTIES
    TasksEnd
    ReviewSettles
CHECK_DEADLOCK FALSE

SPECIFICATION FairSpec
CONSTANTS
    Tasks = {t1, t2}
    Waiters = {}
    Principals = {p1}
    NoTask = NoTask
    HistoryLimit = 1
    Inputs = {"background", "queued", "tracked", "abort", "fail", "cancel", "shutdown"}
    Outcomes = {"completed"}
INVARIANT ShutdownComplete
PROPERTIES TerminalFrozen UnwoundBeforeTerminal  
CHECK_DEADLOCK FALSE

SPECIFICATION Spec
CONSTANTS
    Tasks = {t1, t2}
    Waiters = {w1}
    Principals = {p1}
    NoTask = NoTask
    HistoryLimit = 1
    Inputs = {"background", "inline", "result", "attention", "fail", "cancel"}
    Outcomes = {"timed_out"}
SYMMETRY Symmetry
INVARIANTS NoOrphan HistoryExact NoLostWakeup
CHECK_DEADLOCK FALSE

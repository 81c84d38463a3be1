SPECIFICATION Spec
CONSTANTS
    Kinds = {"google", "mcp"}
    Requests = {r1, r2}
    MaxAttempts = 3
    MaxChanges = 4
    MaxRefreshes = 2
    MaxCrashes = 1
    None = None
SYMMETRY Symmetry
INVARIANTS FailClosed
PROPERTIES RefreshKeepsAuthorization
CHECK_DEADLOCK FALSE

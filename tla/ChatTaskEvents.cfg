SPECIFICATION Spec
CONSTANTS
    Tasks = {t1, t2}
    Readers = {r1}
    Tools = {c1, c2}
    Kinds = {"delta", "tool_call_started", "chat_retry_scheduled", "chat_retry_redirect"}
    MaxEventsPerTask = 1
    MaxTerminalTasks = 1
    MaxProjectedTools = 1
    MaxSaid = 2
    MaxOpens = 2
INVARIANTS
    ReplayFaithful
PROPERTIES
    SeesTheLog
    ReadersFinish
CHECK_DEADLOCK FALSE

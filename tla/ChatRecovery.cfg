SPECIFICATION RecoverySpec
CONSTANTS
    MaxCalls = 2
    MaxAttempts = 3
    MaxRetries = 1

    
PROPERTIES TurnEnds
CHECK_DEADLOCK FALSE

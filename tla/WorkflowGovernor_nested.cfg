SPECIFICATION FairSpec
CONSTANTS
    v1 = v1
    v2 = v2
    w1 = w1
    w2 = w2
    Vaults = {v1, v2}
    Workflows <- TwoWorkflows
    VaultOf <- TwoVaultOf
    RunIds = {1, 2}
    EventKeys = {k1}
    NoKey = NoKey
    NoRun = NoRun
    MaxPerWorkflow = 1
    Retention = 1
    MaxTime = 2
    FinalStatuses = {"completed"}
    Limits = {0}
    MaxChanges = 0
    MaxCrashes = 0
    Inputs = {"nested"}
PROPERTIES
    NestedRunReturns
CHECK_DEADLOCK FALSE

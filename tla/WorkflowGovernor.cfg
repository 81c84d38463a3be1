SPECIFICATION FairSpec
CONSTANTS
    v1 = v1
    v2 = v2
    w1 = w1
    w2 = w2
    Vaults = {v1, v2}
    Workflows <- TwoWorkflows
    VaultOf <- TwoVaultOf
    RunIds = {1, 2, 3}
    EventKeys = {k1}
    NoKey = NoKey
    NoRun = NoRun
    MaxPerWorkflow = 1
    Retention = 1
    MaxTime = 3
    FinalStatuses = {"failed"}
    Limits = {0, 1}
    MaxChanges = 1
    MaxCrashes = 1
    Inputs = {"timeout", "cancel", "nested", "crash", "events"}
INVARIANTS
    OnePerVault
    
    PermitsBalanced
PROPERTIES
    LanesServed
    LatestRetained
CHECK_DEADLOCK FALSE

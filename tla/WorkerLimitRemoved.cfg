SPECIFICATION SystemSpec
CONSTANTS
    JobIds = {j1, j2}
    ClaimBatch = 2
    RecoverBatch = 2
    RetryBudgets = {0}
    StallBudgets = {0}
    Limits = {1}
    Versions = {1}
    CompletedPolicies <- MCPolicies
    FailedPolicies <- MCPolicies
    MaxHandoffs = 2
    Workers = {w1, w2}
    Steady = {}
    Deployments <- AllAtOne
    Concurrency = 1
    Accidents = {"remove"}
    MaxNotices = 1
INVARIANTS
    NobodyParkedUnlimited
CHECK_DEADLOCK FALSE

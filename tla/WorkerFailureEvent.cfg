SPECIFICATION FairSpec
CONSTANTS
    JobIds = {j1}
    ClaimBatch = 2
    RecoverBatch = 2
    RetryBudgets = {0}
    StallBudgets = {1}
    Limits = {1}
    Versions = {1}
    CompletedPolicies <- MCPolicies
    FailedPolicies <- MCPolicies
    MaxHandoffs = 2
    Workers = {w1, w2}
    Steady = {w1}
    Deployments <- NobodyLimited
    Concurrency = 1
    Accidents = {"drop"}
    MaxNotices = 1
PROPERTIES
    FailureReported
CHECK_DEADLOCK FALSE

SPECIFICATION ShutdownSpec
CONSTANTS
    JobIds = {j1, j2}
    ClaimBatch = 2
    RecoverBatch = 2
    RetryBudgets = {0}
    StallBudgets = {0}
    Limits = {1}
    Versions = {1}
    CompletedPolicies <- MCPolicies
    FailedPolicies <- MCPolicies
    MaxHandoffs = 1
    Workers = {w1}
    Steady = {}
    Deployments <- NobodyLimited
    Concurrency = 2
    Accidents = {"drop", "hash"}
    MaxNotices = 1
INVARIANTS
    PermitsConserved
PROPERTIES
    ShutdownCompletes
CHECK_DEADLOCK FALSE

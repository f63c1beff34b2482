SPECIFICATION OutcomeSpec
CONSTANTS
    JobIds = {j1, j2}
    ClaimBatch = 2
    RecoverBatch = 2
    RetryBudgets = {0}
    StallBudgets = {1}
    Limits = {1}
    Versions = {1}
    CompletedPolicies <- MCPolicies
    FailedPolicies <- MCPolicies
    MaxHandoffs = 1
    Workers = {w1, w2}
    Steady = {w1}
    Deployments <- AllAtOne
    Concurrency = 1
    Accidents = {"crash", "drop", "notice", "hash"}
    MaxNotices = 1
PROPERTIES
    EventualOutcome
CHECK_DEADLOCK FALSE

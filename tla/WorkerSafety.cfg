SPECIFICATION SafetySpec
CONSTANTS
    JobIds = {j1, j2}
    ClaimBatch = 2
    RecoverBatch = 2
    RetryBudgets = {0, 1}
    StallBudgets = {0, 1}
    Limits = {1, 2}
    Versions = {1, 2}
    CompletedPolicies <- MCPolicies
    FailedPolicies <- MCPolicies
    MaxHandoffs = 2
    Workers = {w1, w2}
    Steady = {}
    Deployments <- EachOf
    Concurrency = 1
    Accidents = {"drop", "crash", "hash", "remove"}
    MaxNotices = 1
SYMMETRY Symmetry
INVARIANTS
    
    EndReportedOnce
    NoLostWakeup
    LimitInForce
CHECK_DEADLOCK FALSE

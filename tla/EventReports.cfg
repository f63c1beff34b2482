SPECIFICATION MCReportsSpec
CONSTANTS
    JobIds = {j1, j2}
    Garbled = {j1}
    ClaimBatch = 2
    RecoverBatch = 2
    RetryBudgets = {0, 1}
    StallBudgets = {1}
    Limits = {}
    Versions = {}
    CompletedPolicies <- MCDelete
    FailedPolicies <- MCKeep
    MaxHandoffs = 0
    MaxLosses = 1
INVARIANTS
    OneVerdictPerRun
    ReportsBacked
    CorruptCounted
    HealthySiblingsRun
    PoisonBounded
CHECK_DEADLOCK FALSE

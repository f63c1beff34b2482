SPECIFICATION MCSpec
CONSTANTS
    JobIds = {j1, j2, j3}
    ClaimBatch = 2
    RecoverBatch = 2
    RetryBudgets = {0, 1}
    StallBudgets = {0, 1}
    Limits = {1, 2}
    Versions = {1, 2}
    CompletedPolicies <- MCCompletedPolicies
    FailedPolicies <- MCFailedPolicies
    MaxHandoffs = 1
    Jobs = {1, 2, 3, 4}
    Rules <- MCRules
    Fallback <- MCFallback
    Times = {5, 6, 7, 8}
SYMMETRY Symmetry
INVARIANTS
    Placement
    LeaseFence
    LeaseAccounting
    BudgetsRespected
    NoJobVanishes
    IInv
    FifoFirstRun
    NothingDangles
PROPERTIES
    
    OutcomeFinal
    ImplementsLifecycle
    GlobalLimit
    CapacityAnnounced
    TrimmedByRule
CHECK_DEADLOCK FALSE

SPECIFICATION ProcessSpec
CONSTANTS
    Subjects = {"semaphore", "renewal", "pool"}
    Callers = {claimLoop, run1, run2, run3}
    Permits = 2
    LeaseMs = 30
    LockRenewMs <- MCLockRenewMs
    Latency = 1
    Lag = 1
    MaxMisses = 3
    Queues = {q1, q2}
    Limited = {q1, q2}
    Modes = {"force", "drain", "timeout"}
    Attempts = 3
INVARIANTS
    SemaphoreExact
    SurvivesMisses
    NoFalseAlarm
    AllOrNothing
    DrainComplete
    AlarmExact
PROPERTIES
    Served
    LossNoticed
    CallsSettle

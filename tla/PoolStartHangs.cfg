SPECIFICATION ProcessSpec
CONSTANTS
    Subjects = {"pool"}
    Callers = {claimLoop}
    Permits = 1
    LeaseMs = 30
    LockRenewMs <- MCLockRenewMs
    Latency = 1
    Lag = 1
    MaxMisses = 3
    Queues = {q1, q2}
    Limited = {q1}
    Modes = {"force"}
    Attempts = 3
PROPERTIES
    StartReportsUnreachable

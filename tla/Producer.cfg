SPECIFICATION ProducerSpec
CONSTANTS
    Connects = {k1}
    Enqueues = {e1, e2}
    Disconnects = {d1, d2}
    None = None
    Attempts = 3
    Values = {v0, v1, v2, v3}
    Root = v0
    MaxDepth = 2
    MaxChanges = 1
INVARIANTS
    ConnectionsOwned
    OutcomeTellsFate
    
PROPERTIES
    CallsEnd
    SelfHeals
CHECK_DEADLOCK FALSE

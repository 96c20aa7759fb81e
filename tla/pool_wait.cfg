SPECIFICATION Spec
CONSTANTS
    Requests = {r1, r2, r3}
    NoRequest = NoRequest
    Workers = {w1}
    QueueSize = 1
    Timeout = 1
    Horizon = 2
INVARIANTS BoundedWait
CHECK_DEADLOCK FALSE

SPECIFICATION FairSpec
CHECK_DEADLOCK FALSE
CONSTANTS
    Requests = {r1, r2, r3}
    NoRequest = NoRequest
    Workers = {w1, w2}
    QueueSize = 1
    Timeout = 1
    Horizon = 2
INVARIANTS PoolTypeOK JobConserved SendIsFree BlockedOnlyWhenFull AnswerComes
PROPERTIES EveryCallerReplied EveryJobFinished

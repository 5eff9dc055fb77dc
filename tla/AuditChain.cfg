SPECIFICATION FairSpec
CONSTANTS
    Requests = {r1}
    Workers = {w1, w2}
    Users = {u1}
    NoUser = NoUser
    Entries = {e1, e2}
    NoEntry = NoEntry
    CHAIN_INSERT_MAX_ATTEMPTS = 3
    AUDIT_TASK_MAX_RETRIES = 1
    MaxFaults = 2
INVARIANTS ChainLinked VerifiesIffAuthorsKept NoSilentLoss
PROPERTIES RowsAreAppendOnly QueueDrains
CHECK_DEADLOCK FALSE

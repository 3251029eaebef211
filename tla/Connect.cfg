SPECIFICATION FairSpec
CONSTANTS
    Fds <- MCFds
    Reqs = {r1, r2}
    MaxAddr = 3
    Forms = {"async", "async_addr", "sync", "sync_name", "timeout"}
INVARIANTS ToldOnce HoldsItsNumber
PROPERTY EveryRequestIsTold
CHECK_DEADLOCK FALSE

SPECIFICATION Spec
CONSTANTS
    Fds <- MCFds
    MaxConn = 4
    MaxMsg = 2
    Awkward = {}
INVARIANTS Transparent NothingHeldBack ClosedTogether
CHECK_DEADLOCK FALSE

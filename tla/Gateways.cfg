SPECIFICATION Spec
CONSTANTS
    Fds <- MCFds
    MaxConn = 4
    MaxToken <- MCMaxToken
    MaxReply = 2
    MaxBroken = 1
    Awkward = {}
INVARIANTS OwnTraffic RemoteHasItsClient NothingIsLost
CHECK_DEADLOCK FALSE

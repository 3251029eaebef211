SPECIFICATION Spec
CONSTANTS
    Fds = {1, 2}
    MaxConn = 2
    MaxDepth = 1
    Events = {"WRITE"}
    CbSets <- MCCbSets
    FlagSets <- MCSingleFlagSets
INVARIANTS TableMatchesKernel

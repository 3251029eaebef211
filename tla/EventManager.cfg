SPECIFICATION Spec
CONSTANTS
    Fds = {1, 2}
    MaxConn = 3
    MaxDepth = 2
    Events = {}
    CbSets <- MCCbSets
    FlagSets <- MCFlagSets
INVARIANTS NoStaleDispatch CalledAtMostOnce NoCallbackLost TableMatchesKernel

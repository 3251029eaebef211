SPECIFICATION Spec
CONSTANTS
    NAddr = 1
    Fds <- MCFds
    MaxConn = 3
    MaxReq = 4
    Awkward = {}
INVARIANTS OwnReply CallbacksFitConnection WaitSeesAnswers
CHECK_DEADLOCK FALSE

SPECIFICATION Spec
CONSTANTS
    Masters = {m1}
    Workers = {w1, w2}
    Fds <- MCFds
    MaxConn = 2
    MaxToken = 4
    MaxKilled = 2
INVARIANTS SessionIsReached GivenIsSent TaskHasItsSession
PROPERTY EveryoneIsServed
CHECK_DEADLOCK FALSE

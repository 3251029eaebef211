SPECIFICATION FairSpec
CONSTANTS
    Fds <- MCFds
    Timers = {t1, t2, t3}
    Interval = {t1}
    MaxExpire = 2
    MaxLeak = 1
INVARIANT OthersUndisturbed
PROPERTIES QuietWhenOver OnceFires
CHECK_DEADLOCK FALSE

CONSTANTS
    w1 = w1  w2 = w2  w3 = w3
    t1 = t1  t2 = t2  t3 = t3  t4 = t4
    Workers <- MCWorkers
    Tasks <- MCTasks
    NoTask = NoTask
\* Callers may stop calling execute; the workers then sleep.
CHECK_DEADLOCK FALSE
SPECIFICATION FairSpec
INVARIANT NoLostWakeup
PROPERTIES ImplementsTaskQueue EverySubmittedTaskRuns

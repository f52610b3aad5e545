CONSTANTS
    Producers = {p1, p2}
    Workers = {w1, w2}
    Tasks = {t1, t2, t3}
    NullTasks = {t3}
    MaxTask = 1
    NoThread = NoThread
    NoTask = NoTask
    Interruptible = FALSE
SPECIFICATION FairSpec
INVARIANT ExactTokens
PROPERTIES AcceptedIsProcessed AppendReturns
CHECK_DEADLOCK FALSE

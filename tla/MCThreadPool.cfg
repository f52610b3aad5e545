CONSTANTS
    Producers = {p1, p2}
    Workers = {w1, w2}
    Tasks = {t1, t2, t3}
    NullTasks = {t3}
    MaxTask = 2
    NoThread = NoThread
    NoTask = NoTask
    Interruptible = TRUE
SPECIFICATION Spec
SYMMETRY ThreadSymmetry
INVARIANTS TypeOK NoLostTask Fifo Bounded ExactlyOneOwner
PROPERTY ImplementsTaskQueue
CHECK_DEADLOCK FALSE

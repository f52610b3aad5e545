CONSTANTS
    Fds = {f1, f2, f3}
    Timers = {m1, m2, m3, m4, m5}
    Null = Null
    Slow = FALSE
    MaxNow = 4
    MaxInputs = 5
    Slot = 1
    Slots = 3
    WheelDelay = 1
    HeapDelay = 2
SPECIFICATION Spec
SYMMETRY Symmetry
INVARIANTS TimerPerConnection 
PROPERTY ImplementsIdleTimers
CHECK_DEADLOCK FALSE

CONSTANTS
    Fds = {f1, f2, f3}
    Timers = {m1, m2, m3}
    Null = Null
    Slot = 1
    MaxNow = 4
    MaxInputs = 5
SPECIFICATION Spec
SYMMETRY Symmetry
INVARIANTS WellLinked TimerPerConnection NotLate AlarmsGoOn
PROPERTY ImplementsIdleTimers
CHECK_DEADLOCK FALSE

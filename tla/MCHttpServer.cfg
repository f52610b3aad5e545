CONSTANTS
    Conns = {c1, c2}
    Fds = {f1, f2}
    Main = Main
    Workers = {w1, w2}
    MaxTask = 2
    MaxFd = 3
    MaxEvents = 2
    BufSize = 2
    MaxSend = 2
    NoConn = NoConn
    NoHandle = NoHandle
    MayStop = TRUE
SPECIFICATION Spec
SYMMETRY Symmetry
INVARIANTS OneOwner NoStaleHandle OutHasResponse NotStranded
CHECK_DEADLOCK FALSE

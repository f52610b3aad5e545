CONSTANTS
    Conns = {c1, c2}
    Fds = {f1}
    Main = Main
    Workers = {w1, w2}
    MaxTask = 1
    MaxFd = 1
    MaxEvents = 1
    BufSize = 2
    MaxSend = 1
    NoConn = NoConn
    NoHandle = NoHandle
    MayStop = TRUE
SPECIFICATION FairSpec
PROPERTIES HangUpIsNoticed
CHECK_DEADLOCK FALSE

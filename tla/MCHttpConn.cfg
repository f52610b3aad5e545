CONSTANTS
    MaxLen = 6
    BodyLen = 3
    Streams <- AllStreams
    MaxHeader = 3
    MaxBody = 2
    MaxSent = 6
    BufSize = 9
SPECIFICATION MCSpec
INVARIANTS LinesResume VerdictIsSound    ReaderVerdict
CHECK_DEADLOCK FALSE

CONSTANTS
    c1 = c1
    c2 = c2
    Conn = {c1}
    W = 3
    Capacity = 3
    MaxBuf = 2
    Readable = TRUE
    Writable = TRUE
    FlagChoices <- MCFlags
    Counts = {1, 3}
    SeekOffsets <- MCSeekOffsets
SPECIFICATION Spec
PROPERTY SeekForwardNeverMovesBack
\* An unhandled request panics and every task stops with the process:
\* the server may really stop there.
CHECK_DEADLOCK FALSE

\* Two tasks on a file of capacity 2, with a 2-bit seek: every way a task ends, the rights
\* carried through Clone and SetFlags, and appends racing other writers.
CONSTANTS
    c1 = c1
    c2 = c2
    Conn = {c1, c2}
    W = 2
    Capacity = 2
    MaxBuf = 2
    Readable = TRUE
    Writable = TRUE
    FlagChoices <- MCAllFlags
    Counts = {1, 3}
    SeekOffsets <- MCSmallOffsets
SPECIFICATION Spec
INVARIANT TypeOK CloseExactlyOnce
PROPERTY ShutdownEndsAllTasks FileModifiedOnlyWithGrantedWrite
\* An unhandled request panics and every task stops with the process:
\* the server may really stop there.
CHECK_DEADLOCK FALSE

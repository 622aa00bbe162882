\* Two clients with read-only and read-write connections, one of which
\* sends a request handle_request does not list.
CONSTANTS
    c1 = c1
    c2 = c2
    Conn = {c1, c2}
    W = 3
    Capacity = 2
    MaxBuf = 2
    Readable = TRUE
    Writable = TRUE
    FlagChoices <- MCRightsFlags
    Counts = {1}
    SeekOffsets <- MCOffsets
SPECIFICATION Spec
PROPERTY ConnectionsEndIndependently
\* After the panic no task runs: the server has stopped.
CHECK_DEADLOCK FALSE

SPECIFICATION TransportSpec
CONSTANTS
    Readers = {r1, r2}
    NoLine = NoLine
    MAX_PROTOCOL_LINE_BYTES = 2
    MaxBytes = 7
    MaxChunk = 3
    Owners = {o1, o2}
    MaxTransportBytes = 2
INVARIANTS
    CutsDoNotMatter
    CallsServed
PROPERTY
    CloseReleasesPeer
CHECK_DEADLOCK FALSE

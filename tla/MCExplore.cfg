\* Two registry entries, so that a first candidate fails before a second is
\* tried, and one exchange of a certificate between discovery and handshake.
SPECIFICATION ClientSpec
CONSTANTS
    Readers = {opener, c1, c2, c3}
    Opener = opener
    NoLine = NoLine
    Hosts = {h1, h2}
    Certs = {k1, k2}
    MaxEntries = 2
    MaxRotations = 1
INVARIANTS
    CommandsPaired
    
PROPERTIES
    ClosedSessionDrains
CHECK_DEADLOCK FALSE

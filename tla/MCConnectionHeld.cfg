SPECIFICATION FairSpec
CONSTANTS
    Readers = {o1, o2}
    NoLine = NoLine
    None = None
PROPERTIES
    CloseSurfaces
CHECK_DEADLOCK FALSE

SPECIFICATION FairSpec
CONSTANTS
    Readers = {o1, o2, o3}
    NoLine = NoLine
    None = None
INVARIANTS
    RepliesPaired
    LockStep
PROPERTIES
    SpentConnectionIsSilent
    CloseReleasesCallers
    IsSerialExchange
CHECK_DEADLOCK FALSE

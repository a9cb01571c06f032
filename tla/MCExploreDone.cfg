SPECIFICATION FairSpec
CONSTANTS
    Readers = {opener, c1, c2}
    Opener = opener
    NoLine = NoLine
INVARIANTS
    DoneIsIdempotent
CHECK_DEADLOCK FALSE

SPECIFICATION Spec
CONSTANTS
    Runs = {r1, r2}
    Digests = {"d1", "d2", "d3", "d4"}
    Size <- MCSize
    MaxEntries = 2
    MaxBytes = 3
    Observers = 1
    MaxSteps = 2
    Selections <- MCSelections
    Registrations <- MCRegistrations
INVARIANTS
    BoundAndReleased
    CacheWithinQuota
PROPERTY
    CallbacksNeverOverlap
SYMMETRY Symmetry
CHECK_DEADLOCK FALSE
